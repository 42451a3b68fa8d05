-------------------------- MODULE TurnServedProofs --------------------------
(***************************************************************************)
(* Proofs about TurnProtocol, continued from TurnProtocolProofs: for any   *)
(* prompts, modes, channel size and number of rounds and ops, every prompt *)
(* the user submits is served.  The inductive invariant SInv says where    *)
(* each prompt is: which of those the UI holds the conversation has, given *)
(* what the engine has said of the turn and the UI has yet to read, from   *)
(* where a refusal takes them out again, and which session each is for.  A  *)
(* lemma named after an action, as RefuseServes, says that it keeps SInv.  *)
(***************************************************************************)
EXTENDS TurnProtocolProofs, FiniteSetTheorems

----------------------------------------------------------------------------
(* Where each prompt is *)

Once(s) == \A i, j \in 1..Len(s) : s[i] = s[j] => i = j

\* The prompts the turn in flight has taken from the queue, and all the UI holds.
Fore(q) == {p \in Prompt : p = q.active \/ p \in Elems(q.drained)}
Held(t) == {p \in Prompt : p = t.input} \cup Fore(t.queue) \cup Elems(t.queue.pending)

\* The UI holds a prompt in one place.
Apart(q, input) ==
  /\ Once(q.pending) /\ Once(q.drained) /\ Elems(q.pending) \cap Elems(q.drained) = {}
  /\ q.active \notin Elems(q.pending) \cup Elems(q.drained)
  /\ input \notin Elems(q.pending) \cup Elems(q.drained)
  /\ input # NoPrompt => input # q.active

\* The engine is done with the operation in flight, if there is one.
Asked(os)   == {os[i] : i \in Asks(os)}
Over(e, os) == e.phase = "idle" /\ Asked(os) = {}

\* What says that a turn is not, or no more, in the conversation, or that a switch is done, is
\* the last an operation says before its end.
Lapses     == {"unsentPrompt", "rolledBackTurn"}
LastWords  == {"PromptUnsent", "TurnRolledBack"} \cup Hops
Silent(es) == \A i \in DOMAIN es : ~Own(es[i])
Lasts(t, e, os, es) ==
  /\ t.op # "Prompt" => Fore(t.queue) = {} /\ t.queue.handBack \notin Lapses
  /\ \A i \in DOMAIN es :
       es[i].ev \in LastWords =>
         Over(e, os) /\ \A j \in DOMAIN es : i < j => ~Own(es[j])
  /\ t.queue.handBack \in Lapses => Over(e, os) /\ Silent(es)

Words(es)     == {es[i].ev : i \in DOMAIN es}
Unsaid(q, es) == q.handBack = "unsentPrompt" \/ "PromptUnsent" \in Words(es)
Undone(q, es) == q.handBack = "rolledBackTurn" \/ "TurnRolledBack" \in Words(es)

\* A turn that lapses is no success.
Fates(t, es) ==
  /\ Unsaid(t.queue, es) => t.queue.drained = <<>> /\ Confirms(es) = {}
  /\ \A i \in EndsAt(t, es) :
       /\ Unsaid(t.queue, es) => es[i].end \in {"Cancelled", "Failed"}
       /\ Undone(t.queue, es) => es[i].end = "Failed"

\* A summary makes what was said before it last, whatever becomes of the turn.
Mids(es)   == {i \in DOMAIN es : es[i].ev = "SessionCompactedMidTurn"}
Shown(es)  == {es[i].prompt : i \in Confirms(es)}
Sooner(es) == {es[i].prompt : i \in {k \in Confirms(es) : \E m \in Mids(es) : k < m}}
Later(es)  == {es[i].prompt : i \in {k \in Confirms(es) : \A m \in Mids(es) : m < k}}

Revocable(q, es) == Later(es) \cup (IF Mids(es) = {} THEN Fore(q) ELSE {})
Lasting(q, es)   == Sooner(es) \cup (IF Mids(es) = {} THEN {} ELSE Fore(q))

\* A turn whose prompt has not been recorded yet.
Openings == {"signIn", "autoCompact"}
Unbegun(t, e, os) == t.op = "Prompt" /\ (Asked(os) # {} \/ e.phase \in Openings)

Opening(t, e, os, es) ==
  /\ Unbegun(t, e, os) => /\ t.queue.active \in Prompt /\ t.queue.drained = <<>>
                          /\ Confirms(es) = {} /\ Mids(es) = {}
  /\ \A s \in Asked(os) : s.op = "Prompt" => s.prompt = t.queue.active
  /\ e.phase \in Openings => e.prompt = t.queue.active

\* The prompts in a conversation, those the UI holds among them, and those a refusal takes out.
Spoken(sd) == {sd[i].prompt : i \in DOMAIN sd}
Absent(t, e, os, es) == Unbegun(t, e, os) \/ Unsaid(t.queue, es) \/ Undone(t.queue, es)

Recorded(t, e, os, es, S) ==
  /\ t.input \notin S
  /\ (Elems(t.queue.pending) \ Shown(es)) \cap S = {}
  /\ Lasting(t.queue, es) \subseteq S
  /\ Lasting(t.queue, es) \cap Revocable(t.queue, es) = {}
  /\ IF Absent(t, e, os, es) THEN Revocable(t.queue, es) \cap S = {}
     ELSE Revocable(t.queue, es) \subseteq S

Begun == {"request", "reply", "tools", "midTurnCompact"}
MarkAt(t, e, es, sd) ==
  e.phase \in Begun =>
    \A i \in DOMAIN sd : sd[i].prompt \in Revocable(t.queue, es) <=> i > e.mark

\* The UI follows the session the engine is in.
HopsIn(es) == {i \in DOMAIN es : es[i].ev \in Hops}
Sessions(t, e, es) ==
  t.epoch >= 1 /\ e.session = IF HopsIn(es) = {} THEN t.epoch ELSE t.epoch + 1

\* What is queued is for the session the UI shows, and what is past a switch's mark was typed
\* while a switch to where that one heads was on.
Home(h, epoch) == epoch \in IF h.late THEN {h.at, h.at + 1} ELSE {h.at}
Aims(q, epoch, ty) ==
  SwitchAsked(q) =>
    \A i \in 1..Len(q.pending) :
      i > q.switch.before => ty[q.pending[i]].late /\ ty[q.pending[i]].at = epoch
Homes(q, epoch, ty) ==
  /\ \A p \in Fore(q) \cup Elems(q.pending) : ty[p].at # 0 /\ Home(ty[p], epoch)
  /\ Aims(q, epoch, ty)

SaidWell(sd, ty) ==
  /\ \A i, j \in DOMAIN sd : sd[i].prompt = sd[j].prompt => i = j
  /\ \A i \in DOMAIN sd :
       sd[i].prompt \in Prompt /\ ty[sd[i].prompt].at # 0 /\ Home(ty[sd[i].prompt], sd[i].session)

\* No prompt is nowhere.
Kept(t, S, dr, ty) == \A p \in Prompt : ty[p].at # 0 => p \in S \cup dr \cup Held(t)

Serves(t, e, os, es, sd, dr, ty) ==
  /\ Apart(t.queue, t.input)
  /\ Lasts(t, e, os, es)
  /\ Fates(t, es)
  /\ Opening(t, e, os, es)
  /\ Recorded(t, e, os, es, Spoken(sd))
  /\ MarkAt(t, e, es, sd)
  /\ Sessions(t, e, es)
  /\ Homes(t.queue, t.epoch, ty)
  /\ SaidWell(sd, ty)
  /\ Kept(t, Spoken(sd), dr, ty)

Histories == [Prompt -> [at : Nat, late : BOOLEAN]]

SInv ==
  /\ typed \in Histories /\ engine.round <= MaxRounds - 1
  /\ Serves(tui, engine, ops, events, said, dropped, typed)

----------------------------------------------------------------------------
(* Sequences of distinct prompts *)

\* What the elements of a sequence are.
LEMMA ElemsFacts ==
  ASSUME NEW S, NEW s \in Seq(S)
  PROVE  /\ Elems(s) \subseteq S /\ \A i \in DOMAIN s : s[i] \in Elems(s)
         /\ \A x \in Elems(s) : \E i \in DOMAIN s : x = s[i]
         /\ Elems(<<>>) = {} /\ Once(<<>>) /\ DOMAIN s = 1..Len(s) /\ Len(s) \in Nat
         /\ s # <<>> <=> Len(s) > 0
<1>1. /\ DOMAIN s = 1..Len(s) /\ Len(s) \in Nat /\ \A i \in 1..Len(s) : s[i] \in S
      /\ Len(<<>>) = 0 /\ (s # <<>> <=> Len(s) > 0)
  BY EmptySeq, LenProperties
<1>2. 1..0 = {}
  OBVIOUS
<1>3. QED
  BY <1>1, <1>2 DEF Elems, Once

\* The elements of a concatenation, and when they are distinct.
LEMMA ElemsConcat ==
  ASSUME NEW S, NEW a \in Seq(S), NEW b \in Seq(S)
  PROVE  /\ a \o b \in Seq(S) /\ Elems(a \o b) = Elems(a) \cup Elems(b)
         /\ Once(a \o b) <=> Once(a) /\ Once(b) /\ Elems(a) \cap Elems(b) = {}
<1> DEFINE d == a \o b
           n == Len(a)
<1>1. d \in Seq(S) /\ Joined(a, b, d, n)
  BY ConcatFacts
<1>2. /\ DOMAIN a = 1..Len(a) /\ DOMAIN b = 1..Len(b) /\ DOMAIN d = 1..Len(d)
      /\ n \in Nat
  BY <1>1, LenProperties
<1> HIDE DEF d
<1>3. Elems(d) = Elems(a) \cup Elems(b)
  <2>1. \A i \in DOMAIN a : \E j \in DOMAIN d : d[j] = a[i]
    BY <1>1 DEF Joined
  <2>2. \A i \in DOMAIN b : \E j \in DOMAIN d : d[j] = b[i]
    BY <1>1 DEF Joined
  <2>3. \A j \in DOMAIN d : (\E i \in DOMAIN a : d[j] = a[i]) \/ (\E i \in DOMAIN b : d[j] = b[i])
    BY <1>1 DEF Joined
  <2>4. /\ Elems(d) = {d[i] : i \in DOMAIN d} /\ Elems(a) = {a[i] : i \in DOMAIN a}
        /\ Elems(b) = {b[i] : i \in DOMAIN b}
    BY <1>2 DEF Elems
  <2>5. QED
    BY <2>1, <2>2, <2>3, <2>4
<1>4. ASSUME Once(d) PROVE Once(a) /\ Once(b) /\ Elems(a) \cap Elems(b) = {}
  <2>1. \A i, j \in DOMAIN d : d[i] = d[j] => i = j
    BY <1>2, <1>4 DEF Once
  <2>2. Once(a)
    BY <1>1, <1>2, <2>1 DEF Joined, Once
  <2>3. ASSUME NEW i \in DOMAIN b, NEW j \in DOMAIN b, b[i] = b[j] PROVE i = j
    <3>1. /\ n + i \in DOMAIN d /\ d[n + i] = b[i] /\ n + j \in DOMAIN d /\ d[n + j] = b[j]
          /\ i \in Nat /\ j \in Nat
      BY <1>1 DEF Joined
    <3>2. n + i = n + j
      BY <2>1, <2>3, <3>1
    <3>3. QED
      BY <1>2, <3>1, <3>2
  <2>4. ASSUME NEW i \in DOMAIN a, NEW j \in DOMAIN b PROVE a[i] # b[j]
    <3>1. /\ i \in 1..n /\ i \in DOMAIN d /\ d[i] = a[i] /\ j \in Nat /\ j >= 1
          /\ n + j \in DOMAIN d /\ d[n + j] = b[j]
      BY <1>1 DEF Joined
    <3>2. i # n + j
      BY <1>2, <3>1
    <3>3. QED
      BY <2>1, <3>1, <3>2
  <2>5. QED
    BY <1>2, <2>2, <2>3, <2>4 DEF Once, Elems
<1>5. ASSUME Once(a), Once(b), Elems(a) \cap Elems(b) = {} PROVE Once(d)
  <2>1. ASSUME NEW i \in DOMAIN d, NEW j \in DOMAIN d, d[i] = d[j] PROVE i = j
    <3>1. /\ i \in Nat /\ ((i \in DOMAIN a /\ d[i] = a[i]) \/ (i > n /\ i - n \in DOMAIN b /\ d[i] = b[i - n]))
          /\ j \in Nat /\ ((j \in DOMAIN a /\ d[j] = a[j]) \/ (j > n /\ j - n \in DOMAIN b /\ d[j] = b[j - n]))
      BY <1>1 DEF Joined
    <3>2. \A k \in DOMAIN a, m \in DOMAIN b : a[k] # b[m]
      BY <1>2, <1>5 DEF Elems
    <3>3. CASE i \in DOMAIN a /\ d[i] = a[i] /\ j \in DOMAIN a /\ d[j] = a[j]
      BY <1>2, <1>5, <2>1, <3>3 DEF Once
    <3>4. CASE i - n \in DOMAIN b /\ d[i] = b[i - n] /\ j - n \in DOMAIN b /\ d[j] = b[j - n]
      <4>1. i - n = j - n
        BY <1>2, <1>5, <2>1, <3>4 DEF Once
      <4>2. QED
        BY <1>2, <3>1, <4>1
    <3>5. QED
      BY <2>1, <3>1, <3>2, <3>3, <3>4
  <2>2. QED
    BY <1>2, <2>1 DEF Once
<1>6. QED
  BY <1>1, <1>3, <1>4, <1>5 DEF d

\* Those of a sequence of one.
LEMMA ElemsOne == \A x : Elems(<<x>>) = {x} /\ Once(<<x>>) /\ Len(<<x>>) = 1 /\ <<x>>[1] = x
<1>1. TAKE x
<1>2. Len(<<x>>) = 1 /\ <<x>>[1] = x /\ 1..1 = {1}
  OBVIOUS
<1>3. QED
  BY <1>2 DEF Elems, Once

\* Those of the head and the tail.
LEMMA ElemsHead ==
  ASSUME NEW S, NEW s \in Seq(S), s # <<>>
  PROVE  /\ Head(s) \in S /\ Tail(s) \in Seq(S) /\ Elems(s) = {Head(s)} \cup Elems(Tail(s))
         /\ Once(s) => Once(Tail(s)) /\ Head(s) \notin Elems(Tail(s))
<1>1. s = <<Head(s)>> \o Tail(s) /\ <<Head(s)>> \in Seq(S) /\ Tail(s) \in Seq(S) /\ Head(s) \in S
  BY HeadAndTail
<1> DEFINE h == <<Head(s)>>
           r == Tail(s)
<1>2. Elems(h) = {Head(s)}
  BY ElemsOne
<1> HIDE DEF h, r
<1>3. /\ Elems(h \o r) = Elems(h) \cup Elems(r)
      /\ Once(h \o r) <=> Once(h) /\ Once(r) /\ Elems(h) \cap Elems(r) = {}
  BY <1>1, ElemsConcat DEF h, r
<1>4. QED
  BY <1>1, <1>2, <1>3 DEF h, r

\* Those of the two parts of a sequence cut at `k`.
LEMMA Cut ==
  ASSUME NEW S, NEW s \in Seq(S), NEW k \in Nat, k <= Len(s)
  PROVE  LET a == SubSeq(s, 1, k)
             b == SubSeq(s, k + 1, Len(s))
         IN  /\ a \in Seq(S) /\ b \in Seq(S) /\ s = a \o b /\ Len(a) = k /\ Len(b) = Len(s) - k
             /\ \A i \in 1..k : a[i] = s[i]
             /\ \A i \in 1..Len(s) - k : b[i] = s[k + i]
<1> DEFINE a == SubSeq(s, 1, k)
           b == SubSeq(s, k + 1, Len(s))
           n == Len(s)
<1>1. n \in Nat /\ \A i \in 1..n : s[i] \in S
  OBVIOUS
<1> HIDE DEF n
<1>2. /\ a \in Seq(S) /\ Len(a) = IF 1 <= k THEN k - 1 + 1 ELSE 0
      /\ \A i \in 1..k - 1 + 1 : a[i] = s[1 + i - 1]
  <2>1. \A i \in 1..k : s[i] \in S
    BY <1>1 DEF n
  <2>2. QED
    BY <2>1, SubSeqProperties
<1>3. /\ b \in Seq(S) /\ Len(b) = IF k + 1 <= n THEN n - (k + 1) + 1 ELSE 0
      /\ \A i \in 1..n - (k + 1) + 1 : b[i] = s[(k + 1) + i - 1]
  <2>1. \A i \in k + 1..n : s[i] \in S
    BY <1>1
  <2>2. k + 1 \in Int /\ n \in Int
    BY <1>1
  <2>3. QED
    BY <2>1, <2>2, SubSeqProperties DEF n
<1>4. k <= n
  BY DEF n
<1> HIDE DEF a, b
<1>5. Len(a) = k /\ \A i \in 1..k : a[i] = s[i]
  BY <1>2
<1>6. Len(b) = n - k /\ \A i \in 1..n - k : b[i] = s[k + i]
  BY <1>1, <1>3, <1>4
<1> DEFINE d == a \o b
<1>7. /\ d \in Seq(S) /\ Len(d) = k + (n - k)
      /\ \A i \in 1..k + (n - k) : d[i] = IF i <= k THEN a[i] ELSE b[i - k]
  <2>1. /\ d \in Seq(S) /\ Len(d) = Len(a) + Len(b)
        /\ \A i \in 1..Len(a) + Len(b) : d[i] = IF i <= Len(a) THEN a[i] ELSE b[i - Len(a)]
    BY <1>2, <1>3, ConcatProperties
  <2> HIDE DEF d
  <2>2. QED
    BY <1>5, <1>6, <2>1
<1> HIDE DEF d
<1>8. Len(d) = n
  BY <1>1, <1>7
<1>9. ASSUME NEW i \in 1..n PROVE d[i] = s[i]
  <2>1. CASE i <= k
    BY <1>1, <1>5, <1>7, <2>1
  <2>2. CASE i > k
    <3>1. i - k \in 1..n - k /\ k + (i - k) = i /\ i \in 1..k + (n - k) /\ ~(i <= k)
      BY <1>1, <1>4, <2>2
    <3>2. QED
      BY <1>6, <1>7, <3>1
  <2>3. QED
    BY <1>1, <2>1, <2>2
<1>10. s = d
  BY <1>7, <1>8, <1>9, SeqEqual DEF n
<1>11. QED
  BY <1>2, <1>3, <1>5, <1>6, <1>10 DEF a, b, d, n

\* Those of the last and what is before it.
LEMMA ElemsLast ==
  ASSUME NEW S, NEW s \in Seq(S), s # <<>>
  PROVE  LET n == Len(s)
             a == SubSeq(s, 1, n - 1)
         IN  /\ a \in Seq(S) /\ s[n] \in S /\ Len(a) = n - 1 /\ Elems(s) = Elems(a) \cup {s[n]}
             /\ \A i \in 1..n - 1 : a[i] = s[i]
             /\ Once(s) => Once(a) /\ s[n] \notin Elems(a)
<1> DEFINE n == Len(s)
           a == SubSeq(s, 1, n - 1)
           b == SubSeq(s, (n - 1) + 1, n)
<1>1. n \in Nat /\ n >= 1 /\ s[n] \in S
  OBVIOUS
<1>2. n - 1 \in Nat /\ n - 1 <= n
  BY <1>1
<1>3. /\ a \in Seq(S) /\ b \in Seq(S) /\ s = a \o b /\ Len(a) = n - 1 /\ Len(b) = n - (n - 1)
      /\ \A i \in 1..n - 1 : a[i] = s[i]
      /\ \A i \in 1..n - (n - 1) : b[i] = s[(n - 1) + i]
  BY <1>2, Cut
<1> HIDE DEF n, a, b
<1>4. Len(b) = 1 /\ b[1] = s[n]
  <2>1. n - (n - 1) = 1 /\ (n - 1) + 1 = n /\ 1 \in 1..n - (n - 1)
    BY <1>1
  <2>2. QED
    BY <1>3, <2>1
<1>5. Elems(b) = {s[n]}
  <2>1. 1..1 = {1}
    OBVIOUS
  <2>2. QED
    BY <1>4, <2>1 DEF Elems
<1>6. /\ Elems(a \o b) = Elems(a) \cup Elems(b)
      /\ Once(a \o b) <=> Once(a) /\ Once(b) /\ Elems(a) \cap Elems(b) = {}
  BY <1>3, ElemsConcat
<1>7. QED
  BY <1>1, <1>3, <1>5, <1>6 DEF n, a

\* Those of an appended sequence.
LEMMA ElemsAppend ==
  ASSUME NEW S, NEW s \in Seq(S), NEW x \in S
  PROVE  /\ Append(s, x) \in Seq(S) /\ Elems(Append(s, x)) = Elems(s) \cup {x}
         /\ Once(Append(s, x)) <=> Once(s) /\ x \notin Elems(s)
         /\ Len(Append(s, x)) = Len(s) + 1
         /\ \A i \in 1..Len(s) : Append(s, x)[i] = s[i]
         /\ Append(s, x)[Len(s) + 1] = x
<1>1. /\ <<x>> \in Seq(S) /\ Append(s, x) = s \o <<x>>
      /\ Len(Append(s, x)) = Len(s) + 1
      /\ \A i \in 1..Len(s) : Append(s, x)[i] = s[i]
      /\ Append(s, x)[Len(s) + 1] = x
  BY AppendIsConcat, AppendProperties
<1>2. Elems(<<x>>) = {x} /\ Once(<<x>>)
  BY ElemsOne
<1> DEFINE o == <<x>>
<1> HIDE DEF o
<1>3. /\ s \o o \in Seq(S) /\ Elems(s \o o) = Elems(s) \cup Elems(o)
      /\ Once(s \o o) <=> Once(s) /\ Once(o) /\ Elems(s) \cap Elems(o) = {}
  BY <1>1, ElemsConcat DEF o
<1>4. QED
  BY <1>1, <1>2, <1>3 DEF o

----------------------------------------------------------------------------
(* What is said of the prompts *)

\* Each confirmed prompt is confirmed before or after the last summary.
LEMMA Placed ==
  ASSUME NEW es \in Seq(EventRecs)
  PROVE  /\ \A i \in DOMAIN es : i \in Nat /\ es[i] \in EventRecs
         /\ Shown(es) = Later(es) \cup Sooner(es)
         /\ Mids(es) = {} => Later(es) = Shown(es) /\ Sooner(es) = {}
         /\ Confirms(es) = {} => Shown(es) = {} /\ Later(es) = {} /\ Sooner(es) = {}
         /\ Shown(es) \subseteq Prompt \cup {NoPrompt}
<1>1. \A i \in DOMAIN es : i \in Nat /\ es[i] \in EventRecs
  BY LenProperties, ElementOfSeq
<1>2. \A k \in Confirms(es) : k \in Nat /\ es[k].prompt \in Prompt \cup {NoPrompt}
  BY <1>1 DEF Confirms, EventRecs
<1>3. \A m \in Mids(es), k \in Confirms(es) : m \in Nat /\ m # k
  BY <1>1 DEF Confirms, Mids
<1>4. \A k \in Confirms(es) : (\E m \in Mids(es) : k < m) \/ (\A m \in Mids(es) : m < k)
  BY <1>2, <1>3
<1>5. Shown(es) = Later(es) \cup Sooner(es)
  BY <1>4 DEF Shown, Later, Sooner
<1>6. QED
  BY <1>1, <1>2, <1>5 DEF Shown, Later, Sooner

\* What the events say before their head is read.
LEMMA HeardView ==
  ASSUME NEW es \in Seq(EventRecs), es # <<>>
  PROVE  LET x == Head(es)
             d == Tail(es)
         IN  /\ Words(es) = {x.ev} \cup Words(d)
             /\ Confirms(es) = {} <=> Confirms(d) = {} /\ x.ev # "PromptDrained"
             /\ Mids(es) = {} <=> Mids(d) = {} /\ x.ev # "SessionCompactedMidTurn"
             /\ HopsIn(es) = {} <=> HopsIn(d) = {} /\ x.ev \notin Hops
             /\ Silent(es) <=> Silent(d) /\ ~Own(x)
             /\ Shown(es) = Shown(d) \cup {p \in {x.prompt} : x.ev = "PromptDrained"}
             /\ Later(es) = Later(d) \cup {p \in {x.prompt} : x.ev = "PromptDrained" /\ Mids(d) = {}}
             /\ Sooner(es) = Sooner(d) \cup {p \in {x.prompt} : x.ev = "PromptDrained" /\ Mids(d) # {}}
             /\ \A t : \A i \in EndsAt(t, d) : i + 1 \in EndsAt(t, es) /\ es[i + 1] = d[i]
             /\ \A i, j \in DOMAIN d : i < j => /\ i + 1 \in DOMAIN es /\ j + 1 \in DOMAIN es
                                                /\ i + 1 < j + 1
                                                /\ d[i] = es[i + 1] /\ d[j] = es[j + 1]
             /\ \A i \in DOMAIN d : 1 < i + 1 /\ i + 1 \in DOMAIN es /\ d[i] = es[i + 1]
             /\ 1 \in DOMAIN es /\ es[1] = x
<1> DEFINE x == Head(es)
           d == Tail(es)
<1>1. /\ d \in Seq(EventRecs) /\ x = es[1] /\ 1 \in DOMAIN es
      /\ \A i \in DOMAIN d : i \in Nat /\ i >= 1 /\ i + 1 \in DOMAIN es /\ d[i] = es[i + 1]
      /\ \A i \in DOMAIN es : i \in Nat /\ (i = 1 \/ (i > 1 /\ i - 1 \in DOMAIN d /\ es[i] = d[i - 1]))
  BY TailFacts DEF Behead
<1> HIDE DEF d, x
<1>2. \A i \in DOMAIN es : i = 1 \/ \E j \in DOMAIN d : j \in Nat /\ i = j + 1 /\ es[i] = d[j]
  <2>1. TAKE i \in DOMAIN es
  <2>2. i \in Nat /\ (i = 1 \/ (i > 1 /\ i - 1 \in DOMAIN d /\ es[i] = d[i - 1]))
    BY <1>1
  <2>3. i > 1 => i - 1 \in Nat /\ i = (i - 1) + 1
    BY <2>2
  <2>4. QED
    BY <2>2, <2>3
<1>3. /\ Words(es) = {x.ev} \cup Words(d)
      /\ Confirms(es) = {} <=> Confirms(d) = {} /\ x.ev # "PromptDrained"
      /\ Mids(es) = {} <=> Mids(d) = {} /\ x.ev # "SessionCompactedMidTurn"
      /\ HopsIn(es) = {} <=> HopsIn(d) = {} /\ x.ev \notin Hops
      /\ Silent(es) <=> Silent(d) /\ ~Own(x)
  <2>1. Words(es) = {x.ev} \cup Words(d)
    BY <1>1, <1>2 DEF Words
  <2>2. Confirms(es) = {} <=> Confirms(d) = {} /\ x.ev # "PromptDrained"
    BY <1>1, <1>2 DEF Confirms
  <2>3. Mids(es) = {} <=> Mids(d) = {} /\ x.ev # "SessionCompactedMidTurn"
    BY <1>1, <1>2 DEF Mids
  <2>4. HopsIn(es) = {} <=> HopsIn(d) = {} /\ x.ev \notin Hops
    BY <1>1, <1>2 DEF HopsIn
  <2>5. Silent(es) <=> Silent(d) /\ ~Own(x)
    BY <1>1, <1>2 DEF Silent
  <2>6. QED
    BY <2>1, <2>2, <2>3, <2>4, <2>5
<1>4. /\ \A i \in Confirms(es) : (i = 1 /\ x.ev = "PromptDrained") \/ \E j \in Confirms(d) : i = j + 1 /\ es[i] = d[j]
      /\ \A j \in Confirms(d) : j \in Nat /\ j >= 1 /\ j + 1 \in Confirms(es) /\ es[j + 1] = d[j]
      /\ x.ev = "PromptDrained" => 1 \in Confirms(es)
  BY <1>1, <1>2 DEF Confirms
<1>5. /\ \A i \in Mids(es) : i = 1 \/ \E j \in Mids(d) : i = j + 1
      /\ \A j \in Mids(d) : j \in Nat /\ j >= 1 /\ j + 1 \in Mids(es)
      /\ 1 \in Mids(es) => x.ev # "PromptDrained"
  BY <1>1, <1>2 DEF Mids
<1>6. Shown(es) = Shown(d) \cup {p \in {x.prompt} : x.ev = "PromptDrained"}
  BY <1>1, <1>4 DEF Shown
<1>7. \A j \in Confirms(d) :
        /\ (\A m \in Mids(es) : m < j + 1) <=> (\A m \in Mids(d) : m < j)
        /\ (\E m \in Mids(es) : j + 1 < m) <=> (\E m \in Mids(d) : j < m)
  <2>1. TAKE j \in Confirms(d)
  <2>2. j \in Nat /\ j >= 1 /\ 1 < j + 1 /\ ~(j + 1 < 1)
    BY <1>4
  <2>3. \A m \in Mids(d) : m \in Nat /\ (m < j <=> m + 1 < j + 1) /\ (j < m <=> j + 1 < m + 1)
    BY <1>5, <2>2
  <2>4. ASSUME \A m \in Mids(es) : m < j + 1 PROVE \A m \in Mids(d) : m < j
    BY <1>5, <2>3, <2>4
  <2>5. ASSUME \A m \in Mids(d) : m < j PROVE \A m \in Mids(es) : m < j + 1
    BY <1>5, <2>2, <2>3, <2>5
  <2>6. ASSUME NEW m \in Mids(es), j + 1 < m PROVE \E k \in Mids(d) : j < k
    BY <1>5, <2>2, <2>3, <2>6
  <2>7. ASSUME NEW m \in Mids(d), j < m PROVE \E k \in Mids(es) : j + 1 < k
    BY <1>5, <2>3, <2>7
  <2>8. QED
    BY <2>4, <2>5, <2>6, <2>7
<1>8. x.ev = "PromptDrained" =>
        /\ (\A m \in Mids(es) : m < 1) <=> Mids(d) = {}
        /\ (\E m \in Mids(es) : 1 < m) <=> Mids(d) # {}
  <2>1. \A m \in Mids(d) : m \in Nat /\ 1 < m + 1 /\ ~(m + 1 < 1)
    BY <1>5
  <2>2. QED
    BY <1>5, <2>1
<1>9. Later(es) = Later(d) \cup {p \in {x.prompt} : x.ev = "PromptDrained" /\ Mids(d) = {}}
  <2>1. ASSUME NEW i \in Confirms(es), \A m \in Mids(es) : m < i
        PROVE  \/ es[i].prompt \in Later(d)
               \/ es[i].prompt = x.prompt /\ x.ev = "PromptDrained" /\ Mids(d) = {}
    <3>1. CASE i = 1 /\ x.ev = "PromptDrained"
      BY <1>1, <1>8, <2>1, <3>1
    <3>2. ASSUME NEW j \in Confirms(d), i = j + 1, es[i] = d[j] PROVE es[i].prompt \in Later(d)
      <4>1. \A m \in Mids(d) : m < j
        BY <1>7, <2>1, <3>2
      <4>2. QED
        BY <3>2, <4>1 DEF Later
    <3>3. QED
      BY <1>4, <3>1, <3>2
  <2>2. \A j \in Confirms(d) : (\A m \in Mids(d) : m < j) => d[j].prompt \in Later(es)
    BY <1>4, <1>7 DEF Later
  <2>3. x.ev = "PromptDrained" /\ Mids(d) = {} => x.prompt \in Later(es)
    BY <1>1, <1>4, <1>8 DEF Later
  <2>4. \A p \in Later(es) : \E i \in Confirms(es) : p = es[i].prompt /\ \A m \in Mids(es) : m < i
    BY DEF Later
  <2>5. \A p \in Later(d) : \E i \in Confirms(d) : p = d[i].prompt /\ \A m \in Mids(d) : m < i
    BY DEF Later
  <2>6. \A p \in Later(es) : p \in Later(d) \/ (p = x.prompt /\ x.ev = "PromptDrained" /\ Mids(d) = {})
    BY <2>1, <2>4
  <2>7. \A p \in Later(d) : p \in Later(es)
    BY <2>2, <2>5
  <2> DEFINE more == {p \in {x.prompt} : x.ev = "PromptDrained" /\ Mids(d) = {}}
  <2>8. \A p : p \in more <=> p = x.prompt /\ x.ev = "PromptDrained" /\ Mids(d) = {}
    OBVIOUS
  <2> HIDE DEF more
  <2>9. Later(es) = Later(d) \cup more
    BY <2>3, <2>6, <2>7, <2>8
  <2>10. QED
    BY <2>9 DEF more
<1>10. Sooner(es) = Sooner(d) \cup {p \in {x.prompt} : x.ev = "PromptDrained" /\ Mids(d) # {}}
  <2>1. ASSUME NEW i \in Confirms(es), \E m \in Mids(es) : i < m
        PROVE  \/ es[i].prompt \in Sooner(d)
               \/ es[i].prompt = x.prompt /\ x.ev = "PromptDrained" /\ Mids(d) # {}
    <3>1. CASE i = 1 /\ x.ev = "PromptDrained"
      BY <1>1, <1>8, <2>1, <3>1
    <3>2. ASSUME NEW j \in Confirms(d), i = j + 1, es[i] = d[j] PROVE es[i].prompt \in Sooner(d)
      <4>1. \E m \in Mids(d) : j < m
        BY <1>7, <2>1, <3>2
      <4>2. QED
        BY <3>2, <4>1 DEF Sooner
    <3>3. QED
      BY <1>4, <3>1, <3>2
  <2>2. \A j \in Confirms(d) : (\E m \in Mids(d) : j < m) => d[j].prompt \in Sooner(es)
    BY <1>4, <1>7 DEF Sooner
  <2>3. x.ev = "PromptDrained" /\ Mids(d) # {} => x.prompt \in Sooner(es)
    BY <1>1, <1>4, <1>8 DEF Sooner
  <2>4. \A p \in Sooner(es) : \E i \in Confirms(es) : p = es[i].prompt /\ \E m \in Mids(es) : i < m
    BY DEF Sooner
  <2>5. \A p \in Sooner(d) : \E i \in Confirms(d) : p = d[i].prompt /\ \E m \in Mids(d) : i < m
    BY DEF Sooner
  <2>6. \A p \in Sooner(es) : p \in Sooner(d) \/ (p = x.prompt /\ x.ev = "PromptDrained" /\ Mids(d) # {})
    BY <2>1, <2>4
  <2>7. \A p \in Sooner(d) : p \in Sooner(es)
    BY <2>2, <2>5
  <2> DEFINE more == {p \in {x.prompt} : x.ev = "PromptDrained" /\ Mids(d) # {}}
  <2>8. \A p : p \in more <=> p = x.prompt /\ x.ev = "PromptDrained" /\ Mids(d) # {}
    OBVIOUS
  <2> HIDE DEF more
  <2>9. Sooner(es) = Sooner(d) \cup more
    BY <2>3, <2>6, <2>7, <2>8
  <2>10. QED
    BY <2>9 DEF more
<1>11. \A t : \A i \in EndsAt(t, d) : i + 1 \in EndsAt(t, es) /\ es[i + 1] = d[i]
  BY <1>1 DEF EndsAt
<1>12. \A i \in DOMAIN d : 1 < i + 1
  BY <1>1
<1>13. \A i, j \in DOMAIN d : i < j => /\ i + 1 \in DOMAIN es /\ j + 1 \in DOMAIN es
                                       /\ i + 1 < j + 1
                                       /\ d[i] = es[i + 1] /\ d[j] = es[j + 1]
  BY <1>1
<1>14. QED
  BY <1>1, <1>3, <1>6, <1>9, <1>10, <1>11, <1>12, <1>13 DEF x, d

\* What events and then others say.
LEMMA SaidView ==
  ASSUME NEW a \in Seq(EventRecs), NEW b \in Seq(EventRecs)
  PROVE  LET d == a \o b
         IN  /\ d \in Seq(EventRecs)
             /\ Words(d) = Words(a) \cup Words(b)
             /\ Confirms(d) = {} <=> Confirms(a) = {} /\ Confirms(b) = {}
             /\ Mids(d) = {} <=> Mids(a) = {} /\ Mids(b) = {}
             /\ HopsIn(d) = {} <=> HopsIn(a) = {} /\ HopsIn(b) = {}
             /\ Silent(d) <=> Silent(a) /\ Silent(b)
             /\ Shown(d) = Shown(a) \cup Shown(b)
             /\ Mids(b) = {} => Later(d) = Later(a) \cup Later(b) /\ Sooner(d) = Sooner(a)
             /\ Mids(b) # {} => Later(d) = Later(b) /\ Sooner(d) = Shown(a) \cup Sooner(b)
             /\ \A t : \A i \in EndsAt(t, d) : \/ i \in EndsAt(t, a) /\ d[i] = a[i]
                                               \/ \E k \in EndsAt(t, b) : d[i] = b[k]
<1> DEFINE d == a \o b
           n == Len(a)
<1>1. d \in Seq(EventRecs) /\ Joined(a, b, d, n)
  BY ConcatFacts
<1> HIDE DEF d, n
<1>2. /\ n \in Nat
      /\ \A i \in DOMAIN a : i \in 1..n /\ i \in Nat /\ i <= n /\ i \in DOMAIN d /\ d[i] = a[i]
      /\ \A i \in DOMAIN b : i \in Nat /\ i >= 1 /\ n + i \in DOMAIN d /\ d[n + i] = b[i]
  BY <1>1 DEF Joined
<1>3. \A i \in DOMAIN d : (i \in DOMAIN a /\ d[i] = a[i]) \/ \E k \in DOMAIN b : i = n + k /\ d[i] = b[k]
  <2>1. TAKE i \in DOMAIN d
  <2>2. i \in Nat /\ (\/ i \in DOMAIN a /\ i <= n
                      \/ i > n /\ i - n \in DOMAIN b /\ d[i] = b[i - n])
    BY <1>1 DEF Joined
  <2>3. i = n + (i - n)
    BY <1>2, <2>2
  <2>4. QED
    BY <1>2, <2>2, <2>3
<1>4. /\ Words(d) = Words(a) \cup Words(b)
      /\ Confirms(d) = {} <=> Confirms(a) = {} /\ Confirms(b) = {}
      /\ Mids(d) = {} <=> Mids(a) = {} /\ Mids(b) = {}
      /\ HopsIn(d) = {} <=> HopsIn(a) = {} /\ HopsIn(b) = {}
      /\ Silent(d) <=> Silent(a) /\ Silent(b)
  <2>1. Words(d) = Words(a) \cup Words(b)
    BY <1>2, <1>3 DEF Words
  <2>2. Confirms(d) = {} <=> Confirms(a) = {} /\ Confirms(b) = {}
    BY <1>2, <1>3 DEF Confirms
  <2>3. Mids(d) = {} <=> Mids(a) = {} /\ Mids(b) = {}
    BY <1>2, <1>3 DEF Mids
  <2>4. HopsIn(d) = {} <=> HopsIn(a) = {} /\ HopsIn(b) = {}
    BY <1>2, <1>3 DEF HopsIn
  <2>5. Silent(d) <=> Silent(a) /\ Silent(b)
    BY <1>2, <1>3 DEF Silent
  <2>6. QED
    BY <2>1, <2>2, <2>3, <2>4, <2>5
<1>5. /\ \A i \in Confirms(d) : (i \in Confirms(a) /\ d[i] = a[i]) \/ \E k \in Confirms(b) : i = n + k /\ d[i] = b[k]
      /\ \A i \in Confirms(a) : i \in Nat /\ i <= n /\ i \in Confirms(d) /\ d[i] = a[i]
      /\ \A k \in Confirms(b) : k \in Nat /\ k >= 1 /\ n + k \in Confirms(d) /\ d[n + k] = b[k]
  BY <1>2, <1>3 DEF Confirms
<1>6. /\ \A i \in Mids(d) : i \in Mids(a) \/ \E k \in Mids(b) : i = n + k
      /\ \A i \in Mids(a) : i \in Nat /\ i <= n /\ i \in Mids(d)
      /\ \A k \in Mids(b) : k \in Nat /\ k >= 1 /\ n + k \in Mids(d)
  BY <1>2, <1>3 DEF Mids
<1>7. Shown(d) = Shown(a) \cup Shown(b)
  BY <1>5 DEF Shown
<1>8. \A k \in Confirms(b) :
        /\ (\A m \in Mids(d) : m < n + k) <=> (\A m \in Mids(b) : m < k)
        /\ (\E m \in Mids(d) : n + k < m) <=> (\E m \in Mids(b) : k < m)
  <2>1. TAKE k \in Confirms(b)
  <2>2. k \in Nat /\ k >= 1
    BY <1>5
  <2>3. \A m \in Mids(b) : m \in Nat /\ (m < k <=> n + m < n + k) /\ (k < m <=> n + k < n + m)
    BY <1>2, <1>6, <2>2
  <2>4. \A m \in Mids(a) : m < n + k /\ ~(n + k < m)
    BY <1>2, <1>6, <2>2
  <2>5. QED
    BY <1>6, <2>3, <2>4
<1>9. \A i \in Confirms(a) :
        /\ (\A m \in Mids(d) : m < i) <=> (Mids(b) = {} /\ \A m \in Mids(a) : m < i)
        /\ (\E m \in Mids(d) : i < m) <=> (Mids(b) # {} \/ \E m \in Mids(a) : i < m)
  <2>1. TAKE i \in Confirms(a)
  <2>2. i \in Nat /\ i <= n
    BY <1>5
  <2>3. \A m \in Mids(b) : ~(n + m < i) /\ i < n + m
    BY <1>2, <1>6, <2>2
  <2>4. QED
    BY <1>6, <2>3
<1>10. /\ \A p : p \in Later(a) <=> \E i \in Confirms(a) : p = a[i].prompt /\ \A m \in Mids(a) : m < i
       /\ \A p : p \in Later(b) <=> \E i \in Confirms(b) : p = b[i].prompt /\ \A m \in Mids(b) : m < i
       /\ \A p : p \in Later(d) <=> \E i \in Confirms(d) : p = d[i].prompt /\ \A m \in Mids(d) : m < i
  BY DEF Later
<1>11. /\ \A p : p \in Sooner(a) <=> \E i \in Confirms(a) : p = a[i].prompt /\ \E m \in Mids(a) : i < m
       /\ \A p : p \in Sooner(b) <=> \E i \in Confirms(b) : p = b[i].prompt /\ \E m \in Mids(b) : i < m
       /\ \A p : p \in Sooner(d) <=> \E i \in Confirms(d) : p = d[i].prompt /\ \E m \in Mids(d) : i < m
  BY DEF Sooner
<1>12. ASSUME Mids(b) = {} PROVE Later(d) = Later(a) \cup Later(b)
  <2>1. \A p \in Later(d) : p \in Later(a) \cup Later(b)
    BY <1>5, <1>8, <1>9, <1>10, <1>12
  <2>2. \A p \in Later(a) : p \in Later(d)
    BY <1>5, <1>9, <1>10, <1>12
  <2>3. \A p \in Later(b) : p \in Later(d)
    BY <1>5, <1>8, <1>10, <1>12
  <2>4. QED
    BY <2>1, <2>2, <2>3
<1>13. ASSUME Mids(b) = {} PROVE Sooner(d) = Sooner(a)
  <2>1. \A p \in Sooner(d) : p \in Sooner(a)
    BY <1>5, <1>8, <1>9, <1>11, <1>13
  <2>2. \A p \in Sooner(a) : p \in Sooner(d)
    BY <1>5, <1>9, <1>11, <1>13
  <2>3. QED
    BY <2>1, <2>2
<1>14. ASSUME Mids(b) # {} PROVE Later(d) = Later(b)
  <2>1. \A p \in Later(d) : p \in Later(b)
    BY <1>5, <1>8, <1>9, <1>10, <1>14
  <2>2. \A p \in Later(b) : p \in Later(d)
    BY <1>5, <1>8, <1>10
  <2>3. QED
    BY <2>1, <2>2
<1>15. ASSUME Mids(b) # {} PROVE Sooner(d) = Shown(a) \cup Sooner(b)
  <2>1. \A p : p \in Shown(a) <=> \E i \in Confirms(a) : p = a[i].prompt
    BY DEF Shown
  <2>2. \A p \in Sooner(d) : p \in Shown(a) \cup Sooner(b)
    BY <1>5, <1>8, <1>11, <2>1
  <2>3. \A p \in Shown(a) : p \in Sooner(d)
    BY <1>5, <1>9, <1>11, <1>15, <2>1
  <2>4. \A p \in Sooner(b) : p \in Sooner(d)
    BY <1>5, <1>8, <1>11
  <2>5. QED
    BY <2>2, <2>3, <2>4
<1>16. \A t : \A i \in EndsAt(t, d) : \/ i \in EndsAt(t, a) /\ d[i] = a[i]
                                      \/ \E k \in EndsAt(t, b) : d[i] = b[k]
  BY <1>3 DEF EndsAt
<1>17. QED
  BY <1>1, <1>4, <1>7, <1>12, <1>13, <1>14, <1>15, <1>16 DEF d

\* What a single event says.
LEMMA OneView ==
  ASSUME NEW x \in EventRecs
  PROVE  LET o == <<x>>
         IN  /\ o \in Seq(EventRecs) /\ DOMAIN o = {1} /\ o[1] = x
             /\ Words(o) = {x.ev} /\ Mids(o) = {k \in {1} : x.ev = "SessionCompactedMidTurn"}
             /\ HopsIn(o) = {k \in {1} : x.ev \in Hops}
             /\ Confirms(o) = {k \in {1} : x.ev = "PromptDrained"}
             /\ Silent(o) <=> ~Own(x)
             /\ \A t : EndsAt(t, o) = {k \in {1} : x.ev = "OpEnded" /\ x.id = t.id}
<1> DEFINE o == <<x>>
<1>1. o \in Seq(EventRecs) /\ DOMAIN o = {1} /\ o[1] = x
  OBVIOUS
<1> HIDE DEF o
<1>2. QED
  BY <1>1 DEF Words, Mids, HopsIn, Confirms, Silent, EndsAt, o

\* What the confirmations of some prompts say.
LEMMA DrainedView ==
  ASSUME NEW ps \in Seq(Prompt)
  PROVE  LET d == Drained(ps)
         IN  /\ d \in Seq(EventRecs) /\ Words(d) \subseteq {"PromptDrained"}
             /\ Mids(d) = {} /\ HopsIn(d) = {} /\ Shown(d) = Elems(ps) /\ Later(d) = Elems(ps)
             /\ Sooner(d) = {} /\ \A t : EndsAt(t, d) = {}
             /\ Plain(d)
<1> DEFINE d == Drained(ps)
           n == Len(ps)
<1>1. d = [i \in 1..n |-> [Event("PromptDrained") EXCEPT !.prompt = ps[i]]]
  BY DEF Drained
<1>2. d \in Seq(EventRecs) /\ Plain(d)
  BY PlainDrained
<1>3. DOMAIN d = 1..n /\ \A i \in 1..n : d[i].ev = "PromptDrained" /\ d[i].prompt = ps[i]
  BY <1>1 DEF Event
<1> HIDE DEF d
<1>4. /\ Words(d) \subseteq {"PromptDrained"} /\ Mids(d) = {} /\ HopsIn(d) = {}
      /\ \A t : EndsAt(t, d) = {}
  BY <1>3 DEF Words, Mids, HopsIn, Hops, EndsAt
<1>5. Confirms(d) = 1..n
  BY <1>3 DEF Confirms
<1>6. Shown(d) = Elems(ps)
  BY <1>3, <1>5 DEF Shown, Elems, n
<1>7. Later(d) = Shown(d) /\ Sooner(d) = {}
  BY <1>2, <1>4, Placed
<1>8. QED
  BY <1>2, <1>4, <1>6, <1>7 DEF d

\* The operations asked for by two sequences of ops.
LEMMA AskedConcat ==
  ASSUME NEW a \in Seq(Submissions), NEW b \in Seq(Submissions)
  PROVE  Asked(a \o b) = Asked(a) \cup Asked(b)
<1> DEFINE d == a \o b
           n == Len(a)
<1>1. Joined(a, b, d, n)
  BY ConcatFacts
<1> HIDE DEF d, n
<1>2. \A i \in Asks(a) : i \in Asks(d) /\ d[i] = a[i]
  BY <1>1 DEF Joined, Asks
<1>3. \A i \in Asks(b) : n + i \in Asks(d) /\ d[n + i] = b[i]
  BY <1>1 DEF Joined, Asks
<1>4. \A i \in Asks(d) : (i \in Asks(a) /\ d[i] = a[i]) \/ (\E j \in Asks(b) : d[i] = b[j])
  <2>1. \A i \in Asks(d) : (i \in Asks(a) /\ d[i] = a[i]) \/ (i - n \in Asks(b) /\ d[i] = b[i - n])
    BY <1>1 DEF Joined, Asks
  <2>2. QED
    BY <2>1
<1>5. Asked(d) \subseteq Asked(a) \cup Asked(b)
  BY <1>4 DEF Asked
<1>6. Asked(a) \subseteq Asked(d) /\ Asked(b) \subseteq Asked(d)
  BY <1>2, <1>3 DEF Asked
<1>7. QED
  BY <1>5, <1>6 DEF d

\* No place asks for an operation exactly when none is asked for.
LEMMA AskedNone == \A q : Asks(q) = {} <=> Asked(q) = {}
BY DEF Asked

\* The operations asked for, by the head and by the tail.
LEMMA AskedTail ==
  ASSUME NEW os \in Seq(Submissions), os # <<>>
  PROVE  /\ Asked(os) = {s \in {Head(os)} : s.op \in IdleOnly} \cup Asked(Tail(os))
         /\ Tail(os) \in Seq(Submissions) /\ Head(os) \in Submissions
<1> DEFINE x == Head(os)
           d == Tail(os)
<1>1. /\ d \in Seq(Submissions) /\ x \in Submissions /\ x = os[1] /\ 1 \in DOMAIN os
      /\ \A i \in DOMAIN d : i + 1 \in DOMAIN os /\ d[i] = os[i + 1]
      /\ \A i \in DOMAIN os : i = 1 \/ (i - 1 \in DOMAIN d /\ os[i] = d[i - 1])
  BY TailFacts DEF Behead
<1> HIDE DEF d, x
<1>2. \A i \in Asks(d) : i + 1 \in Asks(os) /\ d[i] = os[i + 1]
  BY <1>1 DEF Asks
<1>3. \A i \in Asks(os) : (i = 1 /\ x.op \in IdleOnly /\ os[i] = x) \/ (i - 1 \in Asks(d) /\ os[i] = d[i - 1])
  BY <1>1 DEF Asks
<1>4. x.op \in IdleOnly => 1 \in Asks(os) /\ os[1] = x
  BY <1>1 DEF Asks
<1>5. Asked(os) = {s \in {x} : s.op \in IdleOnly} \cup Asked(d)
  BY <1>2, <1>3, <1>4 DEF Asked
<1>6. QED
  BY <1>1, <1>5 DEF x, d

\* The two hold the same prompts, for the same operation and session.
Same(t, u) ==
  /\ u.op = t.op /\ u.id = t.id /\ u.input = t.input /\ u.epoch = t.epoch
  /\ u.queue.active = t.queue.active /\ u.queue.handBack = t.queue.handBack
  /\ u.queue.pending = t.queue.pending /\ u.queue.drained = t.queue.drained
  /\ u.queue.switch = t.queue.switch

\* A UI that holds the same prompts in the same places serves them too.
LEMMA SameServes ==
  ASSUME NEW t, NEW u, NEW e, NEW os, NEW ns, NEW es, NEW sd, NEW dr, NEW ty,
         Same(t, u), Asked(ns) = Asked(os), Serves(t, e, os, es, sd, dr, ty)
  PROVE  Serves(u, e, ns, es, sd, dr, ty)
<1>1. /\ u.op = t.op /\ u.id = t.id /\ u.input = t.input /\ u.epoch = t.epoch
      /\ u.queue.active = t.queue.active /\ u.queue.handBack = t.queue.handBack
      /\ u.queue.pending = t.queue.pending /\ u.queue.drained = t.queue.drained
      /\ u.queue.switch = t.queue.switch
  BY DEF Same
<1>2. /\ Fore(u.queue) = Fore(t.queue) /\ Held(u) = Held(t) /\ EndsAt(u, es) = EndsAt(t, es)
      /\ Over(e, ns) = Over(e, os)
      /\ Unsaid(u.queue, es) = Unsaid(t.queue, es) /\ Undone(u.queue, es) = Undone(t.queue, es)
      /\ Unbegun(u, e, ns) = Unbegun(t, e, os)
  BY <1>1 DEF Fore, Held, EndsAt, Over, Unsaid, Undone, Unbegun
<1>3. /\ Revocable(u.queue, es) = Revocable(t.queue, es)
      /\ Lasting(u.queue, es) = Lasting(t.queue, es)
      /\ Absent(u, e, ns, es) = Absent(t, e, os, es)
  BY <1>2 DEF Revocable, Lasting, Absent
<1>4. Apart(u.queue, u.input)
  BY <1>1 DEF Serves, Apart
<1>5. Lasts(u, e, ns, es)
  BY <1>1, <1>2 DEF Serves, Lasts
<1>6. Fates(u, es)
  BY <1>1, <1>2 DEF Serves, Fates
<1>7. Opening(u, e, ns, es)
  BY <1>1, <1>2 DEF Serves, Opening
<1>8. Recorded(u, e, ns, es, Spoken(sd))
  BY <1>1, <1>3 DEF Serves, Recorded
<1>9. MarkAt(u, e, es, sd)
  BY <1>3 DEF Serves, MarkAt
<1>10. Sessions(u, e, es)
  BY <1>1 DEF Serves, Sessions
<1>11. Homes(u.queue, u.epoch, ty)
  BY <1>1, <1>2 DEF Serves, Homes, Aims, SwitchAsked
<1>12. SaidWell(sd, ty) /\ Kept(u, Spoken(sd), dr, ty)
  BY <1>2 DEF Serves, Kept
<1>13. QED
  BY <1>4, <1>5, <1>6, <1>7, <1>8, <1>9, <1>10, <1>11, <1>12 DEF Serves

\* Forwarding moves no prompt.
LEMMA ForwardSame ==
  ASSUME NEW o, o.tui \in UIs, o.sent \in Seq(Submissions),
         ops \in Seq(Submissions), Len(ops) + Len(o.sent) <= OpCap
  PROVE  LET r == ForwardQueued(o)
         IN  Same(o.tui, r.tui) /\ Asked(ops \o r.sent) = Asked(ops \o o.sent)
             /\ r.sent \in Seq(Submissions) /\ r.tui \in UIs
<1> DEFINE u     == o.tui
           ready == IF TakesQueuedPrompts(u) THEN ToForward(u.queue) ELSE <<>>
           n     == IF Len(ready) > Room(o.sent) THEN Room(o.sent) ELSE Len(ready)
           q     == [i \in 1..n |-> Submission("Queue", u.nextId + i - 1, ready[i], NoMode)]
           v     == [u EXCEPT !.queue.forwarded = @ + n, !.nextId = @ + n]
<1>1. u.queue \in Queues /\ u.nextId \in Nat /\ u.nextId >= 1
  BY DEF UIs
<1>2. ready \in Seq(Prompt)
  <2>1. SubSeq(u.queue.pending, u.queue.forwarded + 1, Len(u.queue.pending)) \in Seq(Prompt)
    BY <1>1, QueueFields, SubSeqType
  <2>2. QED
    BY <2>1, QueueConstants DEF ToForward
<1>3. ForwardQueued(o) = [tui |-> v, sent |-> o.sent \o q]
  BY DEF ForwardQueued
<1>4. u \in UIs
  OBVIOUS
<1> HIDE DEF u, ready
<1>5. n \in Nat /\ n <= Len(ready)
  <2>1. Len(ready) \in Nat /\ Len(ops) \in Nat /\ Len(o.sent) \in Nat /\ OpCap \in Nat
    BY <1>2, Bounds
  <2>2. QED
    BY <2>1, Fitting DEF Room
<1> HIDE DEF n
<1>6. q \in [1..n -> Submissions] /\ \A i \in 1..n : q[i].op = "Queue"
  <2>1. ASSUME NEW i \in 1..n
        PROVE  Submission("Queue", u.nextId + i - 1, ready[i], NoMode) \in Submissions /\ q[i].op = "Queue"
    <3>1. ready[i] \in Prompt /\ u.nextId + i - 1 \in Nat \ {0}
      BY <1>1, <1>2, <1>5
    <3>2. QED
      BY <3>1 DEF Submission, Submissions, OpKinds
  <2>2. QED
    BY <2>1
<1>7. q \in Seq(Submissions) /\ DOMAIN q = 1..n
  BY <1>5, <1>6, SeqOfFunction
<1> HIDE DEF q
<1>8. Asked(q) = {}
  <2>1. Asks(q) = {}
    BY <1>6, <1>7 DEF Asks, IdleOnly, LocalOps, Switches
  <2>2. QED
    BY <2>1 DEF Asked
<1>9. Asked(ops \o (o.sent \o q)) = Asked(ops \o o.sent) /\ o.sent \o q \in Seq(Submissions)
  <2> DEFINE s == o.sent
  <2>1. s \in Seq(Submissions)
    OBVIOUS
  <2> HIDE DEF s
  <2>2. s \o q \in Seq(Submissions)
    BY <1>7, <2>1, ConcatProperties
  <2>3. Asked(s \o q) = Asked(s)
    <3>1. Asked(s \o q) = Asked(s) \cup Asked(q)
      BY <1>7, <2>1, AskedConcat
    <3>2. QED
      BY <1>8, <3>1
  <2>4. Asked(ops \o (s \o q)) = Asked(ops) \cup Asked(s \o q) /\ Asked(ops \o s) = Asked(ops) \cup Asked(s)
    BY <2>1, <2>2, AskedConcat
  <2>5. QED
    BY <2>2, <2>3, <2>4 DEF s
<1>10. Same(u, v) /\ v \in UIs
  <2> DEFINE y == [u.queue EXCEPT !.forwarded = @ + n]
  <2>1. v = [u EXCEPT !.queue = y, !.nextId = u.nextId + n]
    BY <1>4 DEF UIs
  <2>2. /\ y.active = u.queue.active /\ y.handBack = u.queue.handBack
        /\ y.pending = u.queue.pending /\ y.drained = u.queue.drained /\ y.switch = u.queue.switch
    BY <1>1 DEF Queues
  <2>3. y \in Queues /\ u.nextId + n \in Nat \ {0}
    <3>1. u.queue.forwarded + n \in Nat /\ u.nextId + n \in Nat \ {0}
      BY <1>1, <1>5, QueueFields
    <3>2. QED
      BY <1>1, <3>1 DEF Queues
  <2> HIDE DEF y, v
  <2>4. v \in UIs
    BY <1>4, <2>1, <2>3 DEF UIs
  <2>5. v.queue = y /\ v.op = u.op /\ v.id = u.id /\ v.input = u.input /\ v.epoch = u.epoch
    BY <1>4, <2>1 DEF UIs
  <2>6. QED
    BY <2>2, <2>5, <2>4 DEF Same
<1> HIDE DEF v
<1>11. QED
  BY <1>3, <1>9, <1>10 DEF u

\* Silent events show, summarize and switch nothing.
LEMMA SilentView ==
  ASSUME NEW es \in Seq(EventRecs), Silent(es)
  PROVE  /\ Confirms(es) = {} /\ Mids(es) = {} /\ HopsIn(es) = {}
         /\ Words(es) \subseteq {"OpEnded", "ModeChanged"}
         /\ Shown(es) = {} /\ Later(es) = {} /\ Sooner(es) = {}
         /\ \A q : Revocable(q, es) = Fore(q) /\ Lasting(q, es) = {}
         /\ \A q : Unsaid(q, es) <=> q.handBack = "unsentPrompt"
         /\ \A q : Undone(q, es) <=> q.handBack = "rolledBackTurn"
<1>1. \A i \in DOMAIN es : es[i].ev \in {"OpEnded", "ModeChanged"}
  BY DEF Silent, Own
<1>2. /\ Confirms(es) = {} /\ Mids(es) = {} /\ HopsIn(es) = {}
      /\ Words(es) \subseteq {"OpEnded", "ModeChanged"}
  BY <1>1 DEF Confirms, Mids, HopsIn, Words, Hops
<1>3. Shown(es) = {} /\ Later(es) = {} /\ Sooner(es) = {}
  BY <1>2, Placed
<1>4. "PromptUnsent" \notin Words(es) /\ "TurnRolledBack" \notin Words(es)
  BY <1>2
<1>5. QED
  BY <1>2, <1>3, <1>4 DEF Revocable, Lasting, Unsaid, Undone

----------------------------------------------------------------------------
(* What an idle UI holds, and the passes that start from it *)

\* The UI holds the queue, the input and, in hand, `x`, none of them in the conversation.
Holds(q, input, x, epoch, S, dr, ty) ==
  /\ q.active = NoPrompt /\ q.drained = <<>> /\ q.handBack \notin Lapses
  /\ Once(q.pending) /\ input \notin Elems(q.pending) /\ x \notin Elems(q.pending)
  /\ x # NoPrompt => x # input /\ ty[x].at # 0 /\ Home(ty[x], epoch)
  /\ input \notin S /\ x \notin S /\ Elems(q.pending) \cap S = {}
  /\ \A p \in Elems(q.pending) : ty[p].at # 0 /\ Home(ty[p], epoch)
  /\ Aims(q, epoch, ty)
  /\ \A p \in Prompt : ty[p].at # 0 => p \in S \cup dr \cup {x, input} \cup Elems(q.pending)

\* No operation is under way.
Calm(epoch, e, es, sd, ty) ==
  /\ es \in Seq(EventRecs) /\ Silent(es) /\ e.phase = "idle"
  /\ epoch >= 1 /\ e.session = epoch /\ SaidWell(sd, ty)

\* The absence of a prompt is no prompt.
LEMMA NoOnePrompt == NoPrompt \notin Prompt
BY NoPromptIsNone

\* An idle UI serves what it holds.
LEMMA HoldsServes ==
  ASSUME NEW u \in UIs, NEW e, NEW os \in Seq(Submissions), NEW es, NEW sd, NEW dr, NEW ty,
         Holds(u.queue, u.input, NoPrompt, u.epoch, Spoken(sd), dr, ty),
         Calm(u.epoch, e, es, sd, ty), u.op # "Prompt", \A s \in Asked(os) : s.op # "Prompt"
  PROVE  Serves(u, e, os, es, sd, dr, ty)
<1> DEFINE q == u.queue
           S == Spoken(sd)
<1>1. /\ q.active = NoPrompt /\ q.drained = <<>> /\ q.handBack \notin Lapses
      /\ Once(q.pending) /\ u.input \notin Elems(q.pending) /\ NoPrompt \notin Elems(q.pending)
      /\ u.input \notin S /\ Elems(q.pending) \cap S = {}
      /\ \A p \in Elems(q.pending) : ty[p].at # 0 /\ Home(ty[p], u.epoch)
      /\ Aims(q, u.epoch, ty)
      /\ \A p \in Prompt : ty[p].at # 0 => p \in S \cup dr \cup {NoPrompt, u.input} \cup Elems(q.pending)
  BY DEF Holds
<1>2. /\ es \in Seq(EventRecs) /\ Silent(es) /\ e.phase = "idle"
      /\ u.epoch >= 1 /\ e.session = u.epoch /\ SaidWell(sd, ty)
  BY DEF Calm
<1>3. /\ Confirms(es) = {} /\ Mids(es) = {} /\ HopsIn(es) = {}
      /\ Words(es) \subseteq {"OpEnded", "ModeChanged"} /\ Shown(es) = {}
      /\ Revocable(q, es) = Fore(q) /\ Lasting(q, es) = {}
      /\ ~Unsaid(q, es) /\ ~Undone(q, es)
  <2>1. q.handBack # "unsentPrompt" /\ q.handBack # "rolledBackTurn"
    BY <1>1 DEF Lapses
  <2>2. QED
    BY <1>2, <2>1, SilentView
<1>4. Elems(<<>>) = {} /\ Once(<<>>)
  BY EmptySeq, ElemsFacts
<1>5. Fore(q) = {}
  BY <1>1, <1>4, NoOnePrompt DEF Fore
<1> HIDE DEF q, S
<1>6. Apart(q, u.input)
  BY <1>1, <1>4 DEF Apart
<1>7. Lasts(u, e, os, es)
  <2>1. \A i \in DOMAIN es : es[i].ev \notin LastWords
    BY <1>2 DEF Silent, Own, LastWords, Hops
  <2>2. QED
    BY <1>1, <1>5, <2>1 DEF Lasts, q
<1>8. Fates(u, es)
  BY <1>3 DEF Fates, q
<1>9. Opening(u, e, os, es)
  BY <1>2 DEF Opening, Unbegun, Openings
<1>10. Recorded(u, e, os, es, S)
  <2>1. ~Absent(u, e, os, es)
    BY <1>3 DEF Absent, Unbegun, q
  <2>2. QED
    BY <1>1, <1>3, <1>5, <2>1 DEF Recorded, q
<1>11. MarkAt(u, e, es, sd)
  BY <1>2 DEF MarkAt, Begun
<1>12. Sessions(u, e, es)
  BY <1>2, <1>3 DEF Sessions
<1>13. Homes(q, u.epoch, ty)
  BY <1>1, <1>5 DEF Homes
<1>14. Kept(u, S, dr, ty)
  BY <1>1, NoOnePrompt DEF Kept, Held, q
<1>15. QED
  BY <1>2, <1>6, <1>7, <1>8, <1>9, <1>10, <1>11, <1>12, <1>13, <1>14 DEF Serves, q, S

\* A turn that starts serves the prompt it is for.
LEMMA TurnServes ==
  ASSUME NEW u \in UIs, NEW e, NEW os \in Seq(Submissions), NEW es, NEW sd, NEW dr, NEW ty,
         NEW q \in Queues, NEW p \in Prompt,
         Holds(q, u.input, p, u.epoch, Spoken(sd), dr, ty), u.queue = [q EXCEPT !.active = p],
         Calm(u.epoch, e, es, sd, ty), u.op = "Prompt",
         NEW s, Asked(os) = {s}, s.op = "Prompt" => s.prompt = p
  PROVE  Serves(u, e, os, es, sd, dr, ty)
<1> DEFINE r == u.queue
           S == Spoken(sd)
<1>1. /\ q.drained = <<>> /\ q.handBack \notin Lapses
      /\ Once(q.pending) /\ u.input \notin Elems(q.pending) /\ p \notin Elems(q.pending)
      /\ p # u.input /\ ty[p].at # 0 /\ Home(ty[p], u.epoch)
      /\ u.input \notin S /\ p \notin S /\ Elems(q.pending) \cap S = {}
      /\ \A x \in Elems(q.pending) : ty[x].at # 0 /\ Home(ty[x], u.epoch)
      /\ Aims(q, u.epoch, ty)
      /\ \A x \in Prompt : ty[x].at # 0 => x \in S \cup dr \cup {p, u.input} \cup Elems(q.pending)
  BY NoOnePrompt DEF Holds
<1>2. /\ es \in Seq(EventRecs) /\ Silent(es) /\ e.phase = "idle"
      /\ u.epoch >= 1 /\ e.session = u.epoch /\ SaidWell(sd, ty)
  BY DEF Calm
<1>3. /\ r.active = p /\ r.drained = q.drained /\ r.handBack = q.handBack
      /\ r.pending = q.pending /\ r.switch = q.switch
  BY DEF Queues
<1> HIDE DEF r, S
<1>4. /\ Confirms(es) = {} /\ Mids(es) = {} /\ HopsIn(es) = {}
      /\ Shown(es) = {}
      /\ Revocable(r, es) = Fore(r) /\ Lasting(r, es) = {}
      /\ ~Unsaid(r, es) /\ ~Undone(r, es)
  <2>1. r.handBack # "unsentPrompt" /\ r.handBack # "rolledBackTurn"
    BY <1>3, <1>1 DEF Lapses
  <2>2. QED
    BY <1>2, <2>1, SilentView
<1>5. Elems(<<>>) = {} /\ Once(<<>>)
  BY EmptySeq, ElemsFacts
<1>6. Fore(r) = {p}
  BY <1>3, <1>1, <1>5 DEF Fore
<1>7. Apart(r, u.input)
  BY <1>3, <1>1, <1>5 DEF Apart
<1>8. Lasts(u, e, os, es)
  <2>1. \A i \in DOMAIN es : es[i].ev \notin LastWords
    BY <1>2 DEF Silent, Own, LastWords, Hops
  <2>2. QED
    BY <1>3, <1>1, <2>1 DEF Lasts, r
<1>9. Fates(u, es)
  BY <1>4 DEF Fates, r
<1>10. Opening(u, e, os, es)
  BY <1>3, <1>1, <1>2, <1>4 DEF Opening, Openings, r
<1>11. Recorded(u, e, os, es, S)
  <2>1. Absent(u, e, os, es)
    BY DEF Absent, Unbegun
  <2>2. QED
    BY <1>3, <1>1, <1>4, <1>6, <2>1 DEF Recorded, r
<1>12. MarkAt(u, e, es, sd)
  BY <1>2 DEF MarkAt, Begun
<1>13. Sessions(u, e, es)
  BY <1>2, <1>4 DEF Sessions
<1>14. Homes(r, u.epoch, ty)
  BY <1>3, <1>1, <1>6 DEF Homes, Aims, SwitchAsked
<1>15. Kept(u, S, dr, ty)
  BY <1>3, <1>1, <1>6 DEF Kept, Held, r
<1>16. QED
  BY <1>2, <1>7, <1>8, <1>9, <1>10, <1>11, <1>12, <1>13, <1>14, <1>15 DEF Serves, r, S

\* An idle UI holds what it serves.
LEMMA ServesHolds ==
  ASSUME NEW t \in UIs, NEW e \in Engines, NEW os \in Seq(Submissions),
         NEW es \in Seq(EventRecs), NEW sd \in Seq(Entries), NEW dr, NEW ty, Flight(t, e, os, es),
         ~Busy(t), Serves(t, e, os, es, sd, dr, ty)
  PROVE  /\ Holds(t.queue, t.input, NoPrompt, t.epoch, Spoken(sd), dr, ty)
         /\ Calm(t.epoch, e, es, sd, ty) /\ Asked(os) = {}
<1> DEFINE q == t.queue
           S == Spoken(sd)
<1>1. t.op = "none" /\ t.op # "Prompt" /\ "none" \notin IdleOnly
  BY DEF Busy, IdleOnly, LocalOps, Switches
<1>2. e.phase = "idle" /\ Asks(os) = {} /\ Silent(es)
  BY <1>1 DEF Flight, Stages, Tells, Busy, Asks, Silent
<1>3. /\ Shown(es) = {} /\ HopsIn(es) = {}
  BY <1>2, SilentView
<1>4. q \in Queues /\ q.active \in Prompt \cup {NoPrompt} /\ q.pending \in Seq(Prompt) /\ q.drained \in Seq(Prompt)
  BY QueueFields DEF UIs
<1>5. /\ Apart(q, t.input) /\ Lasts(t, e, os, es) /\ Recorded(t, e, os, es, S)
      /\ Sessions(t, e, es) /\ Homes(q, t.epoch, ty) /\ SaidWell(sd, ty) /\ Kept(t, S, dr, ty)
  BY DEF Serves
<1> HIDE DEF S
<1>6. Fore(q) = {} /\ q.handBack \notin Lapses
  BY <1>1, <1>5 DEF Lasts
<1>7. q.active = NoPrompt /\ q.drained = <<>>
  <2>1. Elems(q.drained) \subseteq Prompt /\ (q.drained # <<>> => 1 \in DOMAIN q.drained)
        /\ \A i \in DOMAIN q.drained : q.drained[i] \in Elems(q.drained)
    BY <1>4, ElemsFacts
  <2>2. QED
    BY <1>4, <1>6, <2>1 DEF Fore
<1>8. NoPrompt \notin Elems(q.pending) /\ NoPrompt \notin S
  <2>1. Elems(q.pending) \subseteq Prompt
    BY <1>4, ElemsFacts
  <2>2. QED
    BY <1>5, <2>1, NoOnePrompt DEF SaidWell, Spoken, S
<1>9. Holds(q, t.input, NoPrompt, t.epoch, S, dr, ty)
  <2>1. Once(q.pending) /\ t.input \notin Elems(q.pending)
    BY <1>5 DEF Apart
  <2>2. t.input \notin S /\ Elems(q.pending) \cap S = {}
    BY <1>3, <1>5 DEF Recorded
  <2>3. /\ \A p \in Elems(q.pending) : ty[p].at # 0 /\ Home(ty[p], t.epoch)
        /\ Aims(q, t.epoch, ty)
    BY <1>5 DEF Homes
  <2>4. \A p \in Prompt : ty[p].at # 0 => p \in S \cup dr \cup {NoPrompt, t.input} \cup Elems(q.pending)
    BY <1>5, <1>6 DEF Kept, Held
  <2>5. QED
    BY <1>6, <1>7, <1>8, <2>1, <2>2, <2>3, <2>4 DEF Holds
<1>10. Calm(t.epoch, e, es, sd, ty)
  BY <1>2, <1>3, <1>5 DEF Calm, Sessions
<1>11. QED
  BY <1>2, <1>9, <1>10, AskedNone DEF S

\* What goes back to the head is ahead of a switch's mark, which moves with it.
LEMMA AimsFront ==
  ASSUME NEW q \in Queues, NEW ps \in Seq(Prompt), NEW epoch, NEW ty, Aims(q, epoch, ty)
  PROVE  LET r == PushFront(q, ps)
         IN  /\ r.active = q.active /\ r.drained = q.drained /\ r.handBack = q.handBack
             /\ r.pending = ps \o q.pending /\ r \in Queues /\ Aims(r, epoch, ty)
             /\ r.held = q.held /\ r.forwarded = q.forwarded
<1> DEFINE r == PushFront(q, ps)
           sw == [q.switch EXCEPT !.before = IF SwitchAsked(q) THEN @ + Len(ps) ELSE @]
           d == ps \o q.pending
           k == Len(ps)
           n == Len(q.pending)
<1>1. r = [q EXCEPT !.pending = d, !.switch = sw]
  BY DEF PushFront, Queues
<1>2. r \in Queues
  BY PushFrontTypes
<1>3. q.pending \in Seq(Prompt) /\ q.switch.before \in Nat /\ k \in Nat /\ n \in Nat
  BY QueueFields
<1>4. /\ r.active = q.active /\ r.drained = q.drained /\ r.handBack = q.handBack
      /\ r.pending = d /\ r.switch = sw /\ r.held = q.held /\ r.forwarded = q.forwarded
  BY <1>1 DEF Queues
<1>5. sw.to = q.switch.to /\ (SwitchAsked(q) => sw.before = q.switch.before + k)
  BY DEF Queues
<1>6. Len(d) = k + n /\ \A i \in 1..k + n : d[i] = IF i <= k THEN ps[i] ELSE q.pending[i - k]
  BY <1>3, ConcatProperties
<1> HIDE DEF r, sw, d, k, n
<1>7. Aims(r, epoch, ty)
  <2> SUFFICES ASSUME SwitchAsked(q), NEW i \in 1..Len(d), i > sw.before
               PROVE  ty[d[i]].late /\ ty[d[i]].at = epoch
    BY <1>4, <1>5 DEF Aims, SwitchAsked
  <2>1. i \in 1..k + n /\ i > q.switch.before + k /\ ~(i <= k) /\ i - k \in 1..n /\ i - k > q.switch.before
    BY <1>3, <1>5, <1>6
  <2>2. d[i] = q.pending[i - k]
    BY <1>6, <2>1
  <2>3. QED
    BY <2>1, <2>2 DEF Aims, n
<1>8. QED
  BY <1>2, <1>4, <1>7 DEF r, d

\* The prompt in hand goes back to the head.
LEMMA HoldsFront ==
  ASSUME NEW q \in Queues, NEW p \in Prompt, NEW input, NEW epoch, NEW S, NEW dr, NEW ty,
         Holds(q, input, p, epoch, S, dr, ty), NoPrompt \notin S
  PROVE  PushFront(q, <<p>>) \in Queues /\ Holds(PushFront(q, <<p>>), input, NoPrompt, epoch, S, dr, ty)
<1> DEFINE r == PushFront(q, <<p>>)
           o == <<p>>
<1>1. /\ q.active = NoPrompt /\ q.drained = <<>> /\ q.handBack \notin Lapses
      /\ Once(q.pending) /\ input \notin Elems(q.pending) /\ p \notin Elems(q.pending)
      /\ p # input /\ ty[p].at # 0 /\ Home(ty[p], epoch)
      /\ input \notin S /\ p \notin S /\ Elems(q.pending) \cap S = {}
      /\ \A x \in Elems(q.pending) : ty[x].at # 0 /\ Home(ty[x], epoch)
      /\ Aims(q, epoch, ty)
      /\ \A x \in Prompt : ty[x].at # 0 => x \in S \cup dr \cup {p, input} \cup Elems(q.pending)
  BY NoOnePrompt DEF Holds
<1>2. o \in Seq(Prompt) /\ Elems(o) = {p} /\ Once(o)
  BY ElemsOne
<1> HIDE DEF o
<1>3. /\ r.active = q.active /\ r.drained = q.drained /\ r.handBack = q.handBack
      /\ r.pending = o \o q.pending /\ r \in Queues /\ Aims(r, epoch, ty)
  BY <1>1, <1>2, AimsFront DEF o
<1> HIDE DEF r
<1>4. q.pending \in Seq(Prompt)
  BY QueueFields
<1>5. Elems(r.pending) = {p} \cup Elems(q.pending) /\ Once(r.pending)
  <2>1. /\ Elems(o \o q.pending) = Elems(o) \cup Elems(q.pending)
        /\ Once(o \o q.pending) <=> Once(o) /\ Once(q.pending) /\ Elems(o) \cap Elems(q.pending) = {}
    BY <1>2, <1>4, ElemsConcat
  <2>2. QED
    BY <1>1, <1>2, <1>3, <2>1
<1>6. NoPrompt \notin Elems(r.pending)
  BY <1>4, <1>5, ElemsFacts, NoOnePrompt
<1>7. Holds(r, input, NoPrompt, epoch, S, dr, ty)
  BY <1>1, <1>3, <1>5, <1>6 DEF Holds
<1>8. QED
  BY <1>3, <1>7 DEF r

\* The head is taken in hand.
LEMMA HoldsPop ==
  ASSUME NEW q \in Queues, q.pending # <<>>, NEW input, NEW epoch, NEW S, NEW dr, NEW ty,
         Holds(q, input, NoPrompt, epoch, S, dr, ty)
  PROVE  /\ PopNext(q) \in Queues /\ Head(q.pending) \in Prompt
         /\ Holds(PopNext(q), input, Head(q.pending), epoch, S, dr, ty)
<1> DEFINE r == PopNext(q)
           p == Head(q.pending)
           d == Tail(q.pending)
<1>1. /\ q.active = NoPrompt /\ q.drained = <<>> /\ q.handBack \notin Lapses
      /\ Once(q.pending) /\ input \notin Elems(q.pending)
      /\ input \notin S /\ Elems(q.pending) \cap S = {}
      /\ \A x \in Elems(q.pending) : ty[x].at # 0 /\ Home(ty[x], epoch)
      /\ Aims(q, epoch, ty)
      /\ \A x \in Prompt : ty[x].at # 0 => x \in S \cup dr \cup {NoPrompt, input} \cup Elems(q.pending)
  BY DEF Holds
<1>2. r \in Queues /\ p \in Prompt /\ q.pending \in Seq(Prompt) /\ q.switch.before \in Nat
  BY PopTypes, QueueFields
<1>3. r.active = q.active /\ r.drained = q.drained /\ r.handBack = q.handBack /\ r.pending = d
      /\ r.switch = q.switch
  BY DEF PopNext, Queues
<1>4. Elems(q.pending) = {p} \cup Elems(d) /\ Once(d) /\ p \notin Elems(d)
  BY <1>1, <1>2, ElemsHead
<1>5. Len(d) = Len(q.pending) - 1 /\ Len(q.pending) \in Nat
      /\ \A i \in 1..Len(q.pending) - 1 : d[i] = q.pending[i + 1] /\ i + 1 \in 1..Len(q.pending)
  BY <1>2, HeadAndTail
<1> HIDE DEF r, p, d
<1>6. Aims(r, epoch, ty)
  <2> SUFFICES ASSUME SwitchAsked(q), NEW i \in 1..Len(d), i > q.switch.before
               PROVE  ty[d[i]].late /\ ty[d[i]].at = epoch
    BY <1>3 DEF Aims, SwitchAsked
  <2>1. i + 1 \in 1..Len(q.pending) /\ d[i] = q.pending[i + 1] /\ i + 1 > q.switch.before
    BY <1>2, <1>5
  <2>2. QED
    BY <1>1, <2>1 DEF Aims
<1>7. Holds(r, input, p, epoch, S, dr, ty)
  BY <1>1, <1>2, <1>3, <1>4, <1>6, NoOnePrompt DEF Holds
<1>8. QED
  BY <1>2, <1>7 DEF r, p

\* What a pass from an idle UI makes of what it holds: nothing is sent, and it is held, or a turn
\* has begun.
Fine(t, r, e, es, sd, dr, ty) ==
  /\ r.tui \in UIs /\ r.tui.epoch = t.epoch /\ r.tui.op \in {"none", "Prompt"}
  /\ r.tui.op = "none" => /\ r.sent = <<>>
                          /\ Holds(r.tui.queue, r.tui.input, NoPrompt, t.epoch, Spoken(sd), dr, ty)
  /\ r.tui.op = "Prompt" => Serves(r.tui, e, ops \o r.sent, es, sd, dr, ty)

\* An idle UI starts a turn with the prompt in hand.
LEMMA StartTurnServes ==
  ASSUME ops \in Seq(Submissions), Len(ops) <= OpCap, NEW t \in UIs, NEW p \in Prompt, ~Busy(t),
         NEW e, NEW es, NEW sd, NEW dr, NEW ty, Asked(ops) = {}, Calm(t.epoch, e, es, sd, ty),
         Holds(t.queue, t.input, p, t.epoch, Spoken(sd), dr, ty)
  PROVE  Fine(t, StartTurn(t, p), e, es, sd, dr, ty)
<1>1. t.queue \in Queues /\ t.nextId \in Nat \ {0} /\ t.op = "none" /\ Len(ops) \in Nat
  BY DEF UIs, Busy
<1>2. NoPrompt \notin Spoken(sd)
  BY NoOnePrompt DEF Calm, SaidWell, Spoken
<1>3. CASE Room(<<>>) = 0
  <2> DEFINE u == [t EXCEPT !.queue = PushFront(t.queue, <<p>>)]
             r == [tui |-> u, sent |-> <<>>]
  <2>1. /\ PushFront(t.queue, <<p>>) \in Queues
        /\ Holds(PushFront(t.queue, <<p>>), t.input, NoPrompt, t.epoch, Spoken(sd), dr, ty)
    BY <1>1, <1>2, HoldsFront
  <2>2. /\ u \in UIs /\ u.op = "none" /\ u.queue = PushFront(t.queue, <<p>>) /\ u.input = t.input
        /\ u.epoch = t.epoch
    BY <1>1, <2>1 DEF UIs
  <2>3. StartTurn(t, p) = r
    BY <1>3 DEF StartTurn
  <2>4. r.tui = u /\ r.sent = <<>>
    OBVIOUS
  <2> HIDE DEF u, r
  <2>5. Fine(t, r, e, es, sd, dr, ty)
    BY <2>1, <2>2, <2>4 DEF Fine
  <2>6. QED
    BY <2>3, <2>5
<1>4. CASE Room(<<>>) # 0
  <2> DEFINE a == [t EXCEPT !.queue.active = p]
             u == Begin(a, "Prompt")
             s == Submission("Prompt", t.nextId, p, NoMode)
             o == [tui |-> u, sent |-> <<s>>]
  <2>1. StartTurn(t, p) = ForwardQueued(o)
    BY <1>4 DEF StartTurn
  <2>2. /\ a \in UIs /\ a.queue = [t.queue EXCEPT !.active = p] /\ a.input = t.input
        /\ a.epoch = t.epoch
    <3>1. [t.queue EXCEPT !.active = p] \in Queues
      BY <1>1, TurnTypes
    <3>2. a = [t EXCEPT !.queue = [t.queue EXCEPT !.active = p]]
      BY DEF UIs
    <3>3. QED
      BY <3>1, <3>2 DEF UIs
  <2> HIDE DEF a
  <2>3. /\ u \in UIs /\ u.op = "Prompt" /\ u.queue = a.queue /\ u.input = a.input
        /\ u.epoch = a.epoch
    <3>1. u \in UIs /\ u.op = "Prompt"
      BY <2>2, BeginFacts DEF IdleOnly
    <3>2. QED
      BY <2>2, <3>1 DEF Begin, UIs
  <2>4. s \in Submissions /\ s.op = "Prompt" /\ s.prompt = p
    BY <1>1 DEF Submission, Submissions, OpKinds, IdleOnly
  <2>5. o.tui = u /\ o.sent = <<s>>
    OBVIOUS
  <2> HIDE DEF u, s, o
  <2>6. <<s>> \in Seq(Submissions) /\ Len(<<s>>) = 1 /\ Asked(<<s>>) = {s}
    <3>1. <<s>> \in Seq(Submissions) /\ Len(<<s>>) = 1 /\ DOMAIN <<s>> = {1} /\ <<s>>[1] = s
      BY <2>4
    <3>2. QED
      BY <2>4, <3>1 DEF Asked, Asks, IdleOnly
  <2>7. Asked(ops \o o.sent) = {s} /\ ops \o o.sent \in Seq(Submissions)
    <3>1. Asked(ops \o o.sent) = Asked(ops) \cup Asked(o.sent) /\ ops \o o.sent \in Seq(Submissions)
      BY <2>5, <2>6, AskedConcat, ConcatProperties
    <3>2. QED
      BY <2>5, <2>6, <3>1
  <2>8. Len(ops) + Len(o.sent) <= OpCap
    <3>1. Room(<<>>) = OpCap - Len(ops)
      BY <1>1, Bounds DEF Room
    <3>2. QED
      BY <1>1, <1>4, <2>5, <2>6, <3>1, Bounds
  <2> DEFINE r == ForwardQueued(o)
             os == ops \o o.sent
             ns == ops \o r.sent
             q == t.queue
  <2> HIDE DEF os, q
  <2>9. Serves(u, e, os, es, sd, dr, ty)
    <3>1. Holds(q, u.input, p, u.epoch, Spoken(sd), dr, ty) /\ u.queue = [q EXCEPT !.active = p]
      BY <2>2, <2>3 DEF q
    <3>2. Calm(u.epoch, e, es, sd, ty)
      BY <2>2, <2>3
    <3>3. Asked(os) = {s} /\ os \in Seq(Submissions) /\ q \in Queues
      BY <1>1, <2>7 DEF os, q
    <3>4. QED
      BY <2>3, <2>4, <3>1, <3>2, <3>3, TurnServes
  <2>10. Same(u, r.tui) /\ Asked(ns) = Asked(os)
    BY <2>3, <2>5, <2>6, <2>8, ForwardSame DEF os
  <2>11. r.tui \in UIs
    BY <2>3, <2>5, <2>6, <2>8, ForwardSame
  <2> HIDE DEF r, ns
  <2>12. Serves(r.tui, e, ns, es, sd, dr, ty)
    BY <2>9, <2>10, SameServes
  <2>13. r.tui.op = "Prompt" /\ r.tui.epoch = t.epoch
    BY <2>2, <2>3, <2>10 DEF Same
  <2>14. Fine(t, r, e, es, sd, dr, ty)
    BY <2>11, <2>12, <2>13 DEF Fine, ns
  <2>15. QED
    BY <2>1, <2>14 DEF r
<1>5. QED
  BY <1>3, <1>4

\* It starts one with the head of its queue.
LEMMA DrainPendingServes ==
  ASSUME ops \in Seq(Submissions), Len(ops) <= OpCap, NEW t \in UIs, ~Busy(t),
         NEW e, NEW es, NEW sd, NEW dr, NEW ty, Asked(ops) = {}, Calm(t.epoch, e, es, sd, ty),
         Holds(t.queue, t.input, NoPrompt, t.epoch, Spoken(sd), dr, ty)
  PROVE  Fine(t, DrainPending(t), e, es, sd, dr, ty)
<1>1. t.queue \in Queues /\ t.op = "none"
  BY DEF UIs, Busy
<1>2. CASE t.queue.held \/ t.queue.pending = <<>>
  <2> DEFINE r == [tui |-> t, sent |-> <<>>]
  <2>1. DrainPending(t) = r /\ r.tui = t /\ r.sent = <<>>
    BY <1>2 DEF DrainPending
  <2> HIDE DEF r
  <2>2. QED
    BY <1>1, <2>1 DEF Fine
<1>3. CASE ~(t.queue.held \/ t.queue.pending = <<>>)
  <2> DEFINE u == [t EXCEPT !.queue = PopNext(t.queue)]
             p == Head(t.queue.pending)
  <2>1. /\ PopNext(t.queue) \in Queues /\ p \in Prompt
        /\ Holds(PopNext(t.queue), t.input, p, t.epoch, Spoken(sd), dr, ty)
    BY <1>1, <1>3, HoldsPop
  <2>2. /\ u \in UIs /\ u.op = "none" /\ u.queue = PopNext(t.queue) /\ u.input = t.input
        /\ u.epoch = t.epoch
    BY <1>1, <2>1 DEF UIs
  <2>3. DrainPending(t) = StartTurn(u, p)
    BY <1>3 DEF DrainPending
  <2> HIDE DEF u, p
  <2>4. Fine(u, StartTurn(u, p), e, es, sd, dr, ty)
    <3>1. ~Busy(u)
      BY <2>2 DEF Busy
    <3>2. Calm(u.epoch, e, es, sd, ty) /\ Holds(u.queue, u.input, p, u.epoch, Spoken(sd), dr, ty)
      BY <2>1, <2>2
    <3>3. QED
      BY <2>1, <2>2, <3>1, <3>2, StartTurnServes
  <2>5. QED
    BY <2>2, <2>3, <2>4 DEF Fine
<1>4. QED
  BY <1>2, <1>3

\* However such a pass turns out, the prompts are served.
LEMMA FineServes ==
  ASSUME ops \in Seq(Submissions), NEW t, NEW r, NEW e, NEW es, NEW sd, NEW dr, NEW ty,
         Fine(t, r, e, es, sd, dr, ty), Asked(ops) = {}, Calm(t.epoch, e, es, sd, ty)
  PROVE  Serves(r.tui, e, ops \o r.sent, es, sd, dr, ty)
<1>1. CASE r.tui.op = "Prompt"
  BY <1>1 DEF Fine
<1>2. CASE r.tui.op # "Prompt"
  <2> DEFINE u == r.tui
             os == ops \o r.sent
  <2>1. /\ u \in UIs /\ u.epoch = t.epoch /\ u.op = "none" /\ r.sent = <<>>
        /\ Holds(u.queue, u.input, NoPrompt, u.epoch, Spoken(sd), dr, ty)
    BY <1>2 DEF Fine
  <2>2. os = ops
    BY <2>1, ConcatEmptySeq
  <2> HIDE DEF u, os
  <2>3. Calm(u.epoch, e, es, sd, ty) /\ os \in Seq(Submissions) /\ Asked(os) = {}
    BY <2>1, <2>2
  <2>4. Serves(u, e, os, es, sd, dr, ty)
    BY <2>1, <2>3, HoldsServes
  <2>5. QED
    BY <2>4 DEF u, os
<1>3. QED
  BY <1>1, <1>2

----------------------------------------------------------------------------
(* What the user does keeps the prompts served *)

\* What the invariant says of the prompts.
LEMMA Served ==
  ASSUME FInv, SInv
  PROVE  /\ typed \in Histories /\ engine.round <= MaxRounds - 1 /\ said \in Seq(Entries)
         /\ Serves(tui, engine, ops, events, said, dropped, typed)
         /\ ~Busy(tui) => /\ Holds(tui.queue, tui.input, NoPrompt, tui.epoch, Spoken(said), dropped, typed)
                          /\ Calm(tui.epoch, engine, events, said, typed) /\ Asked(ops) = {}
<1>1. tui \in UIs /\ engine \in Engines /\ ops \in Seq(Submissions) /\ events \in Seq(EventRecs)
      /\ Flight(tui, engine, ops, events) /\ said \in Seq(Entries)
  BY DEF FInv, Typed
<1>2. /\ typed \in Histories /\ engine.round <= MaxRounds - 1
      /\ Serves(tui, engine, ops, events, said, dropped, typed)
  BY DEF SInv
<1>3. QED
  BY <1>1, <1>2, ServesHolds

\* A pass of the UI that leaves the prompts served.
LEMMA PassServes ==
  ASSUME SInv, NEW r, Pass(r), UNCHANGED <<engine, said>>, typed' \in Histories,
         Serves(r.tui, engine, ops \o r.sent, events', said, dropped', typed')
  PROVE  SInv'
BY DEF SInv, Pass

\* A pass that sends what asks for no operation, and moves no prompt.
LEMMA SamePass ==
  ASSUME FInv, SInv, NEW r, Pass(r), UNCHANGED <<engine, events, said, typed, dropped>>,
         r.sent \in Seq(Submissions), Asked(r.sent) = {}, Same(tui, r.tui)
  PROVE  SInv'
<1>1. Asked(ops \o r.sent) = Asked(ops)
  <2>1. Asked(ops \o r.sent) = Asked(ops) \cup Asked(r.sent)
    BY Closed, AskedConcat
  <2>2. QED
    BY <2>1
<1>2. Serves(r.tui, engine, ops \o r.sent, events, said, dropped, typed)
  BY <1>1, Served, SameServes
<1>3. events' = events /\ dropped' = dropped /\ typed' = typed /\ typed \in Histories
  BY Served
<1>4. QED
  BY <1>2, <1>3, PassServes

\* A pass that sends nothing and leaves the prompts served.
LEMMA QuietServes ==
  ASSUME FInv, SInv, NEW u, Quietly(u), UNCHANGED <<engine, said>>, typed' \in Histories,
         Serves(u, engine, ops, events', said, dropped', typed')
  PROVE  SInv'
<1> DEFINE r == [tui |-> u, sent |-> <<>>]
<1>1. ops \o <<>> = ops
  BY Closed, ConcatEmptySeq
<1>2. Pass(r) /\ r.tui = u /\ r.sent = <<>>
  BY DEF Quietly
<1> HIDE DEF r
<1>3. QED
  BY <1>1, <1>2, PassServes

\* A pass that sends one op that starts nothing.
LEMMA OneServes ==
  ASSUME FInv, SInv, NEW u, NEW s \in Submissions, Pass([tui |-> u, sent |-> <<s>>]),
         UNCHANGED <<engine, events, said, typed, dropped>>, s.op \notin IdleOnly, Same(tui, u)
  PROVE  SInv'
<1> DEFINE r == [tui |-> u, sent |-> <<s>>]
<1>1. <<s>> \in Seq(Submissions) /\ DOMAIN <<s>> = {1} /\ <<s>>[1] = s
  OBVIOUS
<1>2. Asked(<<s>>) = {}
  BY <1>1 DEF Asked, Asks
<1>3. r.tui = u /\ r.sent = <<s>> /\ Pass(r)
  OBVIOUS
<1> HIDE DEF r
<1>4. QED
  BY <1>1, <1>2, <1>3, SamePass

LEMMA TypeServes == ASSUME FInv, SInv, Type PROVE SInv'
<1>1. PICK p \in Prompt : typed[p].at = 0 /\ Quietly([tui EXCEPT !.input = p])
  BY DEF Type
<1> DEFINE u == [tui EXCEPT !.input = p]
           q == tui.queue
           S == Spoken(said)
<1>2. UNCHANGED <<engine, events, said, typed, dropped>> /\ Quietly(u) /\ tui.input = NoPrompt
  BY <1>1 DEF Type
<1>3. /\ u.op = tui.op /\ u.id = tui.id /\ u.queue = q /\ u.epoch = tui.epoch /\ u.input = p
  BY Closed DEF UIs
<1> HIDE DEF u
<1>4. /\ Apart(q, tui.input) /\ Lasts(tui, engine, ops, events) /\ Fates(tui, events)
      /\ Opening(tui, engine, ops, events) /\ Recorded(tui, engine, ops, events, S)
      /\ MarkAt(tui, engine, events, said) /\ Sessions(tui, engine, events)
      /\ Homes(q, tui.epoch, typed) /\ SaidWell(said, typed) /\ Kept(tui, S, dropped, typed)
  BY Served DEF Serves
<1>5. p \notin Fore(q) \cup Elems(q.pending) /\ p \notin S
  BY <1>1, <1>4 DEF Homes, SaidWell, Spoken, S
<1>6. p # q.active /\ p \notin Elems(q.pending) \cup Elems(q.drained)
  BY <1>5 DEF Fore
<1>7. Apart(u.queue, u.input)
  BY <1>3, <1>4, <1>6 DEF Apart
<1>8. /\ EndsAt(u, events) = EndsAt(tui, events) /\ Unbegun(u, engine, ops) = Unbegun(tui, engine, ops)
      /\ Absent(u, engine, ops, events) = Absent(tui, engine, ops, events)
  BY <1>3 DEF EndsAt, Unbegun, Absent, q
<1>9. Lasts(u, engine, ops, events)
  BY <1>3, <1>4 DEF Lasts, q
<1>10. Fates(u, events)
  BY <1>3, <1>4, <1>8 DEF Fates, q
<1>11. Opening(u, engine, ops, events)
  BY <1>3, <1>4, <1>8 DEF Opening, q
<1>12. Recorded(u, engine, ops, events, S)
  BY <1>3, <1>4, <1>5, <1>8 DEF Recorded, q
<1>13. MarkAt(u, engine, events, said) /\ Sessions(u, engine, events) /\ Homes(u.queue, u.epoch, typed)
  BY <1>3, <1>4 DEF MarkAt, Sessions, q
<1>14. Kept(u, S, dropped, typed)
  BY <1>2, <1>3, <1>4, NoOnePrompt DEF Kept, Held, q
<1>15. Serves(u, engine, ops, events, said, dropped, typed)
  BY <1>4, <1>7, <1>9, <1>10, <1>11, <1>12, <1>13, <1>14 DEF Serves, S
<1>16. QED
  BY <1>2, <1>15, QuietServes, Served

\* The history of a prompt that is typed again.
Retypes(ty, w, p, epoch) == w[p].at = epoch /\ \A x \in Prompt : x # p => w[x] = ty[x]

\* What was said keeps its home when another prompt is typed.
LEMMA SaidStays ==
  ASSUME NEW sd, NEW ty \in Histories, NEW w, NEW p, SaidWell(sd, ty), p \notin Spoken(sd),
         \A x \in Prompt : x # p => w[x] = ty[x]
  PROVE  SaidWell(sd, w)
BY DEF SaidWell, Spoken

\* A submitted line joins the queue of an idle UI.
LEMMA HoldsPush ==
  ASSUME NEW q \in Queues, NEW p \in Prompt, NEW epoch,
         NEW ty, NEW w, Retypes(ty, w, p, epoch),
         SwitchAsked(q) => q.held \/ (w[p].late /\ q.switch.before <= Len(q.pending)),
         Aims(q, epoch, ty), p \notin Elems(q.pending), Once(q.pending)
  PROVE  LET r == Push(q, p)
         IN  /\ r \in Queues /\ Elems(r.pending) = Elems(q.pending) \cup {p} /\ Once(r.pending)
             /\ r.active = q.active /\ r.drained = q.drained /\ r.handBack = q.handBack
             /\ Aims(r, epoch, w)
<1> DEFINE r == Push(q, p)
<1>1. q.pending \in Seq(Prompt) /\ q.switch.before \in Nat
  BY QueueFields
<1>2. /\ r \in Queues /\ r.pending = Append(q.pending, p) /\ r.active = q.active
      /\ r.drained = q.drained /\ r.handBack = q.handBack
      /\ r.switch = IF q.held THEN NoSwitch ELSE q.switch
  BY PushTypes DEF Push, Queues
<1>3. /\ Elems(r.pending) = Elems(q.pending) \cup {p} /\ Once(r.pending)
      /\ Len(r.pending) = Len(q.pending) + 1 /\ Len(q.pending) \in Nat
      /\ \A i \in 1..Len(q.pending) : r.pending[i] = q.pending[i]
      /\ r.pending[Len(q.pending) + 1] = p
  BY <1>1, <1>2, ElemsAppend
<1> HIDE DEF r
<1>4. w[p].at = epoch /\ \A x \in Prompt : x # p => w[x] = ty[x]
  BY DEF Retypes
<1>5. \A x \in Elems(q.pending) : x \in Prompt /\ x # p /\ w[x] = ty[x]
  BY <1>1, <1>4, ElemsFacts
<1>6. Aims(r, epoch, w)
  <2> SUFFICES ASSUME SwitchAsked(r), NEW i \in 1..Len(r.pending), i > r.switch.before
               PROVE  w[r.pending[i]].late /\ w[r.pending[i]].at = epoch
    BY DEF Aims
  <2>1. SwitchAsked(q) /\ r.switch = q.switch /\ w[p].late /\ q.switch.before <= Len(q.pending)
    BY <1>2 DEF SwitchAsked, NoSwitch
  <2>2. CASE i = Len(q.pending) + 1
    BY <1>3, <1>4, <2>1, <2>2
  <2>3. CASE i # Len(q.pending) + 1
    <3>1. i \in 1..Len(q.pending)
      BY <1>3, <2>3
    <3>2. ty[q.pending[i]].late /\ ty[q.pending[i]].at = epoch
      BY <2>1, <3>1 DEF Aims
    <3>3. q.pending[i] \in Elems(q.pending)
      BY <3>1 DEF Elems
    <3>4. QED
      BY <1>3, <1>5, <3>1, <3>2, <3>3
  <2>4. QED
    BY <2>2, <2>3
<1>7. QED
  BY <1>2, <1>3, <1>6 DEF r

LEMMA SubmitServes == ASSUME FInv, AInv, SInv, Submit PROVE SInv'
<1> DEFINE p == tui.input
           q == tui.queue
           S == Spoken(said)
           y == Push(q, p)
           u == [tui EXCEPT !.input = NoPrompt, !.queue = y]
           o == [tui |-> u, sent |-> <<>>]
           r == IF Busy(tui) THEN ForwardQueued(o) ELSE DrainPending(u)
           h == [at |-> tui.epoch, late |-> tui.op \in Switches]
<1>1. /\ Pass(r) /\ UNCHANGED <<engine, events, said, dropped>> /\ p \in Prompt
      /\ typed' = [typed EXCEPT ![p] = h]
  BY Closed DEF Submit
<1>2. /\ tui \in UIs /\ ops \in Seq(Submissions) /\ Len(ops) <= OpCap /\ q \in Queues
      /\ Shaped(q, tui.op) /\ typed \in Histories /\ tui.epoch \in Nat
      /\ engine \in Engines /\ events \in Seq(EventRecs) /\ Flight(tui, engine, ops, events)
  BY Closed, Served DEF AInv, Agrees, UIs
<1>3. /\ Apart(q, p) /\ Lasts(tui, engine, ops, events) /\ Fates(tui, events)
      /\ Opening(tui, engine, ops, events) /\ Recorded(tui, engine, ops, events, S)
      /\ MarkAt(tui, engine, events, said) /\ Sessions(tui, engine, events)
      /\ Homes(q, tui.epoch, typed) /\ SaidWell(said, typed) /\ Kept(tui, S, dropped, typed)
  BY Served DEF Serves
<1>4. tui.epoch # 0 /\ NoPrompt \notin S
  BY <1>2, <1>3, NoOnePrompt DEF Sessions, SaidWell, Spoken
<1>5. h \in [at : Nat, late : BOOLEAN] /\ h.at = tui.epoch /\ (h.late <=> tui.op \in Switches)
  <2>1. (tui.op \in Switches) \in BOOLEAN /\ tui.epoch \in Nat
    BY <1>2
  <2>2. h \in [at : Nat, late : BOOLEAN]
    BY <2>1
  <2>3. h.at = tui.epoch
    OBVIOUS
  <2>4. h.late <=> tui.op \in Switches
    OBVIOUS
  <2>5. QED
    BY <2>2, <2>3, <2>4
<1> HIDE DEF h, p
<1>6. typed' = [typed EXCEPT ![p] = h] /\ typed \in Histories /\ p \in Prompt
  BY <1>1, <1>2
<1>7. /\ typed' \in Histories /\ typed'[p].at = tui.epoch /\ (typed'[p].late <=> tui.op \in Switches)
      /\ \A x \in Prompt : x # p => typed'[x] = typed[x]
  <2>1. typed'[p] = h /\ \A x \in Prompt : x # p => typed'[x] = typed[x]
    BY <1>6 DEF Histories
  <2>2. typed' \in Histories
    BY <1>5, <1>6 DEF Histories
  <2>3. QED
    BY <1>5, <2>1, <2>2
<1>8. /\ y \in Queues /\ Elems(y.pending) = Elems(q.pending) \cup {p} /\ Once(y.pending)
      /\ y.active = q.active /\ y.drained = q.drained /\ y.handBack = q.handBack
      /\ Aims(y, tui.epoch, typed')
      /\ \A x \in Elems(y.pending) : typed'[x].at # 0 /\ Home(typed'[x], tui.epoch)
  <2>1. SwitchAsked(q) => q.held \/ (typed'[p].late /\ q.switch.before <= Len(q.pending))
    BY <1>2, <1>7 DEF Shaped
  <2>2. /\ p \notin Elems(q.pending) /\ Once(q.pending) /\ Aims(q, tui.epoch, typed)
        /\ \A x \in Elems(q.pending) : typed[x].at # 0 /\ Home(typed[x], tui.epoch)
    BY <1>3 DEF Apart, Homes
  <2>3. Retypes(typed, typed', p, tui.epoch)
    BY <1>7 DEF Retypes
  <2>4. y \in Queues /\ Once(y.pending) /\ Aims(y, tui.epoch, typed')
    BY <1>6, <1>2, <1>4, <2>1, <2>2, <2>3, HoldsPush
  <2>5. Elems(y.pending) = Elems(q.pending) \cup {p}
    <3>1. y.pending = Append(q.pending, p) /\ q.pending \in Seq(Prompt)
      BY <1>2 DEF Push, Queues
    <3>2. QED
      BY <1>6, <3>1, ElemsAppend
  <2>6. \A x \in Elems(y.pending) : typed'[x].at # 0 /\ Home(typed'[x], tui.epoch)
    <3>1. Elems(q.pending) \subseteq Prompt
      BY <1>2, QueueFields, ElemsFacts
    <3>2. Home(typed'[p], tui.epoch) /\ typed'[p].at # 0
      BY <1>4, <1>7 DEF Home
    <3>3. QED
      BY <1>7, <2>2, <2>5, <3>1, <3>2
  <2>7. y.active = q.active /\ y.drained = q.drained /\ y.handBack = q.handBack
    BY <1>2 DEF Push, Queues
  <2>8. QED
    BY <2>4, <2>7, <2>5, <2>6
<1>9. p \notin S /\ p # q.active /\ p \notin Elems(q.drained)
  BY <1>1, <1>3, NoOnePrompt DEF Recorded, Apart, p
<1>10. SaidWell(said, typed')
  BY <1>2, <1>3, <1>7, <1>9, SaidStays DEF S
<1> HIDE DEF y, S
<1>11. /\ u \in UIs /\ u.op = tui.op /\ u.id = tui.id /\ u.queue = y /\ u.input = NoPrompt
      /\ u.epoch = tui.epoch
  BY <1>2, <1>8 DEF UIs
<1>12. Serves(r.tui, engine, ops \o r.sent, events, said, dropped, typed')
  <2>1. CASE Busy(tui)
    <3> HIDE DEF u
    <3>1. o.tui = u /\ o.sent = <<>> /\ r = ForwardQueued(o)
      BY <2>1
    <3> HIDE DEF o, r, q
    <3>2. Fore(y) = Fore(q) /\ Held(u) = Held(tui)
      BY <1>1, <1>8, <1>11, NoOnePrompt DEF Fore, Held, p, q
    <3>3. /\ EndsAt(u, events) = EndsAt(tui, events) /\ Unbegun(u, engine, ops) = Unbegun(tui, engine, ops)
          /\ Unsaid(y, events) = Unsaid(q, events) /\ Undone(y, events) = Undone(q, events)
          /\ Revocable(y, events) = Revocable(q, events) /\ Lasting(y, events) = Lasting(q, events)
      BY <1>8, <1>11, <3>2 DEF EndsAt, Unbegun, Unsaid, Undone, Revocable, Lasting
    <3>4. Absent(u, engine, ops, events) = Absent(tui, engine, ops, events)
      BY <1>11, <3>3 DEF Absent, q
    <3>5. Apart(y, NoPrompt)
      <4>1. Elems(y.pending) \subseteq Prompt /\ Elems(y.drained) \subseteq Prompt
        BY <1>8, QueueFields, ElemsFacts
      <4>2. Once(q.drained) /\ Elems(q.pending) \cap Elems(q.drained) = {}
            /\ q.active \notin Elems(q.pending) \cup Elems(q.drained)
        BY <1>3 DEF Apart
      <4>3. QED
        BY <1>8, <1>9, <4>1, <4>2, NoOnePrompt DEF Apart
    <3>6. Lasts(u, engine, ops, events)
      BY <1>3, <1>8, <1>11, <3>2 DEF Lasts, q
    <3>7. Fates(u, events)
      BY <1>3, <1>8, <1>11, <3>3 DEF Fates, q
    <3>8. Opening(u, engine, ops, events)
      BY <1>3, <1>8, <1>11, <3>3 DEF Opening, q
    <3>9. Recorded(u, engine, ops, events, S)
      <4>1. (Elems(q.pending) \ Shown(events)) \cap S = {} /\ Lasting(q, events) \subseteq S
            /\ Lasting(q, events) \cap Revocable(q, events) = {}
            /\ IF Absent(tui, engine, ops, events) THEN Revocable(q, events) \cap S = {}
               ELSE Revocable(q, events) \subseteq S
        BY <1>3 DEF Recorded, q
      <4>2. QED
        BY <1>4, <1>8, <1>9, <1>11, <3>3, <3>4, <4>1 DEF Recorded
    <3>10. MarkAt(u, engine, events, said) /\ Sessions(u, engine, events)
      BY <1>3, <1>11, <3>3 DEF MarkAt, Sessions, q
    <3>11. Homes(y, u.epoch, typed')
      <4>1. \A x \in Fore(q) : x \in Prompt /\ x # p /\ typed[x].at # 0 /\ Home(typed[x], tui.epoch)
        BY <1>3, <1>9 DEF Homes, Fore
      <4>2. \A x \in Fore(q) : typed'[x].at # 0 /\ Home(typed'[x], tui.epoch)
        BY <1>7, <4>1
      <4>3. QED
        BY <1>8, <1>11, <3>2, <4>2 DEF Homes
    <3>12. Kept(u, S, dropped, typed')
      <4>1. p \in Held(u)
        BY <1>8, <1>11 DEF Held
      <4>2. QED
        BY <1>3, <1>7, <3>2, <4>1 DEF Kept
    <3>13. Serves(u, engine, ops, events, said, dropped, typed')
      BY <1>10, <1>11, <3>5, <3>6, <3>7, <3>8, <3>9, <3>10, <3>11, <3>12 DEF Serves, S
    <3>14. /\ Same(u, ForwardQueued(o).tui)
           /\ Asked(ops \o ForwardQueued(o).sent) = Asked(ops \o o.sent)
      <4>1. Len(<<>>) = 0 /\ Len(ops) \in Nat /\ <<>> \in Seq(Submissions)
        BY <1>2, EmptySeq
      <4>2. Len(ops) + Len(o.sent) <= OpCap /\ o.sent \in Seq(Submissions) /\ o.tui \in UIs
        BY <1>2, <1>11, <3>1, <4>1
      <4>3. QED
        BY <1>2, <3>1, <4>2, ForwardSame
    <3>15. ops \o o.sent = ops
      BY <1>2, <3>1, ConcatEmptySeq
    <3>16. QED
      BY <3>1, <3>13, <3>14, <3>15, SameServes
  <2>2. CASE ~Busy(tui)
    <3>1. /\ Holds(q, p, NoPrompt, tui.epoch, S, dropped, typed)
          /\ Calm(tui.epoch, engine, events, said, typed) /\ Asked(ops) = {}
      BY <2>2, Served DEF p, S
    <3>2. Holds(y, NoPrompt, NoPrompt, tui.epoch, S, dropped, typed')
      <4>1. NoPrompt \notin Elems(y.pending)
        BY <1>8, QueueFields, ElemsFacts, NoOnePrompt
      <4>2. \A x \in Prompt : typed'[x].at # 0 => x \in S \cup dropped \cup {NoPrompt} \cup Elems(y.pending)
        BY <1>8, <1>7, <3>1 DEF Holds
      <4>3. /\ y.active = NoPrompt /\ y.drained = <<>> /\ y.handBack \notin Lapses
            /\ Elems(y.pending) \cap S = {}
        BY <1>8, <1>9, <3>1 DEF Holds
      <4>4. QED
        BY <1>4, <1>8, <4>1, <4>2, <4>3 DEF Holds
    <3>3. Calm(u.epoch, engine, events, said, typed')
      BY <1>10, <1>11, <3>1 DEF Calm
    <3> HIDE DEF u
    <3>4. Fine(u, DrainPending(u), engine, events, said, dropped, typed')
      <4>1. ~Busy(u) /\ Holds(u.queue, u.input, NoPrompt, u.epoch, S, dropped, typed')
        BY <1>11, <2>2, <3>2 DEF Busy
      <4>2. QED
        BY <1>2, <1>11, <3>1, <3>3, <4>1, DrainPendingServes DEF S
    <3>5. r = DrainPending(u)
      BY <2>2
    <3> HIDE DEF r
    <3>6. QED
      BY <1>2, <3>1, <3>3, <3>4, <3>5, FineServes
  <2>3. QED
    BY <2>1, <2>2
<1> HIDE DEF r
<1>13. QED
  BY <1>1, <1>7, <1>12, PassServes

\* A pass that sends nothing and moves no prompt.
LEMMA QuietSame ==
  ASSUME FInv, SInv, NEW u, Quietly(u), UNCHANGED <<engine, events, said, typed, dropped>>, Same(tui, u)
  PROVE  SInv'
<1> DEFINE r == [tui |-> u, sent |-> <<>>]
<1>1. Pass(r) /\ r.tui = u /\ r.sent = <<>>
  BY DEF Quietly
<1>2. <<>> \in Seq(Submissions) /\ Asked(<<>>) = {}
  BY EmptySeq DEF Asked, Asks
<1> HIDE DEF r
<1>3. QED
  BY <1>1, <1>2, SamePass

LEMMA SubmitCodeServes == ASSUME FInv, SInv, SubmitCode PROVE SInv'
<1> DEFINE u == [tui EXCEPT !.nextId = tui.nextId + 1]
           s == Submission("LoginCode", tui.nextId, NoPrompt, NoMode)
<1>1. Pass([tui |-> u, sent |-> <<s>>]) /\ UNCHANGED <<engine, events, said, typed, dropped>>
  BY Closed DEF SubmitCode, UIs
<1>2. Same(tui, u) /\ tui.nextId \in Nat \ {0}
  BY Closed DEF UIs, Same
<1>3. s \in Submissions /\ s.op = "LoginCode"
  BY <1>2 DEF Submission, Submissions, OpKinds
<1> HIDE DEF u, s
<1>4. s.op \notin IdleOnly
  BY <1>3 DEF IdleOnly, LocalOps, Switches
<1>5. QED
  BY <1>1, <1>2, <1>3, <1>4, OneServes

LEMMA InterruptServes == ASSUME FInv, SInv, Interrupt PROVE SInv'
<1> DEFINE u == [tui EXCEPT !.activity = "cancelling", !.nextId = tui.nextId + 1]
           s == Submission("Interrupt", tui.nextId, NoPrompt, NoMode)
<1>1. Pass([tui |-> u, sent |-> <<s>>]) /\ UNCHANGED <<engine, events, said, typed, dropped>>
  BY Closed DEF Interrupt, UIs
<1>2. Same(tui, u) /\ tui.nextId \in Nat \ {0}
  BY Closed DEF UIs, Same
<1>3. s \in Submissions /\ s.op = "Interrupt"
  BY <1>2 DEF Submission, Submissions, OpKinds
<1> HIDE DEF u, s
<1>4. s.op \notin IdleOnly
  BY <1>3 DEF IdleOnly, LocalOps, Switches
<1>5. QED
  BY <1>1, <1>2, <1>3, <1>4, OneServes

LEMMA SetModeServes == ASSUME FInv, SInv, SetMode PROVE SInv'
<1>1. PICK m \in Mode : Pass([tui  |-> [tui EXCEPT !.requested = m, !.nextId = @ + 1],
                            sent |-> <<Submission("SetMode", tui.nextId, NoPrompt, m)>>])
  BY DEF SetMode
<1> DEFINE u == [tui EXCEPT !.requested = m, !.nextId = tui.nextId + 1]
           s == Submission("SetMode", tui.nextId, NoPrompt, m)
<1>2. Pass([tui |-> u, sent |-> <<s>>]) /\ UNCHANGED <<engine, events, said, typed, dropped>>
  BY <1>1, Closed DEF SetMode, UIs
<1>3. Same(tui, u) /\ tui.nextId \in Nat \ {0}
  BY Closed DEF UIs, Same
<1>4. s \in Submissions /\ s.op = "SetMode"
  BY <1>3 DEF Submission, Submissions, OpKinds
<1> HIDE DEF u, s
<1>5. s.op \notin IdleOnly
  BY <1>4 DEF IdleOnly, LocalOps, Switches
<1>6. QED
  BY <1>2, <1>3, <1>4, <1>5, OneServes

LEMMA OpenModalServes == ASSUME FInv, SInv, OpenModal PROVE SInv'
<1>1. PICK modal \in Modals : Quietly([tui EXCEPT !.modal = modal])
  BY DEF OpenModal
<1> DEFINE u == [tui EXCEPT !.modal = modal]
<1>2. Same(tui, u)
  BY Closed DEF UIs, Same
<1>3. Quietly(u) /\ UNCHANGED <<engine, events, said, typed, dropped>>
  BY <1>1 DEF OpenModal
<1> HIDE DEF u
<1>4. QED
  BY <1>2, <1>3, QuietSame

\* A pass that starts what an idle UI holds.
LEMMA FinePass ==
  ASSUME FInv, SInv, ~Busy(tui), NEW r, Pass(r), UNCHANGED <<engine, events, said>>, NEW t,
         typed' \in Histories, t.epoch = tui.epoch, SaidWell(said, typed'),
         Fine(t, r, engine, events, said, dropped', typed')
  PROVE  SInv'
<1>1. ops \in Seq(Submissions) /\ Asked(ops) = {} /\ Calm(t.epoch, engine, events, said, typed')
  BY Closed, Served DEF Calm
<1>2. Serves(r.tui, engine, ops \o r.sent, events, said, dropped', typed')
  BY <1>1, FineServes
<1>3. events' = events
  OBVIOUS
<1>4. QED
  BY <1>2, <1>3, PassServes

LEMMA CloseModalServes == ASSUME FInv, SInv, CloseModal PROVE SInv'
<1> DEFINE a == [tui EXCEPT !.modal = "none"]
           u == [a EXCEPT !.awaits = FALSE]
<1>1. /\ UNCHANGED <<engine, events, said, typed, dropped>>
      /\ IF tui.awaits /\ ~Busy(tui) THEN Pass(DrainPending(u)) ELSE Quietly(a)
  BY DEF CloseModal
<1>2. Same(tui, a) /\ Same(tui, u) /\ u \in UIs /\ u.queue = tui.queue
  BY Closed DEF UIs, Modals, Same
<1> HIDE DEF a, u
<1>3. CASE tui.awaits /\ ~Busy(tui)
  <2>1. ops \in Seq(Submissions) /\ Len(ops) <= OpCap
    BY Closed
  <2>2. /\ ~Busy(u) /\ Asked(ops) = {} /\ Calm(u.epoch, engine, events, said, typed)
        /\ Holds(u.queue, u.input, NoPrompt, u.epoch, Spoken(said), dropped, typed)
    BY <1>2, <1>3, Served DEF Same, Busy
  <2>3. Fine(u, DrainPending(u), engine, events, said, dropped, typed)
    BY <1>2, <2>1, <2>2, DrainPendingServes
  <2>4. /\ typed' = typed /\ dropped' = dropped /\ typed \in Histories /\ u.epoch = tui.epoch
        /\ SaidWell(said, typed) /\ Pass(DrainPending(u))
    BY <1>1, <1>2, <1>3, <2>2, Served DEF Same, Calm
  <2>5. QED
    BY <1>1, <1>3, <2>3, <2>4, FinePass
<1>4. CASE ~(tui.awaits /\ ~Busy(tui))
  BY <1>1, <1>2, <1>4, QuietSame
<1>5. QED
  BY <1>3, <1>4

LEMMA SlashPromptServes == ASSUME FInv, AInv, SInv, SlashPrompt PROVE SInv'
<1> DEFINE a == [tui EXCEPT !.input = NoPrompt, !.modal = "none"]
           p == tui.input
           q == tui.queue
           S == Spoken(said)
           o == StartTurn(a, p)
           b == [o.tui EXCEPT !.awaits = FALSE]
           h == [at |-> tui.epoch, late |-> FALSE]
           r == IF o.tui.awaits /\ ~Busy(o.tui) THEN DrainPending(b) ELSE o
<1>1. /\ UNCHANGED <<engine, events, said, dropped>> /\ ~Busy(tui) /\ p \in Prompt
      /\ Pass(r) /\ typed' = [typed EXCEPT ![p] = h]
  BY Closed DEF SlashPrompt
<1>2. /\ tui \in UIs /\ ops \in Seq(Submissions) /\ Len(ops) <= OpCap /\ typed \in Histories
      /\ Holds(q, p, NoPrompt, tui.epoch, S, dropped, typed) /\ q \in Queues
      /\ Calm(tui.epoch, engine, events, said, typed) /\ Asked(ops) = {} /\ tui.epoch \in Nat
  BY <1>1, Closed, Served DEF UIs
<1>3. /\ a \in UIs /\ a.op = tui.op /\ a.queue = q /\ a.input = NoPrompt /\ a.epoch = tui.epoch
  BY Closed DEF UIs, Modals
<1>4. h \in [at : Nat, late : BOOLEAN] /\ h.at = tui.epoch
  BY <1>2
<1> HIDE DEF a, p, h, r
<1>5. /\ typed' \in Histories /\ typed'[p].at = tui.epoch
      /\ \A x \in Prompt : x # p => typed'[x] = typed[x]
  BY <1>1, <1>2, <1>4 DEF Histories
<1>6. /\ q.active = NoPrompt /\ q.drained = <<>> /\ q.handBack \notin Lapses
      /\ Once(q.pending) /\ p \notin Elems(q.pending) /\ p \notin S /\ Elems(q.pending) \cap S = {}
      /\ \A x \in Elems(q.pending) : typed[x].at # 0 /\ Home(typed[x], tui.epoch)
      /\ Aims(q, tui.epoch, typed)
      /\ \A x \in Prompt : typed[x].at # 0 => x \in S \cup dropped \cup {NoPrompt, p} \cup Elems(q.pending)
  BY <1>2 DEF Holds
<1>7. /\ tui.epoch # 0 /\ NoPrompt \notin S /\ SaidWell(said, typed)
  <2>1. SaidWell(said, typed) /\ tui.epoch >= 1
    BY <1>2 DEF Calm
  <2>2. QED
    BY <1>2, <2>1, NoOnePrompt DEF SaidWell, Spoken
<1>8. /\ Elems(q.pending) \subseteq Prompt
      /\ \A i \in 1..Len(q.pending) : q.pending[i] \in Prompt /\ q.pending[i] # p
  <2>1. q.pending \in Seq(Prompt)
    BY <1>2, QueueFields
  <2>2. QED
    BY <1>6, <2>1, ElemsFacts
<1>9. SaidWell(said, typed')
  BY <1>5, <1>2, <1>6, <1>7, SaidStays DEF S
<1>10. Holds(q, NoPrompt, p, tui.epoch, S, dropped, typed')
  <2>1. Aims(q, tui.epoch, typed')
    BY <1>5, <1>6, <1>8 DEF Aims
  <2>2. \A x \in Elems(q.pending) : typed'[x].at # 0 /\ Home(typed'[x], tui.epoch)
    BY <1>5, <1>6, <1>8
  <2>3. NoPrompt \notin Elems(q.pending) /\ p # NoPrompt
    BY <1>1, <1>8, NoOnePrompt
  <2>4. typed'[p].at # 0 /\ Home(typed'[p], tui.epoch)
    BY <1>5, <1>7 DEF Home
  <2>5. \A x \in Prompt : typed'[x].at # 0 => x \in S \cup dropped \cup {p, NoPrompt} \cup Elems(q.pending)
    BY <1>5, <1>6
  <2>6. QED
    BY <1>6, <1>7, <2>1, <2>2, <2>3, <2>4, <2>5 DEF Holds
<1>11. Calm(tui.epoch, engine, events, said, typed')
  BY <1>2, <1>9 DEF Calm
<1> HIDE DEF q, S
<1>12. Fine(a, o, engine, events, said, dropped, typed')
  <2>1. ~Busy(a)
    BY <1>1, <1>3 DEF Busy
  <2>2. QED
    BY <1>1, <1>2, <1>3, <1>10, <1>11, <2>1, StartTurnServes DEF S, q
<1> HIDE DEF o
<1>13. CASE o.tui.awaits /\ ~Busy(o.tui)
  <2>1. /\ o.tui \in UIs /\ o.tui.epoch = a.epoch
        /\ Holds(o.tui.queue, o.tui.input, NoPrompt, a.epoch, S, dropped, typed')
    BY <1>12, <1>13 DEF Fine, Busy, S
  <2>2. /\ b \in UIs /\ b.op = o.tui.op /\ b.queue = o.tui.queue /\ b.input = o.tui.input
        /\ b.epoch = o.tui.epoch
    BY <2>1 DEF UIs
  <2>3. r = DrainPending(b)
    BY <1>13 DEF r
  <2> HIDE DEF b
  <2>4. ~Busy(b)
    BY <1>13, <2>2 DEF Busy
  <2>5. Fine(b, DrainPending(b), engine, events, said, dropped, typed')
    BY <1>2, <1>3, <1>11, <2>1, <2>2, <2>4, DrainPendingServes DEF S
  <2>6. b.epoch = tui.epoch /\ dropped' = dropped
    BY <1>1, <1>3, <2>1, <2>2
  <2>7. QED
    BY <1>1, <1>5, <1>9, <2>3, <2>5, <2>6, FinePass
<1>14. CASE ~(o.tui.awaits /\ ~Busy(o.tui))
  <2>1. r = o /\ dropped' = dropped
    BY <1>1, <1>14 DEF r
  <2>2. QED
    BY <1>1, <1>3, <1>5, <1>9, <1>12, <2>1, FinePass
<1>15. QED
  BY <1>13, <1>14

\* The last of the queue is taken back.
LEMMA HoldsLast ==
  ASSUME NEW q \in Queues, q.pending # <<>>, NEW epoch, NEW S, NEW dr, NEW ty, NoPrompt \notin S,
         Holds(q, NoPrompt, NoPrompt, epoch, S, dr, ty)
  PROVE  LET r == PopLast(q)
             x == q.pending[Len(q.pending)]
         IN  x \in Prompt /\ Holds(r, x, NoPrompt, epoch, S, dr, ty)
<1> DEFINE r == PopLast(q)
           n == Len(q.pending)
           x == q.pending[n]
           d == SubSeq(q.pending, 1, n - 1)
<1>1. q.pending \in Seq(Prompt) /\ q.switch.before \in Nat /\ n \in Nat
  BY QueueFields
<1>2. /\ r.pending = d /\ r.active = q.active /\ r.drained = q.drained /\ r.handBack = q.handBack
      /\ r.switch = [q.switch EXCEPT !.before = IF @ > n - 1 THEN n - 1 ELSE @]
  BY DEF PopLast, Queues
<1>3. SwitchAsked(r) => SwitchAsked(q) /\ r.switch.before = IF q.switch.before > n - 1 THEN n - 1 ELSE q.switch.before
  BY <1>2 DEF SwitchAsked, Queues
<1>4. /\ q.active = NoPrompt /\ q.drained = <<>> /\ q.handBack \notin Lapses
      /\ Once(q.pending) /\ Elems(q.pending) \cap S = {}
      /\ \A y \in Elems(q.pending) : ty[y].at # 0 /\ Home(ty[y], epoch)
      /\ Aims(q, epoch, ty)
      /\ \A y \in Prompt : ty[y].at # 0 => y \in S \cup dr \cup {NoPrompt, NoPrompt} \cup Elems(q.pending)
  BY DEF Holds
<1>5. /\ d \in Seq(Prompt) /\ x \in Prompt /\ Len(d) = n - 1 /\ Elems(q.pending) = Elems(d) \cup {x}
      /\ (\A i \in 1..n - 1 : d[i] = q.pending[i]) /\ Once(d) /\ x \notin Elems(d)
  BY <1>1, <1>4, ElemsLast
<1>6. Elems(d) \subseteq Prompt
  BY <1>5, ElemsFacts
<1> HIDE DEF r, d, x
<1>7. Aims(r, epoch, ty)
  <2> SUFFICES ASSUME SwitchAsked(r), NEW i \in 1..Len(r.pending), i > r.switch.before
               PROVE  ty[r.pending[i]].late /\ ty[r.pending[i]].at = epoch
    BY DEF Aims
  <2>1. i \in 1..n - 1 /\ i \in 1..n /\ i > q.switch.before /\ r.pending[i] = q.pending[i] /\ SwitchAsked(q)
    BY <1>1, <1>2, <1>3, <1>5
  <2>2. QED
    BY <1>4, <2>1 DEF Aims
<1>8. Holds(r, x, NoPrompt, epoch, S, dr, ty)
  BY <1>2, <1>4, <1>5, <1>6, <1>7, NoOnePrompt DEF Holds
<1>9. QED
  BY <1>5, <1>8 DEF r, x

LEMMA TakeBackServes == ASSUME FInv, SInv, TakeBack PROVE SInv'
<1> DEFINE n == Len(tui.queue.pending)
           y == PopLast(tui.queue)
           x == tui.queue.pending[n]
           u == [tui EXCEPT !.queue = y, !.input = x]
<1>1. /\ Quietly(u) /\ UNCHANGED <<engine, events, said, typed, dropped>> /\ tui.queue.pending # <<>>
      /\ ~Busy(tui) /\ tui.input = NoPrompt
  BY Closed DEF TakeBack, UIs
<1>2. /\ tui \in UIs /\ ops \in Seq(Submissions) /\ tui.queue \in Queues /\ Asked(ops) = {}
      /\ Holds(tui.queue, NoPrompt, NoPrompt, tui.epoch, Spoken(said), dropped, typed)
      /\ Calm(tui.epoch, engine, events, said, typed) /\ typed \in Histories
  BY <1>1, Closed, Served DEF UIs
<1>3. NoPrompt \notin Spoken(said)
  BY <1>2, NoOnePrompt DEF Calm, SaidWell, Spoken
<1>4. y \in Queues /\ x \in Prompt /\ Holds(y, x, NoPrompt, tui.epoch, Spoken(said), dropped, typed)
  BY <1>1, <1>2, <1>3, PopTypes, HoldsLast
<1> HIDE DEF y, x
<1>5. u \in UIs /\ u.op = tui.op /\ u.queue = y /\ u.input = x /\ u.epoch = tui.epoch
  BY <1>2, <1>4 DEF UIs
<1> HIDE DEF u
<1>6. Serves(u, engine, ops, events, said, dropped, typed)
  <2>1. u.op # "Prompt"
    BY <1>1, <1>5 DEF Busy
  <2>2. QED
    BY <1>2, <1>4, <1>5, <2>1, HoldsServes
<1>7. events' = events /\ dropped' = dropped /\ typed' = typed
  BY <1>1
<1>8. QED
  BY <1>1, <1>2, <1>6, <1>7, QuietServes

LEMMA DispatchServes == ASSUME FInv, AInv, SInv, Dispatch PROVE SInv'
<1>1. PICK kind \in Sendable(tui) :
        Pass([tui  |-> Begin([tui EXCEPT !.queue = Marked(@, kind), !.modal = "none"], kind),
              sent |-> <<Submission(kind, tui.nextId, NoPrompt, NoMode)>>])
  BY DEF Dispatch
<1> DEFINE q == tui.queue
           y == Marked(q, kind)
           a == [tui EXCEPT !.queue = y, !.modal = "none"]
           u == Begin(a, kind)
           s == Submission(kind, tui.nextId, NoPrompt, NoMode)
           r == [tui |-> u, sent |-> <<s>>]
<1>2. Pass(r) /\ UNCHANGED <<engine, events, said, typed, dropped>> /\ ~Busy(tui)
  BY <1>1, Closed DEF Dispatch, UIs
<1>3. kind \in IdleOnly /\ kind # "Prompt"
  BY Closed DEF Sendable, UIs, Modals, IdleOnly, LocalOps, Switches
<1>4. /\ tui \in UIs /\ engine \in Engines /\ ops \in Seq(Submissions) /\ q \in Queues
      /\ Shaped(q, "none") /\ Asked(ops) = {}
      /\ Holds(q, tui.input, NoPrompt, tui.epoch, Spoken(said), dropped, typed)
      /\ Calm(tui.epoch, engine, events, said, typed) /\ typed \in Histories
  BY <1>2, Closed, Served DEF AInv, Agrees, Busy, UIs
<1>5. y \in Queues
  BY <1>3, <1>4, TurnTypes, MarkedShapes
<1>6. /\ y.pending = q.pending /\ y.active = q.active /\ y.drained = q.drained
      /\ y.handBack \in {q.handBack, "heldQueue"}
      /\ SwitchAsked(y) => y.switch = q.switch \/ y.switch.before = Len(q.pending)
  BY <1>3, <1>4 DEF Marked, MarkSwitch, Queues, IdleOnly, LocalOps, Switches
<1>7. Holds(y, tui.input, NoPrompt, tui.epoch, Spoken(said), dropped, typed)
  <2> HIDE DEF y
  <2>1. Aims(q, tui.epoch, typed)
    BY <1>4 DEF Holds
  <2>2. q.pending \in Seq(Prompt) /\ Len(q.pending) \in Nat
    BY <1>4, QueueFields, ElemsFacts
  <2>3. Aims(y, tui.epoch, typed)
    BY <1>6, <2>1, <2>2 DEF Aims, SwitchAsked
  <2>4. y.handBack \notin Lapses
    BY <1>4, <1>6 DEF Holds, Lapses
  <2>5. QED
    BY <1>4, <1>6, <2>3, <2>4 DEF Holds
<1> HIDE DEF y
<1>8. a \in UIs /\ a.queue = y /\ tui.nextId \in Nat \ {0} /\ a.input = tui.input /\ a.epoch = tui.epoch
  BY <1>4, <1>5 DEF UIs, Modals
<1> HIDE DEF a
<1>9. u \in UIs /\ u.op = kind
  BY <1>3, <1>8, BeginFacts
<1>10. u.queue = y /\ u.input = tui.input /\ u.epoch = tui.epoch
  BY <1>8 DEF Begin, UIs
<1>11. s \in Submissions /\ s.op = kind
  BY <1>3, <1>8 DEF Submission, Submissions, OpKinds, IdleOnly, LocalOps, Switches
<1> HIDE DEF u, s
<1>12. <<s>> \in Seq(Submissions) /\ Asked(<<s>>) = {s}
  <2>1. <<s>> \in Seq(Submissions) /\ DOMAIN <<s>> = {1} /\ <<s>>[1] = s
    BY <1>11
  <2>2. QED
    BY <1>3, <1>11, <2>1 DEF Asked, Asks
<1>13. r.tui = u /\ r.sent = <<s>>
  OBVIOUS
<1> HIDE DEF r
<1>14. ops \o r.sent \in Seq(Submissions) /\ Asked(ops \o r.sent) = {s}
  BY <1>4, <1>12, <1>13, AskedConcat, ConcatProperties
<1>15. Serves(u, engine, ops \o r.sent, events, said, dropped, typed)
  BY <1>3, <1>4, <1>7, <1>9, <1>10, <1>11, <1>14, HoldsServes
<1>16. events' = events /\ dropped' = dropped /\ typed' = typed
  BY <1>2
<1>17. QED
  BY <1>2, <1>4, <1>13, <1>15, <1>16, PassServes

LEMMA UserServes == ASSUME FInv, AInv, SInv, UserActs PROVE SInv'
BY TypeServes, SubmitServes, SubmitCodeServes, SlashPromptServes, InterruptServes, TakeBackServes,
   SetModeServes, DispatchServes, OpenModalServes, CloseModalServes DEF UserActs

----------------------------------------------------------------------------
(* What the UI reads keeps the prompts served: what it hears *)

\* The UI reads `x`, which leaves the prompts where they are.
Heard(t, u, x) ==
  /\ u.op = t.op /\ u.id = t.id /\ u.input = t.input /\ u.epoch = t.epoch
  /\ u.queue.active = t.queue.active /\ u.queue.pending = t.queue.pending
  /\ u.queue.drained = t.queue.drained /\ u.queue.switch = t.queue.switch
  /\ x.ev \notin {"PromptDrained", "SessionCompactedMidTurn"} \cup Hops
  /\ \/ u.queue.handBack = t.queue.handBack /\ x.ev \notin LastWords
     \/ u.queue.handBack \notin Lapses /\ Own(x) /\ x.ev \notin LastWords
     \/ x.ev = "PromptUnsent" /\ u.queue.handBack = "unsentPrompt" /\ t.op = "Prompt"
     \/ x.ev = "TurnRolledBack" /\ u.queue.handBack = "rolledBackTurn" /\ t.op = "Prompt"

\* What lapses is over, and says no more.
LEMMA LastSilent ==
  ASSUME NEW t, NEW e, NEW os, NEW es \in Seq(EventRecs), es # <<>>, Lasts(t, e, os, es)
  PROVE  LET x == Head(es)
             d == Tail(es)
         IN  /\ x.ev \in LastWords => Silent(d) /\ Over(e, os)
             /\ Own(x) => t.queue.handBack \notin Lapses
             /\ d \in Seq(EventRecs)
             /\ \A i \in DOMAIN d :
                  d[i].ev \in LastWords => Over(e, os) /\ \A j \in DOMAIN d : i < j => ~Own(d[j])
<1> DEFINE x == Head(es)
           d == Tail(es)
<1>1. /\ \A i, j \in DOMAIN d : i < j => /\ i + 1 \in DOMAIN es /\ j + 1 \in DOMAIN es
                                          /\ i + 1 < j + 1
                                          /\ d[i] = es[i + 1] /\ d[j] = es[j + 1]
      /\ \A i \in DOMAIN d : 1 < i + 1 /\ i + 1 \in DOMAIN es /\ d[i] = es[i + 1]
      /\ 1 \in DOMAIN es /\ es[1] = x
  BY HeardView
<1>2. d \in Seq(EventRecs)
  BY HeadTailProperties
<1> HIDE DEF x, d
<1>3. /\ \A i \in DOMAIN es :
           es[i].ev \in LastWords =>
             Over(e, os) /\ \A j \in DOMAIN es : i < j => ~Own(es[j])
      /\ t.queue.handBack \in Lapses => Over(e, os) /\ Silent(es)
  BY DEF Lasts
<1>4. x.ev \in LastWords => Silent(d) /\ Over(e, os)
  BY <1>1, <1>3 DEF Silent
<1>5. Own(x) => t.queue.handBack \notin Lapses
  BY <1>1, <1>3 DEF Silent
<1>6. ASSUME NEW i \in DOMAIN d, d[i].ev \in LastWords
      PROVE  Over(e, os) /\ \A j \in DOMAIN d : i < j => ~Own(d[j])
  BY <1>1, <1>3, <1>6
<1>7. QED
  BY <1>2, <1>4, <1>5, <1>6 DEF x, d

\* Reading such an event leaves the prompts served.
LEMMA HearServes ==
  ASSUME NEW t, NEW u, NEW e, NEW os, NEW es \in Seq(EventRecs), es # <<>>, NEW sd, NEW dr, NEW ty,
         Serves(t, e, os, es, sd, dr, ty), Heard(t, u, Head(es))
  PROVE  Serves(u, e, os, Tail(es), sd, dr, ty)
<1> DEFINE x == Head(es)
           d == Tail(es)
           S == Spoken(sd)
<1>1. /\ Words(es) = {x.ev} \cup Words(d)
      /\ Confirms(es) = {} <=> Confirms(d) = {} /\ x.ev # "PromptDrained"
      /\ Mids(es) = {} <=> Mids(d) = {} /\ x.ev # "SessionCompactedMidTurn"
      /\ HopsIn(es) = {} <=> HopsIn(d) = {} /\ x.ev \notin Hops
      /\ Silent(es) <=> Silent(d) /\ ~Own(x)
      /\ Shown(es) = Shown(d) \cup {p \in {x.prompt} : x.ev = "PromptDrained"}
      /\ Later(es) = Later(d) \cup {p \in {x.prompt} : x.ev = "PromptDrained" /\ Mids(d) = {}}
      /\ Sooner(es) = Sooner(d) \cup {p \in {x.prompt} : x.ev = "PromptDrained" /\ Mids(d) # {}}
      /\ \A i \in EndsAt(t, d) : i + 1 \in EndsAt(t, es) /\ es[i + 1] = d[i]
  BY HeardView
<1>2. /\ Apart(t.queue, t.input) /\ Lasts(t, e, os, es) /\ Fates(t, es)
      /\ Opening(t, e, os, es) /\ Recorded(t, e, os, es, S)
      /\ MarkAt(t, e, es, sd) /\ Sessions(t, e, es)
      /\ Homes(t.queue, t.epoch, ty) /\ SaidWell(sd, ty) /\ Kept(t, S, dr, ty)
  BY DEF Serves
<1>3. /\ x.ev \in LastWords => Silent(d) /\ Over(e, os)
      /\ Own(x) => t.queue.handBack \notin Lapses
      /\ d \in Seq(EventRecs)
      /\ \A i \in DOMAIN d :
           d[i].ev \in LastWords => Over(e, os) /\ \A j \in DOMAIN d : i < j => ~Own(d[j])
  BY <1>2, LastSilent
<1>4. /\ u.op = t.op /\ u.id = t.id /\ u.input = t.input /\ u.epoch = t.epoch
      /\ u.queue.active = t.queue.active /\ u.queue.pending = t.queue.pending
      /\ u.queue.drained = t.queue.drained /\ u.queue.switch = t.queue.switch
      /\ x.ev # "PromptDrained" /\ x.ev # "SessionCompactedMidTurn" /\ x.ev \notin Hops
  BY DEF Heard
<1>5. \/ u.queue.handBack = t.queue.handBack /\ x.ev \notin LastWords
      \/ u.queue.handBack \notin Lapses /\ Own(x) /\ x.ev \notin LastWords
      \/ x.ev = "PromptUnsent" /\ u.queue.handBack = "unsentPrompt" /\ t.op = "Prompt"
      \/ x.ev = "TurnRolledBack" /\ u.queue.handBack = "rolledBackTurn" /\ t.op = "Prompt"
  BY DEF Heard
<1> HIDE DEF x, d, S
<1>6. /\ Confirms(d) = {} <=> Confirms(es) = {}
      /\ Mids(d) = {} <=> Mids(es) = {}
      /\ HopsIn(d) = {} <=> HopsIn(es) = {}
      /\ Shown(d) = Shown(es) /\ Later(d) = Later(es) /\ Sooner(d) = Sooner(es)
  BY <1>1, <1>4
<1>7. /\ Fore(u.queue) = Fore(t.queue) /\ Held(u) = Held(t)
      /\ \A i \in EndsAt(u, d) : i + 1 \in EndsAt(t, es) /\ es[i + 1] = d[i]
      /\ Unbegun(u, e, os) = Unbegun(t, e, os)
  BY <1>1, <1>4 DEF Fore, Held, EndsAt, Unbegun
<1>8. /\ Revocable(u.queue, d) = Revocable(t.queue, es)
      /\ Lasting(u.queue, d) = Lasting(t.queue, es)
  BY <1>6, <1>7 DEF Revocable, Lasting
<1>9. /\ Unsaid(u.queue, d) <=> Unsaid(t.queue, es)
      /\ Undone(u.queue, d) <=> Undone(t.queue, es)
  <2>1. "PromptUnsent" \in LastWords /\ "TurnRolledBack" \in LastWords
    BY DEF LastWords
  <2>2. Silent(d) => "PromptUnsent" \notin Words(d) /\ "TurnRolledBack" \notin Words(d)
    BY <1>3, SilentView
  <2>3. CASE u.queue.handBack = t.queue.handBack /\ x.ev \notin LastWords
    BY <1>1, <2>1, <2>3 DEF Unsaid, Undone
  <2>4. CASE u.queue.handBack \notin Lapses /\ Own(x) /\ x.ev \notin LastWords
    BY <1>1, <1>3, <2>1, <2>4 DEF Unsaid, Undone, Lapses
  <2>5. CASE x.ev = "PromptUnsent" /\ u.queue.handBack = "unsentPrompt"
    <3>1. Silent(d) /\ t.queue.handBack \notin Lapses
      BY <1>3, <2>1, <2>5 DEF Own
    <3>2. QED
      BY <1>1, <2>2, <2>5, <3>1 DEF Unsaid, Undone, Lapses
  <2>6. CASE x.ev = "TurnRolledBack" /\ u.queue.handBack = "rolledBackTurn"
    <3>1. Silent(d) /\ t.queue.handBack \notin Lapses
      BY <1>3, <2>1, <2>6 DEF Own
    <3>2. QED
      BY <1>1, <2>2, <2>6, <3>1 DEF Unsaid, Undone, Lapses
  <2>7. QED
    BY <1>5, <2>3, <2>4, <2>5, <2>6
<1>10. Absent(u, e, os, d) <=> Absent(t, e, os, es)
  BY <1>7, <1>9 DEF Absent
<1>11. Apart(u.queue, u.input)
  BY <1>2, <1>4 DEF Apart
<1>12. Lasts(u, e, os, d)
  <2>1. u.op # "Prompt" => Fore(u.queue) = {} /\ u.queue.handBack \notin Lapses
    BY <1>2, <1>4, <1>5, <1>7 DEF Lasts
  <2>2. u.queue.handBack \in Lapses => Over(e, os) /\ Silent(d)
    BY <1>1, <1>2, <1>3, <1>5 DEF Lasts, LastWords
  <2>3. QED
    BY <1>3, <2>1, <2>2 DEF Lasts
<1>13. Fates(u, d)
  BY <1>2, <1>4, <1>6, <1>7, <1>9 DEF Fates
<1>14. Opening(u, e, os, d)
  BY <1>2, <1>4, <1>6, <1>7 DEF Opening
<1>15. Recorded(u, e, os, d, S)
  BY <1>2, <1>4, <1>6, <1>8, <1>10 DEF Recorded
<1>16. MarkAt(u, e, d, sd) /\ Sessions(u, e, d)
  BY <1>2, <1>4, <1>6, <1>8 DEF MarkAt, Sessions
<1>17. Homes(u.queue, u.epoch, ty)
  BY <1>2, <1>4, <1>7 DEF Homes, Aims, SwitchAsked
<1>18. Kept(u, S, dr, ty)
  BY <1>2, <1>7 DEF Kept
<1>19. QED
  BY <1>2, <1>11, <1>12, <1>13, <1>14, <1>15, <1>16, <1>17, <1>18 DEF Serves, S, d

\* The UI reads an event and shows it.
LEMMA HearsServes ==
  ASSUME FInv, SInv, NEW ev, Next1(ev), NEW u, Quietly(u),
         UNCHANGED <<engine, said, typed, dropped>>, Heard(tui, u, Head(events))
  PROVE  SInv'
<1>1. events \in Seq(EventRecs) /\ events # <<>> /\ events' = Tail(events)
  BY Closed, EventRead
<1>2. Serves(u, engine, ops, events', said, dropped, typed)
  BY <1>1, Served, HearServes
<1>3. dropped' = dropped /\ typed' = typed /\ typed \in Histories
  BY Served
<1>4. QED
  BY <1>2, <1>3, QuietServes

LEMMA SetActivityServes == ASSUME FInv, SInv, SetActivity PROVE SInv'
<1> DEFINE act == IF Busy(tui) /\ tui.activity # "cancelling" THEN "running" ELSE tui.activity
           u == [tui EXCEPT !.activity = act]
           o == [tui |-> u, sent |-> <<>>]
           r == IF tui.activity = "compacting" THEN ForwardQueued(o) ELSE o
<1>1. Next1("Token") /\ UNCHANGED <<engine, said, typed, dropped>> /\ Pass(r)
  BY Closed DEF SetActivity, UIs
<1>2. /\ u \in UIs /\ u.op = tui.op /\ u.id = tui.id /\ u.input = tui.input /\ u.epoch = tui.epoch
      /\ u.queue = tui.queue
  <2>1. act \in {"none", "running", "compacting", "cancelling"}
    BY Closed DEF UIs
  <2> HIDE DEF act
  <2>2. QED
    BY <2>1, Closed DEF UIs
<1> HIDE DEF u
<1>3. /\ ops \in Seq(Submissions) /\ Len(ops) <= OpCap /\ events \in Seq(EventRecs)
      /\ events # <<>> /\ events' = Tail(events) /\ Head(events).ev = "Token"
  BY <1>1, Closed, EventRead
<1>4. Heard(tui, u, Head(events))
  BY <1>2, <1>3 DEF Heard, LastWords, Hops
<1>5. Serves(u, engine, ops, events', said, dropped, typed)
  BY <1>3, <1>4, Served, HearServes
<1>6. o.tui = u /\ o.sent = <<>> /\ ops \o <<>> = ops /\ <<>> \in Seq(Submissions)
      /\ Len(<<>>) = 0 /\ Len(ops) \in Nat
  BY <1>3, ConcatEmptySeq, EmptySeq
<1> HIDE DEF o
<1>7. Len(ops) + Len(o.sent) <= OpCap /\ o.tui \in UIs /\ o.sent \in Seq(Submissions)
  BY <1>2, <1>3, <1>6
<1>8. Serves(r.tui, engine, ops \o r.sent, events', said, dropped, typed)
  <2>1. CASE tui.activity = "compacting"
    <3>1. Same(u, r.tui) /\ Asked(ops \o r.sent) = Asked(ops)
      BY <1>3, <1>6, <1>7, <2>1, ForwardSame
    <3> HIDE DEF r
    <3>2. QED
      BY <1>5, <3>1, SameServes
  <2>2. CASE tui.activity # "compacting"
    BY <1>5, <1>6, <2>2
  <2>3. QED
    BY <2>1, <2>2
<1> HIDE DEF r
<1>9. dropped' = dropped /\ typed' = typed /\ typed \in Histories
  BY <1>1, Served
<1>10. QED
  BY <1>1, <1>8, <1>9, PassServes

\* An event that only notes what the end of the turn hands back.
LEMMA HandedBackServes ==
  ASSUME FInv, AInv, SInv, TurnRolledBack \/ PromptUnsent \/ AutoCompactionStarted
  PROVE  SInv'
<1>1. ASSUME NEW ev, Next1(ev), NEW h, NEW act,
             Quietly([tui EXCEPT !.queue.handBack = h, !.activity = act]),
             UNCHANGED <<engine, said, typed, dropped>>,
             \/ ev = "TurnRolledBack" /\ h = "rolledBackTurn"
             \/ ev = "PromptUnsent" /\ h = "unsentPrompt"
             \/ ev = "AutoCompactionStarted" /\ h = "heldQueue"
      PROVE  SInv'
  <2> DEFINE q == [tui.queue EXCEPT !.handBack = h]
             u == [tui EXCEPT !.queue = q, !.activity = act]
  <2>1. Quietly(u)
    BY <1>1, Closed DEF UIs
  <2>2. /\ u.op = tui.op /\ u.id = tui.id /\ u.input = tui.input /\ u.epoch = tui.epoch
        /\ u.queue = q
    BY Closed DEF UIs
  <2>3. /\ q.pending = tui.queue.pending /\ q.active = tui.queue.active
        /\ q.drained = tui.queue.drained /\ q.switch = tui.queue.switch /\ q.handBack = h
    BY Closed DEF Queues
  <2> HIDE DEF q, u
  <2>4. tui.op = "Prompt"
    BY <1>1, SpokenBy DEF TurnWords
  <2>5. Head(events).ev = ev
    BY <1>1, EventRead
  <2>6. Heard(tui, u, Head(events))
    BY <1>1, <2>2, <2>3, <2>4, <2>5 DEF Heard, LastWords, Hops, Lapses, Own
  <2>7. QED
    BY <1>1, <2>1, <2>6, HearsServes
<1>2. CASE TurnRolledBack
  <2>1. [tui EXCEPT !.queue.handBack = "rolledBackTurn"]
          = [tui EXCEPT !.queue.handBack = "rolledBackTurn", !.activity = tui.activity]
    BY Closed DEF UIs
  <2>2. Next1("TurnRolledBack") /\ UNCHANGED <<engine, said, typed, dropped>>
        /\ Quietly([tui EXCEPT !.queue.handBack = "rolledBackTurn", !.activity = tui.activity])
    BY <1>2, <2>1 DEF TurnRolledBack, Shows
  <2>3. QED
    BY <1>1, <2>2
<1>3. CASE PromptUnsent
  <2>1. [tui EXCEPT !.queue.handBack = "unsentPrompt"]
          = [tui EXCEPT !.queue.handBack = "unsentPrompt", !.activity = tui.activity]
    BY Closed DEF UIs
  <2>2. Next1("PromptUnsent") /\ UNCHANGED <<engine, said, typed, dropped>>
        /\ Quietly([tui EXCEPT !.queue.handBack = "unsentPrompt", !.activity = tui.activity])
    BY <1>3, <2>1 DEF PromptUnsent, Shows
  <2>3. QED
    BY <1>1, <2>2
<1>4. CASE AutoCompactionStarted
  <2> DEFINE act == IF tui.activity = "cancelling" THEN tui.activity ELSE "compacting"
  <2>1. Next1("AutoCompactionStarted") /\ UNCHANGED <<engine, said, typed, dropped>>
        /\ Quietly([tui EXCEPT !.queue.handBack = "heldQueue", !.activity = act])
    BY <1>4, Closed DEF AutoCompactionStarted, Shows, UIs
  <2> HIDE DEF act
  <2>2. QED
    BY <1>1, <2>1
<1>5. QED
  BY <1>2, <1>3, <1>4

LEMMA SavedFoundServes == ASSUME FInv, SInv, SavedFound PROVE SInv'
<1> DEFINE u == [tui EXCEPT !.modal = "op"]
<1>1. Next1("SavedFound") /\ Quietly(u) /\ UNCHANGED <<engine, said, typed, dropped>>
  BY DEF SavedFound, Shows
<1>2. /\ u.op = tui.op /\ u.id = tui.id /\ u.input = tui.input /\ u.epoch = tui.epoch
      /\ u.queue = tui.queue
  BY Closed DEF UIs
<1>3. Head(events).ev = "SavedFound"
  BY <1>1, EventRead
<1> HIDE DEF u
<1>4. Heard(tui, u, Head(events))
  BY <1>2, <1>3 DEF Heard, LastWords, Hops
<1>5. QED
  BY <1>1, <1>4, HearsServes

LEMMA ModeShownServes == ASSUME FInv, SInv, ModeShown PROVE SInv'
<1> DEFINE u == [tui EXCEPT !.shown = Head(events).mode]
<1>1. Next1("ModeChanged") /\ Quietly(u) /\ UNCHANGED <<engine, said, typed, dropped>>
  BY DEF ModeShown, Shows
<1>2. /\ u.op = tui.op /\ u.id = tui.id /\ u.input = tui.input /\ u.epoch = tui.epoch
      /\ u.queue = tui.queue
  BY Closed DEF UIs
<1>3. Head(events).ev = "ModeChanged"
  BY <1>1, EventRead
<1> HIDE DEF u
<1>4. Heard(tui, u, Head(events))
  BY <1>2, <1>3 DEF Heard, LastWords, Hops
<1>5. QED
  BY <1>1, <1>4, HearsServes

----------------------------------------------------------------------------
(* What the UI reads keeps the prompts served: its confirmations *)

\* A confirmed prompt goes from the head of the queue to the prompts of the turn.
LEMMA ConfirmServes ==
  ASSUME NEW t, NEW u, NEW e, NEW os, NEW es \in Seq(EventRecs), es # <<>>, NEW sd, NEW dr, NEW ty,
         Serves(t, e, os, es, sd, dr, ty), Head(es).ev = "PromptDrained",
         u.op = t.op, u.id = t.id, u.input = t.input, u.epoch = t.epoch, t.op = "Prompt",
         t.queue \in Queues, t.queue.pending # <<>>, Head(t.queue.pending) = Head(es).prompt,
         u.queue.active = t.queue.active, u.queue.handBack = t.queue.handBack,
         u.queue.pending = Tail(t.queue.pending),
         u.queue.drained = Append(t.queue.drained, Head(es).prompt), ~SwitchAsked(u.queue)
  PROVE  Serves(u, e, os, Tail(es), sd, dr, ty)
<1> DEFINE x == Head(es)
           d == Tail(es)
           S == Spoken(sd)
           p == Head(es).prompt
           q == t.queue
           r == u.queue
<1>1. /\ Words(es) = {x.ev} \cup Words(d)
      /\ Confirms(es) = {} <=> Confirms(d) = {} /\ x.ev # "PromptDrained"
      /\ Mids(es) = {} <=> Mids(d) = {} /\ x.ev # "SessionCompactedMidTurn"
      /\ HopsIn(es) = {} <=> HopsIn(d) = {} /\ x.ev \notin Hops
      /\ Shown(es) = Shown(d) \cup {y \in {p} : x.ev = "PromptDrained"}
      /\ Later(es) = Later(d) \cup {y \in {p} : x.ev = "PromptDrained" /\ Mids(d) = {}}
      /\ Sooner(es) = Sooner(d) \cup {y \in {p} : x.ev = "PromptDrained" /\ Mids(d) # {}}
      /\ \A i \in EndsAt(t, d) : i + 1 \in EndsAt(t, es) /\ es[i + 1] = d[i]
  BY HeardView
<1>2. /\ Apart(q, t.input) /\ Lasts(t, e, os, es) /\ Fates(t, es)
      /\ Opening(t, e, os, es) /\ Recorded(t, e, os, es, S)
      /\ MarkAt(t, e, es, sd) /\ Sessions(t, e, es)
      /\ Homes(q, t.epoch, ty) /\ SaidWell(sd, ty) /\ Kept(t, S, dr, ty)
  BY DEF Serves
<1>3. /\ Own(x) => q.handBack \notin Lapses
      /\ d \in Seq(EventRecs)
      /\ \A i \in DOMAIN d :
           d[i].ev \in LastWords => Over(e, os) /\ \A j \in DOMAIN d : i < j => ~Own(d[j])
  BY <1>2, LastSilent
<1>4. /\ x.ev = "PromptDrained" /\ x.ev \notin Hops /\ x.ev # "SessionCompactedMidTurn" /\ Own(x)
      /\ x.ev # "PromptUnsent" /\ x.ev # "TurnRolledBack"
  BY DEF Hops, Own
<1>5. /\ q \in Queues /\ q.pending \in Seq(Prompt) /\ q.drained \in Seq(Prompt)
      /\ q.pending # <<>> /\ Head(q.pending) = p
      /\ r.active = q.active /\ r.handBack = q.handBack /\ r.pending = Tail(q.pending)
      /\ r.drained = Append(q.drained, p) /\ ~SwitchAsked(r)
  BY QueueFields
<1> HIDE DEF x, d, S, p, q, r
<1>6. /\ p \in Prompt /\ Elems(q.pending) = {p} \cup Elems(r.pending)
      /\ Once(q.pending) => Once(r.pending) /\ p \notin Elems(r.pending)
  BY <1>5, ElemsHead
<1>7. /\ Elems(r.drained) = Elems(q.drained) \cup {p}
      /\ Once(r.drained) <=> Once(q.drained) /\ p \notin Elems(q.drained)
  BY <1>5, <1>6, ElemsAppend
<1>8. /\ (Mids(d) = {} <=> Mids(es) = {}) /\ (HopsIn(d) = {} <=> HopsIn(es) = {})
      /\ Shown(es) = Shown(d) \cup {p} /\ Confirms(es) # {}
      /\ Mids(d) = {} => Later(es) = Later(d) \cup {p} /\ Sooner(es) = Sooner(d)
      /\ Mids(d) # {} => Later(es) = Later(d) /\ Sooner(es) = Sooner(d) \cup {p}
  BY <1>1, <1>4
<1>9. Fore(r) = Fore(q) \cup {p}
  BY <1>5, <1>6, <1>7 DEF Fore
<1>10. /\ Revocable(r, d) = Revocable(q, es) /\ Lasting(r, d) = Lasting(q, es)
  BY <1>8, <1>9 DEF Revocable, Lasting
<1>11. /\ Unsaid(r, d) = Unsaid(q, es) /\ Undone(r, d) = Undone(q, es)
       /\ Unbegun(u, e, os) = Unbegun(t, e, os)
       /\ \A i \in EndsAt(u, d) : i + 1 \in EndsAt(t, es) /\ es[i + 1] = d[i]
  BY <1>1, <1>4, <1>5 DEF Unsaid, Undone, Unbegun, EndsAt
<1>12. Absent(u, e, os, d) = Absent(t, e, os, es)
  BY <1>11 DEF Absent, q, r
<1>13. Held(u) = Held(t)
  BY <1>6, <1>9 DEF Held, q, r
<1>14. Apart(r, u.input)
  BY <1>2, <1>5, <1>6, <1>7 DEF Apart
<1>15. Lasts(u, e, os, d)
  BY <1>3, <1>4, <1>5 DEF Lasts, r
<1>16. ~Unsaid(q, es) /\ ~Unbegun(t, e, os)
  BY <1>2, <1>8 DEF Fates, Opening, q
<1>17. Fates(u, d)
  BY <1>2, <1>11, <1>16 DEF Fates, q, r
<1>18. Opening(u, e, os, d)
  BY <1>2, <1>5, <1>11, <1>16 DEF Opening, q, r
<1>19. Elems(r.pending) \ Shown(d) = Elems(q.pending) \ Shown(es)
  BY <1>2, <1>6, <1>8 DEF Apart
<1>20. Recorded(u, e, os, d, S)
  BY <1>2, <1>10, <1>12, <1>19 DEF Recorded, q, r
<1>21. MarkAt(u, e, d, sd) /\ Sessions(u, e, d)
  BY <1>2, <1>8, <1>10 DEF MarkAt, Sessions, q, r
<1>22. Homes(r, u.epoch, ty)
  BY <1>2, <1>5, <1>6, <1>9 DEF Homes, Aims
<1>23. Kept(u, S, dr, ty)
  BY <1>2, <1>13 DEF Kept
<1>24. QED
  BY <1>2, <1>14, <1>15, <1>17, <1>18, <1>20, <1>21, <1>22, <1>23 DEF Serves, S, d, r

LEMMA PromptDrainedServes == ASSUME FInv, AInv, SInv, PromptDrained PROVE SInv'
<1> DEFINE p == Head(events).prompt
           q == tui.queue
           y == ConfirmDrained(q, p)
           u == [tui EXCEPT !.queue = y]
<1>1. Next1("PromptDrained") /\ Quietly(u) /\ UNCHANGED <<engine, said, typed, dropped>>
  BY Closed DEF PromptDrained, Shows, UIs
<1>2. /\ events # <<>> /\ events' = Tail(events) /\ Head(events).ev = "PromptDrained"
      /\ tui.op = "Prompt"
  BY <1>1, EventRead, SpokenBy DEF TurnWords
<1>3. /\ tui \in UIs /\ engine \in Engines /\ ops \in Seq(Submissions) /\ q \in Queues
      /\ events \in Seq(EventRecs) /\ Agrees(tui, engine, ops, events) /\ Shaped(q, tui.op)
  BY Closed DEF AInv, Agrees
<1>4. PICK x \in Seq(Carried) : Lead(q) = Brought(events) \o x
  BY <1>2, <1>3, ReadLeaves
<1>5. Lead(q) = <<p>> \o x
  BY <1>2, <1>4 DEF Brought
<1>6. /\ Lead(q) \in Seq(Prompt) /\ Len(Lead(q)) = q.forwarded
      /\ \A i \in 1..q.forwarded : Lead(q)[i] = q.pending[i]
  BY <1>3, LeadFacts DEF Shaped
<1> HIDE DEF p, q
<1>7. q.forwarded > 0 /\ Lead(q)[1] = p
  <2>1. p \in Carried
    BY <1>2, <1>3, HeadTailProperties DEF p, EventRecs, Carried
  <2>2. <<p>> \in Seq(Carried) /\ Len(<<p>>) = 1 /\ <<p>>[1] = p
    BY <2>1
  <2>3. Len(Lead(q)) = 1 + Len(x) /\ Len(x) \in Nat /\ Lead(q)[1] = p
    BY <1>5, <2>2, ConcatProperties
  <2>4. QED
    BY <1>6, <2>3
<1>8. q.pending \in Seq(Prompt) /\ q.forwarded <= Len(q.pending) /\ q.forwarded \in Nat
  BY <1>3, QueueFields DEF Shaped
<1>9. q.pending # <<>> /\ Head(q.pending) = p
  <2>1. q.pending[1] = p /\ Len(q.pending) > 0
    BY <1>6, <1>7, <1>8
  <2>2. QED
    BY <1>8, <2>1, EmptySeq, HeadTailProperties
<1>10. /\ y.active = q.active /\ y.handBack = q.handBack /\ y.pending = Tail(q.pending)
       /\ y.drained = Append(q.drained, p) /\ y.switch = q.switch
  BY <1>3, <1>7, <1>9 DEF ConfirmDrained, Queues
<1>11. ~SwitchAsked(y)
  BY <1>2, <1>3, <1>7, <1>10 DEF Shaped, SwitchAsked, Switches
<1> HIDE DEF y
<1>12. /\ u.op = tui.op /\ u.id = tui.id /\ u.input = tui.input /\ u.epoch = tui.epoch
       /\ u.queue = y
  BY <1>3 DEF UIs
<1> HIDE DEF u
<1>13. Serves(tui, engine, ops, events, said, dropped, typed) /\ typed \in Histories
  BY Served
<1>14. Serves(u, engine, ops, Tail(events), said, dropped, typed)
  BY <1>2, <1>3, <1>9, <1>10, <1>11, <1>12, <1>13, ConfirmServes DEF p, q
<1>15. dropped' = dropped /\ typed' = typed
  BY <1>1
<1>16. QED
  BY <1>1, <1>2, <1>13, <1>14, <1>15, QuietServes

\* A summary keeps the prompts of the turn, which the UI forgets.
LEMMA SummaryServes ==
  ASSUME NEW t, NEW u, NEW e, NEW os, NEW es \in Seq(EventRecs), es # <<>>, NEW sd, NEW dr, NEW ty,
         Serves(t, e, os, es, sd, dr, ty), Head(es).ev = "SessionCompactedMidTurn",
         u.op = t.op, u.id = t.id, u.input = t.input, u.epoch = t.epoch, t.op = "Prompt",
         t.queue \in Queues,
         u.queue.active = NoPrompt, u.queue.handBack = "nothing", u.queue.drained = <<>>,
         u.queue.pending = t.queue.pending, u.queue.switch = t.queue.switch
  PROVE  Serves(u, e, os, Tail(es), sd, dr, ty)
<1> DEFINE x == Head(es)
           d == Tail(es)
           S == Spoken(sd)
           q == t.queue
           r == u.queue
<1>1. /\ Words(es) = {x.ev} \cup Words(d)
      /\ Confirms(es) = {} <=> Confirms(d) = {} /\ x.ev # "PromptDrained"
      /\ Mids(es) = {} <=> Mids(d) = {} /\ x.ev # "SessionCompactedMidTurn"
      /\ HopsIn(es) = {} <=> HopsIn(d) = {} /\ x.ev \notin Hops
      /\ Shown(es) = Shown(d) \cup {y \in {x.prompt} : x.ev = "PromptDrained"}
      /\ Later(es) = Later(d) \cup {y \in {x.prompt} : x.ev = "PromptDrained" /\ Mids(d) = {}}
      /\ Sooner(es) = Sooner(d) \cup {y \in {x.prompt} : x.ev = "PromptDrained" /\ Mids(d) # {}}
      /\ \A i \in EndsAt(t, d) : i + 1 \in EndsAt(t, es) /\ es[i + 1] = d[i]
  BY HeardView
<1>2. /\ Apart(q, t.input) /\ Lasts(t, e, os, es) /\ Fates(t, es)
      /\ Opening(t, e, os, es) /\ Recorded(t, e, os, es, S)
      /\ MarkAt(t, e, es, sd) /\ Sessions(t, e, es)
      /\ Homes(q, t.epoch, ty) /\ SaidWell(sd, ty) /\ Kept(t, S, dr, ty)
  BY DEF Serves
<1>3. /\ Own(x) => q.handBack \notin Lapses
      /\ d \in Seq(EventRecs)
      /\ \A i \in DOMAIN d :
           d[i].ev \in LastWords => Over(e, os) /\ \A j \in DOMAIN d : i < j => ~Own(d[j])
  BY <1>2, LastSilent
<1>4. /\ x.ev = "SessionCompactedMidTurn" /\ x.ev \notin Hops /\ Own(x)
      /\ x.ev # "PromptUnsent" /\ x.ev # "TurnRolledBack" /\ x.ev # "PromptDrained"
  BY DEF Hops, Own
<1>5. /\ q.pending \in Seq(Prompt) /\ r.active = NoPrompt /\ r.handBack = "nothing"
      /\ r.drained = <<>> /\ r.pending = q.pending /\ r.switch = q.switch
  BY QueueFields
<1> HIDE DEF x, d, S, q, r
<1>6. Elems(q.pending) \subseteq Prompt /\ Elems(<<>>) = {} /\ Once(<<>>)
  BY <1>5, ElemsFacts
<1>7. /\ Mids(es) # {} /\ (HopsIn(d) = {} <=> HopsIn(es) = {})
      /\ (Confirms(d) = {} <=> Confirms(es) = {})
      /\ Shown(es) = Shown(d) /\ Later(es) = Later(d) /\ Sooner(es) = Sooner(d)
  BY <1>1, <1>4
<1>8. Fore(r) = {}
  BY <1>5, <1>6, NoOnePrompt DEF Fore
<1>9. /\ Revocable(r, d) = Revocable(q, es) /\ Lasting(r, d) = Sooner(es)
      /\ Lasting(q, es) = Sooner(es) \cup Fore(q)
  BY <1>7, <1>8 DEF Revocable, Lasting
<1>10. q.handBack \notin Lapses /\ r.handBack \notin Lapses
  BY <1>3, <1>4, <1>5 DEF Lapses
<1>11. /\ Unsaid(r, d) = Unsaid(q, es) /\ Undone(r, d) = Undone(q, es)
       /\ Unbegun(u, e, os) = Unbegun(t, e, os)
       /\ \A i \in EndsAt(u, d) : i + 1 \in EndsAt(t, es) /\ es[i + 1] = d[i]
  BY <1>1, <1>4, <1>10 DEF Unsaid, Undone, Unbegun, EndsAt, Lapses
<1>12. Absent(u, e, os, d) = Absent(t, e, os, es)
  BY <1>11 DEF Absent, q, r
<1>13. ~Unbegun(t, e, os)
  BY <1>2, <1>7 DEF Opening
<1>14. Asked(os) = {} /\ e.phase \notin Openings
  BY <1>13 DEF Unbegun
<1>15. Apart(r, u.input)
  BY <1>2, <1>5, <1>6, NoOnePrompt DEF Apart
<1>16. Lasts(u, e, os, d)
  BY <1>3, <1>10 DEF Lasts, r
<1>17. Fates(u, d)
  BY <1>2, <1>5, <1>7, <1>11 DEF Fates, q, r
<1>18. Opening(u, e, os, d)
  BY <1>11, <1>13, <1>14 DEF Opening
<1>19. Recorded(u, e, os, d, S)
  BY <1>2, <1>5, <1>7, <1>9, <1>12 DEF Recorded, q, r
<1>20. MarkAt(u, e, d, sd) /\ Sessions(u, e, d)
  BY <1>2, <1>7, <1>9 DEF MarkAt, Sessions, q, r
<1>21. Homes(r, u.epoch, ty)
  BY <1>2, <1>5, <1>8 DEF Homes, Aims, SwitchAsked
<1>22. Kept(u, S, dr, ty)
  <2>1. Fore(q) \subseteq S
    BY <1>2, <1>9 DEF Recorded, q
  <2>2. QED
    BY <1>2, <1>5, <1>8, <2>1 DEF Kept, Held, q, r
<1>23. QED
  BY <1>2, <1>15, <1>16, <1>17, <1>18, <1>19, <1>20, <1>21, <1>22 DEF Serves, S, d, r

LEMMA SessionCompactedServes == ASSUME FInv, AInv, SInv, SessionCompacted PROVE SInv'
<1>1. CASE /\ Next1("SessionCompacted")
           /\ Shows([tui EXCEPT !.queue.handBack = "nothing", !.modal = "none"])
  <2> DEFINE q == [tui.queue EXCEPT !.handBack = "nothing"]
             u == [tui EXCEPT !.queue = q, !.modal = "none"]
  <2>1. /\ Quietly(u) /\ UNCHANGED <<engine, said, typed, dropped>> /\ Next1("SessionCompacted")
        /\ Head(events).ev = "SessionCompacted"
    BY <1>1, Closed, EventRead DEF Shows, UIs
  <2>2. /\ q.pending = tui.queue.pending /\ q.active = tui.queue.active
        /\ q.drained = tui.queue.drained /\ q.switch = tui.queue.switch /\ q.handBack = "nothing"
    BY Closed DEF Queues
  <2> HIDE DEF q
  <2>3. /\ u.op = tui.op /\ u.id = tui.id /\ u.input = tui.input /\ u.epoch = tui.epoch
        /\ u.queue = q
    BY Closed DEF UIs
  <2> HIDE DEF u
  <2>4. Heard(tui, u, Head(events))
    BY <2>1, <2>2, <2>3 DEF Heard, LastWords, Hops, Lapses, Own
  <2>5. QED
    BY <2>1, <2>4, HearsServes
<1>2. CASE /\ Next1("SessionCompactedMidTurn")
           /\ Shows([tui EXCEPT !.queue.handBack = "nothing",
                                !.queue.active = NoPrompt, !.queue.drained = <<>>])
  <2> DEFINE q == [tui.queue EXCEPT !.handBack = "nothing", !.active = NoPrompt, !.drained = <<>>]
             u == [tui EXCEPT !.queue = q]
  <2>1. /\ Quietly(u) /\ UNCHANGED <<engine, said, typed, dropped>>
        /\ Next1("SessionCompactedMidTurn")
    BY <1>2, Closed DEF Shows, UIs
  <2>2. /\ q.pending = tui.queue.pending /\ q.active = NoPrompt /\ q.drained = <<>>
        /\ q.switch = tui.queue.switch /\ q.handBack = "nothing"
    BY Closed DEF Queues
  <2> HIDE DEF q
  <2>3. /\ u.op = tui.op /\ u.id = tui.id /\ u.input = tui.input /\ u.epoch = tui.epoch
        /\ u.queue = q
    BY Closed DEF UIs
  <2> HIDE DEF u
  <2>4. /\ events # <<>> /\ events' = Tail(events) /\ Head(events).ev = "SessionCompactedMidTurn"
        /\ tui.op = "Prompt" /\ events \in Seq(EventRecs) /\ tui.queue \in Queues
    BY <2>1, Closed, EventRead, SpokenBy DEF TurnWords
  <2>5. Serves(tui, engine, ops, events, said, dropped, typed) /\ typed \in Histories
    BY Served
  <2>6. Serves(u, engine, ops, Tail(events), said, dropped, typed)
    BY <2>2, <2>3, <2>4, <2>5, SummaryServes
  <2>7. dropped' = dropped /\ typed' = typed
    BY <2>1
  <2>8. QED
    BY <2>1, <2>4, <2>5, <2>6, <2>7, QuietServes
<1>3. QED
  BY <1>1, <1>2 DEF SessionCompacted

----------------------------------------------------------------------------
(* What the UI reads keeps the prompts served: the switches *)

\* What a switch leaves of the queue.
LEMMA Discarded ==
  ASSUME NEW q \in Queues
  PROVE  LET r == DiscardLeftBehind([q EXCEPT !.active = NoPrompt])
         IN  /\ r.active = NoPrompt /\ r.drained = q.drained /\ r.handBack = q.handBack
             /\ r.pending = SubSeq(q.pending, LeftBehind(q) + 1, Len(q.pending)) /\ ~SwitchAsked(r)
<1> DEFINE c == [q EXCEPT !.active = NoPrompt]
           r == DiscardLeftBehind(c)
           s == SubSeq(c.pending, LeftBehind(c) + 1, Len(c.pending))
<1>1. /\ c.active = NoPrompt /\ c.drained = q.drained /\ c.handBack = q.handBack
      /\ c.pending = q.pending /\ c.switch = q.switch /\ c \in Queues
  BY DEF Queues
<1>2. LeftBehind(c) = LeftBehind(q)
  BY <1>1 DEF LeftBehind, SwitchAsked
<1>3. r = [c EXCEPT !.pending = s, !.switch = NoSwitch]
  BY DEF DiscardLeftBehind
<1>4. s = SubSeq(q.pending, LeftBehind(q) + 1, Len(q.pending))
  BY <1>1, <1>2
<1> HIDE DEF c, s, r
<1>5. /\ r.active = c.active /\ r.drained = c.drained /\ r.handBack = c.handBack
      /\ r.pending = s /\ r.switch = NoSwitch
  BY <1>1, <1>3 DEF Queues
<1>6. ~SwitchAsked(r)
  BY <1>5 DEF SwitchAsked, NoSwitch
<1>7. QED
  BY <1>1, <1>4, <1>5, <1>6 DEF r, c

\* A switch drops what was queued for the session it leaves, and what it keeps is at home in the
\* one it reaches.
LEMMA HopServes ==
  ASSUME NEW t \in UIs, NEW u \in UIs, NEW e, NEW os \in Seq(Submissions),
         NEW es \in Seq(EventRecs), es # <<>>, NEW sd \in Seq(Entries), NEW dr, NEW ty,
         Serves(t, e, os, es, sd, dr, ty), Head(es).ev \in Hops, t.op \in Switches,
         SwitchAsked(t.queue) => t.queue.switch.before <= Len(t.queue.pending),
         u.op = t.op, u.input = t.input, u.epoch = t.epoch + 1,
         u.queue = DiscardLeftBehind([t.queue EXCEPT !.active = NoPrompt])
  PROVE  Serves(u, e, os, Tail(es), sd,
                dr \cup {t.queue.pending[i] : i \in 1..LeftBehind(t.queue)}, ty)
<1> DEFINE x == Head(es)
           d == Tail(es)
           S == Spoken(sd)
           q == t.queue
           r == u.queue
           k == LeftBehind(q)
           a == SubSeq(q.pending, 1, k)
           gone == {q.pending[i] : i \in 1..k}
<1>1. /\ Apart(q, t.input) /\ Lasts(t, e, os, es) /\ Recorded(t, e, os, es, S)
      /\ Sessions(t, e, es) /\ Homes(q, t.epoch, ty) /\ SaidWell(sd, ty) /\ Kept(t, S, dr, ty)
  BY DEF Serves
<1>2. /\ q \in Queues /\ q.active \in Prompt \cup {NoPrompt} /\ q.pending \in Seq(Prompt)
      /\ q.drained \in Seq(Prompt) /\ k \in Nat /\ Len(q.pending) \in Nat
      /\ t.epoch \in Nat
  BY QueueFields DEF UIs
<1>3. k <= Len(q.pending)
  BY <1>2 DEF LeftBehind
<1>4. x.ev \in LastWords /\ x.ev # "PromptDrained"
  BY DEF LastWords, Hops
<1>5. d \in Seq(EventRecs) /\ Silent(d) /\ Over(e, os)
  BY <1>1, <1>4, LastSilent
<1>6. Shown(es) = {} /\ HopsIn(es) # {}
  BY <1>4, <1>5, HeardView, SilentView
<1>7. t.op \notin {"Prompt"}
  BY DEF Switches
<1>8. Fore(q) = {} /\ q.handBack \notin Lapses
  BY <1>1, <1>7 DEF Lasts
<1>9. q.drained = <<>>
  <2>1. Elems(q.drained) \subseteq Prompt /\ (q.drained # <<>> => 1 \in DOMAIN q.drained)
        /\ \A i \in DOMAIN q.drained : q.drained[i] \in Elems(q.drained)
    BY <1>2, ElemsFacts
  <2>2. QED
    BY <1>2, <1>8, <2>1 DEF Fore
<1>10. /\ r.active = NoPrompt /\ r.drained = <<>> /\ r.handBack = q.handBack
       /\ r.pending = SubSeq(q.pending, k + 1, Len(q.pending)) /\ ~SwitchAsked(r)
  BY <1>2, <1>9, Discarded
<1> HIDE DEF q, k, r, S, x, d
<1>11. /\ a \in Seq(Prompt) /\ r.pending \in Seq(Prompt) /\ q.pending = a \o r.pending
       /\ Len(a) = k /\ Len(r.pending) = Len(q.pending) - k
       /\ \A i \in 1..k : a[i] = q.pending[i]
       /\ \A i \in 1..Len(q.pending) - k : r.pending[i] = q.pending[k + i]
  <2> DEFINE s == q.pending
             b == SubSeq(s, k + 1, Len(s))
  <2>1. s \in Seq(Prompt) /\ k \in Nat /\ k <= Len(s) /\ r.pending = b
    BY <1>2, <1>3, <1>10
  <2> HIDE DEF s
  <2>2. /\ SubSeq(s, 1, k) \in Seq(Prompt) /\ b \in Seq(Prompt) /\ s = SubSeq(s, 1, k) \o b
        /\ Len(SubSeq(s, 1, k)) = k /\ Len(b) = Len(s) - k
        /\ \A i \in 1..k : SubSeq(s, 1, k)[i] = s[i]
        /\ \A i \in 1..Len(s) - k : b[i] = s[k + i]
    BY <2>1, Cut
  <2>3. a = SubSeq(s, 1, k)
    BY DEF s
  <2> HIDE DEF a, b
  <2>4. QED
    BY <2>1, <2>2, <2>3 DEF s
<1>12. Elems(a) = gone
  BY <1>11 DEF Elems
<1> HIDE DEF a, gone
<1>13. /\ Elems(q.pending) = gone \cup Elems(r.pending)
       /\ Once(q.pending) => Once(r.pending)
       /\ Elems(r.pending) \subseteq Prompt
  <2>1. Elems(q.pending) = Elems(a) \cup Elems(r.pending) /\ (Once(q.pending) => Once(r.pending))
    BY <1>11, ElemsConcat
  <2>2. Elems(r.pending) \subseteq Prompt
    BY <1>11, ElemsFacts
  <2>3. QED
    BY <1>12, <2>1, <2>2
<1>14. NoPrompt \notin S
  BY <1>1, NoOnePrompt DEF SaidWell, Spoken, S
<1>15. \A p \in Elems(r.pending) : ty[p].at # 0 /\ Home(ty[p], u.epoch)
  <2>1. SUFFICES ASSUME NEW p \in Elems(r.pending) PROVE ty[p].at # 0 /\ Home(ty[p], u.epoch)
    OBVIOUS
  <2>2. PICK i \in 1..Len(r.pending) : p = r.pending[i]
    BY DEF Elems
  <2>3. p = q.pending[k + i] /\ k + i > k /\ k + i \in 1..Len(q.pending)
    <3> DEFINE n == Len(q.pending)
    <3>1. n \in Nat /\ k \in Nat /\ k <= n /\ i \in 1..n - k
      BY <1>2, <1>3, <1>11
    <3> HIDE DEF n
    <3>2. k + i > k /\ k + i \in 1..n
      BY <3>1
    <3>3. p = q.pending[k + i]
      BY <1>11, <2>2, <3>1 DEF n
    <3>4. QED
      BY <3>2, <3>3 DEF n
  <2>4. SwitchAsked(q) /\ k = q.switch.before
    BY <1>2, <2>3 DEF LeftBehind, k
  <2>5. ty[p].late /\ ty[p].at = t.epoch
    BY <1>1, <2>3, <2>4 DEF Homes, Aims
  <2>6. ty[p].at # 0
    BY <1>1, <1>13 DEF Homes
  <2>7. QED
    BY <2>5, <2>6 DEF Home
<1> DEFINE new == dr \cup gone
<1>16. \A p \in Prompt : ty[p].at # 0 => p \in S \cup new \cup {NoPrompt, u.input} \cup Elems(r.pending)
  BY <1>1, <1>8, <1>13 DEF Kept, Held, q
<1>17. Elems(r.pending) \cap S = {} /\ u.input \notin S
  BY <1>1, <1>6, <1>13 DEF Recorded, q
<1>18. u.input \notin Elems(r.pending) /\ Once(r.pending)
  BY <1>1, <1>13 DEF Apart
<1>19. NoPrompt \notin Elems(r.pending)
  BY <1>13, NoOnePrompt
<1>20. Aims(r, u.epoch, ty)
  BY <1>10 DEF Aims
<1> HIDE DEF new
<1>21. r.handBack \notin Lapses
  BY <1>8, <1>10
<1>22. Holds(r, u.input, NoPrompt, u.epoch, S, new, ty)
  BY <1>10, <1>14, <1>15, <1>16, <1>17, <1>18, <1>19, <1>20, <1>21 DEF Holds
<1>23. Calm(u.epoch, e, d, sd, ty)
  BY <1>1, <1>2, <1>5, <1>6 DEF Calm, Sessions, Over
<1>24. u.op # "Prompt" /\ \A s \in Asked(os) : s.op # "Prompt"
  BY <1>5, <1>7 DEF Over
<1>25. Serves(u, e, os, d, sd, new, ty)
  BY <1>22, <1>23, <1>24, HoldsServes DEF r, S
<1>26. QED
  BY <1>25 DEF d, new, gone, k, q

LEMMA SessionSwitchedServes == ASSUME FInv, AInv, SInv, SessionSwitched PROVE SInv'
<1> DEFINE q == DiscardLeftBehind([tui.queue EXCEPT !.active = NoPrompt])
<1>1. /\ UNCHANGED <<engine, ops, said, typed>>
      /\ dropped' = dropped \cup {tui.queue.pending[i] : i \in 1..LeftBehind(tui.queue)}
      /\ \E ev \in Hops : \E m \in Modals :
           /\ Next1(ev) /\ tui' = [tui EXCEPT !.epoch = tui.epoch + 1, !.modal = m, !.queue = q]
  <2>1. CASE Next1("SessionRolled")
             /\ tui' = [tui EXCEPT !.epoch = @ + 1,
                           !.queue = DiscardLeftBehind([@ EXCEPT !.active = NoPrompt])]
    <3>1. /\ tui' = [tui EXCEPT !.epoch = tui.epoch + 1, !.modal = tui.modal, !.queue = q]
          /\ tui.modal \in Modals /\ "SessionRolled" \in Hops
      BY <2>1, Closed DEF UIs, Hops
    <3>2. QED
      BY <2>1, <3>1 DEF SessionSwitched
  <2>2. CASE Next1("SessionResumed")
             /\ tui' = [tui EXCEPT !.epoch = @ + 1, !.modal = "none",
                           !.queue = DiscardLeftBehind([@ EXCEPT !.active = NoPrompt])]
    <3>1. /\ tui' = [tui EXCEPT !.epoch = tui.epoch + 1, !.modal = "none", !.queue = q]
          /\ "none" \in Modals /\ "SessionResumed" \in Hops
      BY <2>2, Closed DEF UIs, Modals, Hops
    <3>2. QED
      BY <2>2, <3>1 DEF SessionSwitched
  <2>3. QED
    BY <2>1, <2>2 DEF SessionSwitched
<1>2. PICK ev \in Hops, m \in Modals :
        Next1(ev) /\ tui' = [tui EXCEPT !.epoch = tui.epoch + 1, !.modal = m, !.queue = q]
  BY <1>1
<1>3. /\ tui \in UIs /\ tui.queue \in Queues /\ tui.op \in Switches /\ Shaped(tui.queue, tui.op)
      /\ ops \in Seq(Submissions) /\ events \in Seq(EventRecs)
  BY <1>2, Closed, SpokenBy DEF AInv, Agrees
<1>4. q \in Queues
  BY <1>3, DiscardShapes
<1> DEFINE u == [tui EXCEPT !.epoch = tui.epoch + 1, !.modal = m, !.queue = q]
<1> HIDE DEF q
<1>5. u.op = tui.op /\ u.input = tui.input /\ u.epoch = tui.epoch + 1 /\ u.queue = q /\ tui' = u
  BY <1>2, <1>3 DEF UIs
<1>6. u \in UIs
  <2>1. tui.epoch + 1 \in Nat
    BY <1>3 DEF UIs
  <2>2. QED
    BY <1>3, <1>4, <2>1 DEF UIs
<1> HIDE DEF u
<1>7. /\ events # <<>> /\ events' = Tail(events) /\ Head(events).ev \in Hops
  BY <1>2, EventRead
<1>8. /\ typed \in Histories /\ engine.round <= MaxRounds - 1 /\ said \in Seq(Entries)
      /\ Serves(tui, engine, ops, events, said, dropped, typed)
  BY Served
<1>9. SwitchAsked(tui.queue) => tui.queue.switch.before <= Len(tui.queue.pending)
  BY <1>3 DEF Shaped
<1>10. Serves(u, engine, ops, events', said, dropped', typed)
  BY <1>1, <1>3, <1>5, <1>6, <1>7, <1>8, <1>9, HopServes DEF q
<1>11. QED
  BY <1>1, <1>5, <1>8, <1>10 DEF SInv

----------------------------------------------------------------------------
(* What the UI reads keeps the prompts served: the end of a turn *)

\* A queue with the same prompts and the same mark holds the same.
LEMMA HoldsSame ==
  ASSUME NEW q, NEW r, NEW input, NEW x, NEW epoch, NEW S, NEW dr, NEW ty,
         r.active = q.active, r.drained = q.drained, r.handBack = q.handBack,
         r.pending = q.pending, ~SwitchAsked(r) \/ r.switch = q.switch,
         Holds(q, input, x, epoch, S, dr, ty)
  PROVE  Holds(r, input, x, epoch, S, dr, ty)
<1>1. Aims(r, epoch, ty)
  BY DEF Holds, Aims, SwitchAsked
<1>2. QED
  BY <1>1 DEF Holds

\* What the end of a turn leaves of the queue.
LEMMA EndTurnFields ==
  ASSUME NEW q \in Queues
  PROVE  LET r == EndTurn(q)
         IN  /\ r \in Queues /\ r.active = NoPrompt /\ r.drained = <<>> /\ r.handBack = "nothing"
             /\ r.pending = q.pending /\ r.switch = q.switch
<1>1. EndTurn(q) \in Queues
  BY TurnTypes
<1>2. QED
  BY <1>1 DEF EndTurn, Queues

\* The UI holds the prompts of a turn that is not in the conversation.
Parted(q, input, epoch, S, dr, ty) ==
  /\ Apart(q, input) /\ (Fore(q) \cup Elems(q.pending)) \cap S = {}
  /\ input \notin S /\ NoPrompt \notin S /\ Homes(q, epoch, ty)
  /\ \A p \in Prompt : ty[p].at # 0 => p \in S \cup dr \cup {input} \cup Fore(q) \cup Elems(q.pending)

\* Its queued prompts go back to the head of the queue.
LEMMA UndrainedHolds ==
  ASSUME NEW q \in Queues, NEW input, NEW epoch, NEW S, NEW dr, NEW ty,
         Parted(q, input, epoch, S, dr, ty)
  PROVE  LET z == PushFront([q EXCEPT !.drained = <<>>], q.drained)
         IN  z \in Queues /\ Holds(EndTurn(z), input, z.active, epoch, S, dr, ty)
<1> DEFINE c == [q EXCEPT !.drained = <<>>]
           z == PushFront(c, q.drained)
           r == EndTurn(z)
<1>1. /\ Apart(q, input) /\ (Fore(q) \cup Elems(q.pending)) \cap S = {}
      /\ input \notin S /\ NoPrompt \notin S /\ Homes(q, epoch, ty)
      /\ \A p \in Prompt :
           ty[p].at # 0 => p \in S \cup dr \cup {input} \cup Fore(q) \cup Elems(q.pending)
  BY DEF Parted
<1>2. /\ q.active \in Prompt \cup {NoPrompt} /\ q.pending \in Seq(Prompt)
      /\ q.drained \in Seq(Prompt)
  BY QueueFields
<1>3. c \in Queues /\ c.pending = q.pending /\ c.switch = q.switch /\ c.active = q.active
  BY QueueConstants DEF Queues
<1> HIDE DEF c
<1>4. Aims(c, epoch, ty)
  BY <1>1, <1>3 DEF Homes, Aims, SwitchAsked
<1>5. /\ z \in Queues /\ z.active = q.active /\ z.pending = q.drained \o q.pending
      /\ Aims(z, epoch, ty)
  <2> DEFINE d == q.drained
             y == PushFront(c, d)
  <2>1. d \in Seq(Prompt)
    BY <1>2
  <2> HIDE DEF d
  <2>2. y \in Queues /\ y.active = c.active /\ y.pending = d \o c.pending
    BY <1>3, <1>4, <2>1, AimsFront
  <2>3. Aims(y, epoch, ty)
    BY <1>3, <1>4, <2>1, AimsFront
  <2>4. QED
    BY <1>3, <2>2, <2>3 DEF d
<1> HIDE DEF z
<1>6. /\ r.active = NoPrompt /\ r.drained = <<>> /\ r.handBack = "nothing"
      /\ r.pending = q.drained \o q.pending /\ r.switch = z.switch
  BY <1>5, EndTurnFields
<1> HIDE DEF r
<1>7. /\ Elems(r.pending) = Elems(q.drained) \cup Elems(q.pending)
      /\ Once(r.pending) <=> Once(q.drained) /\ Once(q.pending) /\ Elems(q.drained) \cap Elems(q.pending) = {}
  BY <1>2, <1>6, ElemsConcat
<1>8. Elems(q.drained) \subseteq Prompt /\ Elems(q.pending) \subseteq Prompt
  BY <1>2, ElemsFacts
<1>9. Fore(q) = Elems(q.drained) \cup ({q.active} \cap Prompt)
  BY <1>8 DEF Fore
<1>10. Once(r.pending) /\ input \notin Elems(r.pending) /\ z.active \notin Elems(r.pending)
  BY <1>1, <1>5, <1>7 DEF Apart
<1>11. z.active # NoPrompt => z.active # input /\ ty[z.active].at # 0 /\ Home(ty[z.active], epoch)
  BY <1>1, <1>2, <1>5, <1>9 DEF Apart, Homes
<1>12. z.active \notin S
  BY <1>1, <1>2, <1>5, <1>9
<1>13. Elems(r.pending) \cap S = {}
  BY <1>1, <1>7, <1>9
<1>14. \A p \in Elems(r.pending) : ty[p].at # 0 /\ Home(ty[p], epoch)
  BY <1>1, <1>7, <1>9 DEF Homes
<1>15. Aims(r, epoch, ty)
  BY <1>5, <1>6 DEF Aims, SwitchAsked
<1>16. \A p \in Prompt :
         ty[p].at # 0 => p \in S \cup dr \cup {z.active, input} \cup Elems(r.pending)
  BY <1>1, <1>5, <1>7, <1>9
<1>17. Holds(r, input, z.active, epoch, S, dr, ty)
  BY <1>1, <1>6, <1>10, <1>11, <1>12, <1>13, <1>14, <1>15, <1>16 DEF Holds, Lapses
<1>18. QED
  BY <1>5, <1>17 DEF r, z, c

\* It has taken nothing from the queue.
LEMMA UnsentHolds ==
  ASSUME NEW q \in Queues, NEW input, NEW epoch, NEW S, NEW dr, NEW ty,
         Parted(q, input, epoch, S, dr, ty), q.drained = <<>>
  PROVE  Holds(EndTurn(q), input, q.active, epoch, S, dr, ty)
<1> DEFINE r == EndTurn(q)
<1>1. /\ Apart(q, input) /\ (Fore(q) \cup Elems(q.pending)) \cap S = {}
      /\ input \notin S /\ NoPrompt \notin S /\ Homes(q, epoch, ty)
      /\ \A p \in Prompt :
           ty[p].at # 0 => p \in S \cup dr \cup {input} \cup Fore(q) \cup Elems(q.pending)
  BY DEF Parted
<1>2. q.active \in Prompt \cup {NoPrompt} /\ q.pending \in Seq(Prompt)
  BY QueueFields
<1>3. /\ r.active = NoPrompt /\ r.drained = <<>> /\ r.handBack = "nothing"
      /\ r.pending = q.pending /\ r.switch = q.switch
  BY EndTurnFields
<1> HIDE DEF r
<1>4. Elems(<<>>) = {}
  BY EmptySeq, ElemsFacts
<1>5. Fore(q) = {q.active} \cap Prompt
  BY <1>4 DEF Fore
<1>6. q.active # NoPrompt => q.active # input /\ ty[q.active].at # 0 /\ Home(ty[q.active], epoch)
  BY <1>1, <1>2, <1>5 DEF Apart, Homes
<1>7. q.active \notin S
  BY <1>1, <1>2, <1>5
<1>8. Aims(r, epoch, ty)
  BY <1>1, <1>3 DEF Homes, Aims, SwitchAsked
<1>9. \A p \in Prompt :
         ty[p].at # 0 => p \in S \cup dr \cup {q.active, input} \cup Elems(r.pending)
  BY <1>1, <1>3, <1>5
<1>10. /\ Once(r.pending) /\ input \notin Elems(r.pending) /\ q.active \notin Elems(r.pending)
       /\ Elems(r.pending) \cap S = {}
       /\ \A p \in Elems(r.pending) : ty[p].at # 0 /\ Home(ty[p], epoch)
  BY <1>1, <1>3 DEF Apart, Homes
<1>11. Holds(r, input, q.active, epoch, S, dr, ty)
  BY <1>1, <1>3, <1>6, <1>7, <1>8, <1>9, <1>10 DEF Holds, Lapses
<1>12. QED
  BY <1>11 DEF r

\* The prompt the turn began with goes back to the input, or to the head of the queue.
LEMMA RestoredHolds ==
  ASSUME NEW z \in Queues, NEW input, NEW epoch, NEW S, NEW dr, NEW ty,
         Holds(EndTurn(z), input, z.active, epoch, S, dr, ty), NoPrompt \notin S,
         NEW b, b => input = NoPrompt
  PROVE  LET y == Restored(z, b)
         IN  /\ y.queue \in Queues
             /\ Holds(EndTurn(y.queue), IF y.input = NoPrompt THEN input ELSE y.input, NoPrompt,
                      epoch, S, dr, ty)
<1> DEFINE c == [z EXCEPT !.active = NoPrompt]
           p == z.active
           y == Restored(z, b)
           k == EndTurn(z)
           f == PushFront(c, <<p>>)
<1>1. /\ c \in Queues /\ c.active = NoPrompt /\ c.pending = z.pending /\ c.switch = z.switch
      /\ p \in Prompt \cup {NoPrompt} /\ z.pending \in Seq(Prompt)
  BY QueueFields DEF Queues
<1>2. /\ k \in Queues /\ k.active = NoPrompt /\ k.drained = <<>> /\ k.handBack = "nothing"
      /\ k.pending = z.pending /\ k.switch = z.switch
  BY EndTurnFields
<1>3. CASE p = NoPrompt
  <2>1. y.queue = z /\ y.input = NoPrompt
    BY <1>3 DEF Restored
  <2>2. QED
    BY <1>3, <2>1
<1>4. CASE p # NoPrompt /\ b
  <2>1. y.queue = c /\ y.input = p
    BY <1>4 DEF Restored
  <2> DEFINE r == EndTurn(c)
  <2>2. /\ r.active = NoPrompt /\ r.drained = <<>> /\ r.handBack = "nothing"
        /\ r.pending = z.pending /\ r.switch = z.switch
    BY <1>1, EndTurnFields
  <2> HIDE DEF r, k, c, p
  <2>3. Holds(k, NoPrompt, p, epoch, S, dr, ty)
    BY <1>4 DEF k, p
  <2>4. Holds(k, p, NoPrompt, epoch, S, dr, ty)
    BY <2>3, <1>4 DEF Holds
  <2>5. Holds(r, p, NoPrompt, epoch, S, dr, ty)
    BY <1>2, <2>2, <2>4, HoldsSame
  <2>6. QED
    BY <1>1, <1>4, <2>1, <2>5 DEF r, c, p
<1>5. CASE p # NoPrompt /\ ~b
  <2>1. y.queue = f /\ y.input = NoPrompt
    BY <1>5 DEF Restored
  <2>2. p \in Prompt
    BY <1>1, <1>5
  <2> DEFINE g == PushFront(k, <<p>>)
             r == EndTurn(f)
             o == <<p>>
  <2>3. Len(o) = 1 /\ o \in Seq(Prompt)
    BY <2>2
  <2>4. f \in Queues /\ f.pending = o \o z.pending
        /\ f.switch = [z.switch EXCEPT !.before = IF SwitchAsked(c) THEN @ + Len(o) ELSE @]
    BY <1>1, <2>3, PushFrontTypes DEF PushFront, Queues
  <2>5. g \in Queues /\ g.pending = o \o z.pending
        /\ g.switch = [z.switch EXCEPT !.before = IF SwitchAsked(k) THEN @ + Len(o) ELSE @]
        /\ g.active = NoPrompt /\ g.drained = <<>> /\ g.handBack = "nothing"
    BY <1>2, <2>3, PushFrontTypes DEF PushFront, Queues
  <2>6. SwitchAsked(c) <=> SwitchAsked(k)
    BY <1>1, <1>2 DEF SwitchAsked
  <2> HIDE DEF c, p, f
  <2>7. /\ r.active = NoPrompt /\ r.drained = <<>> /\ r.handBack = "nothing"
        /\ r.pending = f.pending /\ r.switch = f.switch
    BY <2>4, EndTurnFields
  <2> HIDE DEF k
  <2>8. Holds(k, input, p, epoch, S, dr, ty)
    BY DEF k, p
  <2>9. Holds(g, input, NoPrompt, epoch, S, dr, ty)
    BY <1>2, <2>2, <2>8, HoldsFront
  <2> HIDE DEF g, r, o
  <2>10. Holds(r, input, NoPrompt, epoch, S, dr, ty)
    <3>1. g.switch = f.switch
      BY <2>4, <2>5, <2>6
    <3>2. QED
      BY <2>4, <2>5, <2>7, <2>9, <3>1, HoldsSame
  <2>11. QED
    BY <1>5, <2>1, <2>4, <2>10 DEF r, f, p, c
<1>6. QED
  BY <1>3, <1>4, <1>5

\* Nothing is left to do or to say when the end of an operation is read.
LEMMA EndFlight ==
  ASSUME NEW t, NEW e, NEW os, NEW es \in Seq(EventRecs), es # <<>>,
         Flight(t, e, os, es), 1 \in EndsAt(t, es)
  PROVE  e.phase = "idle" /\ Asked(os) = {} /\ Silent(es) /\ Silent(Tail(es))
<1>1. /\ EndsAt(t, es) # {} => e.phase = "idle" /\ Asks(os) = {}
      /\ \A i \in EndsAt(t, es) : \A j \in DOMAIN es : j > i => ~Own(es[j]) /\ j \notin EndsAt(t, es)
  BY DEF Flight, Stages, Tells
<1>2. e.phase = "idle" /\ Asks(os) = {}
  BY <1>1
<1>3. ~Own(es[1])
  BY DEF EndsAt, Own
<1>4. \A j \in DOMAIN es : j = 1 \/ j > 1
  BY Placed
<1>5. Silent(es)
  BY <1>1, <1>3, <1>4 DEF Silent
<1>6. QED
  BY <1>2, <1>5, AskedNone, HeardView

\* What the end of an operation leaves in the queue and puts in the input.
Settlement(t, end) ==
  IF end = "Failed" \/ (end = "Cancelled" /\ t.queue.handBack = "unsentPrompt")
  THEN FailTurn(t.queue, t.input = NoPrompt)
  ELSE [queue |-> t.queue, input |-> NoPrompt, goesOn |-> TRUE]

\* What it leaves has its type.
LEMMA SettlementTypes ==
  ASSUME NEW t \in UIs, NEW end
  PROVE  LET s == Settlement(t, end)
         IN  s.queue \in Queues /\ s.input \in Prompt \cup {NoPrompt}
<1>1. t.queue \in Queues
  BY DEF UIs
<1>2. QED
  BY <1>1, FailTypes DEF Settlement

\* Whatever it hands back, the UI holds.
LEMMA SettlementHolds ==
  ASSUME NEW t \in UIs, NEW e, NEW os, NEW es \in Seq(EventRecs), es # <<>>, NEW sd, NEW dr, NEW ty,
         Serves(t, e, os, es, sd, dr, ty), Flight(t, e, os, es), 1 \in EndsAt(t, es)
  PROVE  LET s == Settlement(t, Head(es).end)
         IN  Holds(EndTurn(s.queue), IF s.input = NoPrompt THEN t.input ELSE s.input, NoPrompt,
                   t.epoch, Spoken(sd), dr, ty)
<1> DEFINE q == t.queue
           S == Spoken(sd)
           end == Head(es).end
           s == Settlement(t, end)
           input == IF s.input = NoPrompt THEN t.input ELSE s.input
<1>1. /\ Apart(q, t.input) /\ Fates(t, es) /\ Recorded(t, e, os, es, S)
      /\ Homes(q, t.epoch, ty) /\ SaidWell(sd, ty) /\ Kept(t, S, dr, ty)
  BY DEF Serves
<1>2. e.phase = "idle" /\ Asked(os) = {} /\ Silent(es)
  BY EndFlight
<1>3. /\ Revocable(q, es) = Fore(q) /\ Shown(es) = {}
      /\ Unsaid(q, es) <=> q.handBack = "unsentPrompt"
      /\ Undone(q, es) <=> q.handBack = "rolledBackTurn"
  BY <1>2, SilentView
<1>4. Head(es) = es[1]
  BY HeadAndTail
<1>5. /\ q.handBack = "unsentPrompt" => q.drained = <<>> /\ end \in {"Cancelled", "Failed"}
      /\ q.handBack = "rolledBackTurn" => end = "Failed"
  BY <1>1, <1>3, <1>4 DEF Fates
<1>6. Absent(t, e, os, es) <=> q.handBack \in Lapses
  BY <1>2, <1>3 DEF Absent, Unbegun, Openings, Lapses
<1>7. IF q.handBack \in Lapses THEN Fore(q) \cap S = {} ELSE Fore(q) \subseteq S
  BY <1>1, <1>3, <1>6 DEF Recorded
<1>8. t.input \notin S /\ Elems(q.pending) \cap S = {}
  BY <1>1, <1>3 DEF Recorded
<1>9. /\ q \in Queues /\ q.pending \in Seq(Prompt) /\ q.handBack \in HandBacks
      /\ q.active \in Prompt \cup {NoPrompt}
  BY QueueFields DEF UIs
<1>10. NoPrompt \notin S /\ NoPrompt \notin Elems(q.pending)
  <2>1. Elems(q.pending) \subseteq Prompt
    BY <1>9, ElemsFacts
  <2>2. QED
    BY <1>1, <2>1, NoOnePrompt DEF SaidWell, Spoken
<1>11. \A p \in Prompt :
         ty[p].at # 0 => p \in S \cup dr \cup {t.input} \cup Fore(q) \cup Elems(q.pending)
  BY <1>1 DEF Kept, Held
<1>12. CASE q.handBack \notin Lapses
  <2>1. s.queue = q /\ s.input = NoPrompt
    BY <1>9, <1>12 DEF Settlement, FailTurn, HandBacks, Lapses
  <2> DEFINE r == EndTurn(q)
  <2>2. /\ r.active = NoPrompt /\ r.drained = <<>> /\ r.handBack = "nothing"
        /\ r.pending = q.pending /\ r.switch = q.switch
    BY <1>9, EndTurnFields
  <2> HIDE DEF r, q, S, s
  <2>3. Aims(r, t.epoch, ty)
    BY <1>1, <2>2 DEF Homes, Aims, SwitchAsked
  <2>4. /\ \A p \in Elems(r.pending) : ty[p].at # 0 /\ Home(ty[p], t.epoch)
        /\ Once(r.pending) /\ t.input \notin Elems(r.pending)
    BY <1>1, <2>2 DEF Homes, Apart
  <2>5. \A p \in Prompt : ty[p].at # 0 => p \in S \cup dr \cup {NoPrompt, t.input} \cup Elems(r.pending)
    BY <1>7, <1>11, <1>12, <2>2
  <2>6. Holds(r, t.input, NoPrompt, t.epoch, S, dr, ty)
    BY <1>8, <1>10, <2>2, <2>3, <2>4, <2>5 DEF Holds, Lapses
  <2>7. QED
    BY <2>1, <2>6 DEF s, r, S
<1>13. CASE q.handBack \in Lapses
  <2> DEFINE b == t.input = NoPrompt
  <2>1. Parted(q, t.input, t.epoch, S, dr, ty)
    <3>1. (Fore(q) \cup Elems(q.pending)) \cap S = {}
      BY <1>7, <1>8, <1>13
    <3> HIDE DEF q, S
    <3>2. QED
      BY <1>1, <1>8, <1>10, <1>11, <3>1 DEF Parted
  <2>2. CASE q.handBack = "unsentPrompt"
    <3> DEFINE y == Restored(q, b /\ q.pending = <<>>)
    <3>1. s.queue = y.queue /\ s.input = y.input
      BY <1>5, <2>2 DEF Settlement, FailTurn
    <3>2. Holds(EndTurn(q), t.input, q.active, t.epoch, S, dr, ty)
      BY <1>5, <1>9, <2>1, <2>2, UnsentHolds
    <3> HIDE DEF q, S
    <3>3. Holds(EndTurn(y.queue), IF y.input = NoPrompt THEN t.input ELSE y.input, NoPrompt,
                t.epoch, S, dr, ty)
      BY <1>9, <1>10, <3>2, RestoredHolds
    <3> HIDE DEF y, s
    <3>4. QED
      BY <3>1, <3>3 DEF s, S
  <2>3. CASE q.handBack = "rolledBackTurn"
    <3> DEFINE z == PushFront([q EXCEPT !.drained = <<>>], q.drained)
               y == Restored(z, b)
    <3>1. s.queue = y.queue /\ s.input = y.input
      BY <1>5, <2>3 DEF Settlement, FailTurn
    <3>2. z \in Queues /\ Holds(EndTurn(z), t.input, z.active, t.epoch, S, dr, ty)
      BY <1>9, <2>1, UndrainedHolds
    <3> HIDE DEF q, S, z
    <3>3. Holds(EndTurn(y.queue), IF y.input = NoPrompt THEN t.input ELSE y.input, NoPrompt,
                t.epoch, S, dr, ty)
      BY <1>10, <3>2, RestoredHolds
    <3> HIDE DEF y, s
    <3>4. QED
      BY <3>1, <3>3 DEF s, S
  <2>4. QED
    BY <1>13, <2>2, <2>3 DEF Lapses
<1>14. QED
  BY <1>12, <1>13

\* Reading the end of the operation in flight leaves the prompts served.
LEMMA EndOperationServes ==
  ASSUME ops \in Seq(Submissions), Len(ops) <= OpCap, NEW t \in UIs, NEW e,
         NEW es \in Seq(EventRecs), es # <<>>, NEW sd, NEW dr, NEW ty,
         Serves(t, e, ops, es, sd, dr, ty), Flight(t, e, ops, es), 1 \in EndsAt(t, es)
  PROVE  LET r == EndOperation(t, Head(es).end)
         IN  Serves(r.tui, e, ops \o r.sent, Tail(es), sd, dr, ty)
<1> DEFINE end == Head(es).end
           s == Settlement(t, end)
           goesOn == s.goesOn /\ end # "Cancelled"
           over == EndTurn(s.queue)
           queue == IF t.activity = "cancelling" THEN LeaveToUser(over)
                    ELSE IF goesOn THEN over ELSE [over EXCEPT !.held = TRUE]
           input == IF s.input = NoPrompt THEN t.input ELSE s.input
           idle == [t EXCEPT !.queue = queue, !.op = "none", !.id = 0, !.activity = "none",
                        !.input = input, !.awaits = Open(t)]
           r == EndOperation(t, end)
           d == Tail(es)
           S == Spoken(sd)
<1>1. r = IF idle.awaits THEN [tui |-> idle, sent |-> <<>>] ELSE DrainPending(idle)
  BY DEF EndOperation, Settlement, UIs
<1>2. /\ s.queue \in Queues /\ s.input \in Prompt \cup {NoPrompt}
      /\ t.input \in Prompt \cup {NoPrompt}
  BY SettlementTypes DEF UIs
<1>3. Holds(over, input, NoPrompt, t.epoch, S, dr, ty)
  BY SettlementHolds
<1>4. over \in Queues
  BY <1>2, TurnTypes
<1> HIDE DEF s, over, S
<1>5. queue \in Queues /\ Holds(queue, input, NoPrompt, t.epoch, S, dr, ty)
  <2>1. queue \in Queues
    BY <1>4, TurnTypes
  <2>2. /\ queue.active = over.active /\ queue.drained = over.drained
        /\ queue.handBack = over.handBack /\ queue.pending = over.pending
        /\ ~SwitchAsked(queue) \/ queue.switch = over.switch
    BY <1>4 DEF LeaveToUser, Queues, SwitchAsked, NoSwitch
  <2> HIDE DEF queue
  <2>3. QED
    BY <1>3, <2>1, <2>2, HoldsSame
<1> HIDE DEF queue
<1>6. input \in Prompt \cup {NoPrompt}
  BY <1>2
<1> HIDE DEF input
<1>7. /\ idle \in UIs /\ idle.op = "none" /\ idle.queue = queue /\ idle.input = input
      /\ idle.epoch = t.epoch /\ idle.awaits = Open(t)
  <2>1. Open(t) \in BOOLEAN
    BY DEF Open
  <2>2. QED
    BY <1>5, <1>6, <2>1 DEF UIs
<1> HIDE DEF idle, r
<1>8. e.phase = "idle" /\ Asked(ops) = {} /\ Silent(es) /\ Silent(d)
  BY EndFlight
<1>9. Calm(t.epoch, e, d, sd, ty)
  <2>1. Sessions(t, e, es) /\ SaidWell(sd, ty)
    BY DEF Serves
  <2>2. HopsIn(es) = {} /\ d \in Seq(EventRecs)
    BY <1>8, SilentView, HeadTailProperties
  <2>3. QED
    BY <1>8, <2>1, <2>2 DEF Calm, Sessions
<1> HIDE DEF d
<1>10. Holds(idle.queue, idle.input, NoPrompt, idle.epoch, S, dr, ty)
  BY <1>5, <1>7
<1>11. CASE idle.awaits
  <2>1. r.tui = idle /\ r.sent = <<>>
    BY <1>1, <1>11
  <2>2. ops \o r.sent = ops
    BY <2>1, ConcatEmptySeq
  <2>3. Serves(idle, e, ops, d, sd, dr, ty)
    BY <1>7, <1>8, <1>9, <1>10, HoldsServes DEF S
  <2>4. QED
    BY <2>1, <2>2, <2>3 DEF r, d
<1>12. CASE ~idle.awaits
  <2>1. r = DrainPending(idle)
    BY <1>1, <1>12
  <2>2. Fine(idle, r, e, d, sd, dr, ty)
    BY <1>7, <1>8, <1>9, <1>10, <2>1, DrainPendingServes DEF S, Busy
  <2>3. Serves(r.tui, e, ops \o r.sent, d, sd, dr, ty)
    BY <1>7, <1>8, <1>9, <2>2, FineServes
  <2>4. QED
    BY <2>3 DEF r, d
<1>13. QED
  BY <1>11, <1>12

LEMMA EndedServes == ASSUME FInv, SInv, Ended PROVE SInv'
<1>1. Next1("OpEnded") /\ UNCHANGED <<engine, said, typed, dropped>>
  BY DEF Ended
<1>2. /\ tui \in UIs /\ engine \in Engines /\ ops \in Seq(Submissions) /\ Len(ops) <= OpCap
      /\ events \in Seq(EventRecs) /\ Flight(tui, engine, ops, events)
  BY Closed
<1>3. /\ events # <<>> /\ events' = Tail(events) /\ Head(events) = events[1]
      /\ Head(events).ev = "OpEnded" /\ 1 \in DOMAIN events
  BY <1>1, EventRead
<1>4. typed' = typed /\ dropped' = dropped /\ typed \in Histories
      /\ Serves(tui, engine, ops, events, said, dropped, typed)
  BY <1>1, Served
<1>5. CASE Busy(tui) /\ Head(events).id = tui.id
  <2> DEFINE r == EndOperation(tui, Head(events).end)
  <2>1. Pass(r)
    BY <1>5 DEF Ended
  <2>2. 1 \in EndsAt(tui, events)
    BY <1>3, <1>5 DEF EndsAt
  <2>3. Serves(r.tui, engine, ops \o r.sent, events', said, dropped, typed)
    BY <1>2, <1>3, <1>4, <2>2, EndOperationServes
  <2> HIDE DEF r
  <2>4. QED
    BY <1>1, <1>4, <2>1, <2>3, PassServes
<1>6. CASE ~(Busy(tui) /\ Head(events).id = tui.id)
  <2>1. Quietly(tui)
    BY <1>6 DEF Ended, Quietly
  <2>2. Heard(tui, tui, Head(events))
    BY <1>3 DEF Heard, LastWords, Hops
  <2>3. QED
    BY <1>1, <2>1, <2>2, HearsServes
<1>7. QED
  BY <1>5, <1>6

LEMMA EventServes == ASSUME FInv, AInv, SInv, HandleEvent PROVE SInv'
BY SetActivityServes, PromptDrainedServes, HandedBackServes, SessionCompactedServes,
   SessionSwitchedServes, SavedFoundServes, ModeShownServes, EndedServes DEF HandleEvent

----------------------------------------------------------------------------
(* What the engine does with the prompts *)

\* The engine goes on, or ends, with no prompt moved.
Goes(t, e, f, os, ns) ==
  /\ Asked(ns) \subseteq Asked(os) /\ (Unbegun(t, f, ns) <=> Unbegun(t, e, os))
  /\ f.phase \in Openings => f.prompt = t.queue.active
  /\ f.phase \in Begun => e.phase \in Begun /\ f.mark = e.mark
  /\ f.session = e.session /\ (Over(e, os) => Over(f, ns))

\* Nothing said is about a prompt, a switch or the end of the operation.
Mutters(t, evs) ==
  /\ \A i \in DOMAIN evs :
       evs[i].ev \notin {"PromptDrained", "SessionCompactedMidTurn"} \cup LastWords
  /\ EndsAt(t, evs) = {}

\* Such events say nothing of the prompts.
LEMMA MutterView ==
  ASSUME NEW t, NEW es \in Seq(EventRecs), NEW evs \in Seq(EventRecs), Mutters(t, evs)
  PROVE  LET d == es \o evs
         IN  /\ d \in Seq(EventRecs)
             /\ Confirms(d) = {} <=> Confirms(es) = {}
             /\ Mids(d) = {} <=> Mids(es) = {}
             /\ HopsIn(d) = {} <=> HopsIn(es) = {}
             /\ Shown(d) = Shown(es) /\ Later(d) = Later(es) /\ Sooner(d) = Sooner(es)
             /\ \A q : (Unsaid(q, d) <=> Unsaid(q, es)) /\ (Undone(q, d) <=> Undone(q, es))
             /\ \A q : Revocable(q, d) = Revocable(q, es) /\ Lasting(q, d) = Lasting(q, es)
<1> DEFINE d == es \o evs
<1>1. /\ \A i \in DOMAIN evs :
           evs[i].ev \notin {"PromptDrained", "SessionCompactedMidTurn"} \cup LastWords
      /\ EndsAt(t, evs) = {}
  BY DEF Mutters
<1>2. /\ Confirms(evs) = {} /\ Mids(evs) = {} /\ HopsIn(evs) = {}
      /\ "PromptUnsent" \notin Words(evs) /\ "TurnRolledBack" \notin Words(evs)
  BY <1>1 DEF Confirms, Mids, HopsIn, Words, LastWords
<1>3. Shown(evs) = {} /\ Later(evs) = {} /\ Sooner(evs) = {}
  BY <1>2, Placed
<1>4. /\ d \in Seq(EventRecs)
      /\ Words(d) = Words(es) \cup Words(evs)
      /\ Confirms(d) = {} <=> Confirms(es) = {} /\ Confirms(evs) = {}
      /\ Mids(d) = {} <=> Mids(es) = {} /\ Mids(evs) = {}
      /\ HopsIn(d) = {} <=> HopsIn(es) = {} /\ HopsIn(evs) = {}
      /\ Shown(d) = Shown(es) \cup Shown(evs)
      /\ Mids(evs) = {} => Later(d) = Later(es) \cup Later(evs) /\ Sooner(d) = Sooner(es)
  BY SaidView
<1> HIDE DEF d
<1>5. /\ Shown(d) = Shown(es) /\ Later(d) = Later(es) /\ Sooner(d) = Sooner(es)
      /\ Mids(d) = {} <=> Mids(es) = {}
  BY <1>2, <1>3, <1>4
<1>6. /\ \A q : (Unsaid(q, d) <=> Unsaid(q, es)) /\ (Undone(q, d) <=> Undone(q, es))
      /\ \A q : Revocable(q, d) = Revocable(q, es) /\ Lasting(q, d) = Lasting(q, es)
  BY <1>2, <1>4, <1>5 DEF Unsaid, Undone, Revocable, Lasting
<1>7. QED
  BY <1>2, <1>4, <1>5, <1>6 DEF d

\* They leave the prompts served.
LEMMA MuttersServes ==
  ASSUME NEW t, NEW e, NEW f, NEW os, NEW ns, NEW es \in Seq(EventRecs),
         NEW evs \in Seq(EventRecs), NEW sd, NEW dr, NEW ty,
         Serves(t, e, os, es, sd, dr, ty), Goes(t, e, f, os, ns), Mutters(t, evs),
         Silent(evs) \/ ~Over(e, os)
  PROVE  Serves(t, f, ns, es \o evs, sd, dr, ty)
<1> DEFINE d == es \o evs
           q == t.queue
           S == Spoken(sd)
<1>1. /\ Apart(q, t.input) /\ Lasts(t, e, os, es) /\ Fates(t, es)
      /\ Opening(t, e, os, es) /\ Recorded(t, e, os, es, S)
      /\ MarkAt(t, e, es, sd) /\ Sessions(t, e, es)
      /\ Homes(q, t.epoch, ty) /\ SaidWell(sd, ty) /\ Kept(t, S, dr, ty)
  BY DEF Serves
<1>2. /\ d \in Seq(EventRecs)
      /\ Confirms(d) = {} <=> Confirms(es) = {}
      /\ Mids(d) = {} <=> Mids(es) = {}
      /\ HopsIn(d) = {} <=> HopsIn(es) = {}
      /\ Shown(d) = Shown(es)
      /\ (Unsaid(q, d) <=> Unsaid(q, es)) /\ (Undone(q, d) <=> Undone(q, es))
      /\ Revocable(q, d) = Revocable(q, es) /\ Lasting(q, d) = Lasting(q, es)
  BY MutterView
<1>3. Joined(es, evs, d, Len(es))
  BY ConcatFacts
<1>4. /\ Asked(ns) \subseteq Asked(os) /\ (Unbegun(t, f, ns) <=> Unbegun(t, e, os))
      /\ f.phase \in Openings => f.prompt = q.active
      /\ f.phase \in Begun => e.phase \in Begun /\ f.mark = e.mark
      /\ f.session = e.session /\ (Over(e, os) => Over(f, ns))
  BY DEF Goes
<1>5. \A i \in EndsAt(t, d) : i \in EndsAt(t, es) /\ d[i] = es[i]
  BY <1>3 DEF Mutters, EndsAt, Joined
<1>6. \A i \in DOMAIN evs : evs[i].ev \notin LastWords
  BY DEF Mutters
<1> HIDE DEF d, S
<1>7. Lasts(t, f, ns, d)
  <2>1. t.op # "Prompt" => Fore(q) = {} /\ q.handBack \notin Lapses
    BY <1>1 DEF Lasts
  <2>2. ASSUME NEW i \in DOMAIN d, d[i].ev \in LastWords
        PROVE  Over(f, ns) /\ \A j \in DOMAIN d : i < j => ~Own(d[j])
    <3>1. i \in DOMAIN es /\ d[i] = es[i]
      BY <1>3, <1>6, <2>2 DEF Joined
    <3>2. Over(e, os) /\ \A j \in DOMAIN es : i < j => ~Own(es[j])
      BY <1>1, <2>2, <3>1 DEF Lasts
    <3>3. Silent(evs)
      BY <3>2
    <3>4. \A j \in DOMAIN d : i < j => ~Own(d[j])
      BY <1>3, <3>2, <3>3 DEF Joined, Silent
    <3>5. QED
      BY <1>4, <3>2, <3>4
  <2>3. q.handBack \in Lapses => Over(f, ns) /\ Silent(d)
    <3>1. SUFFICES ASSUME q.handBack \in Lapses PROVE Over(f, ns) /\ Silent(d)
      OBVIOUS
    <3>2. Over(e, os) /\ Silent(es)
      BY <1>1, <3>1 DEF Lasts
    <3>3. Silent(d)
      BY <3>2, SaidView DEF d
    <3>4. QED
      BY <1>4, <3>2, <3>3
  <2>4. QED
    BY <2>1, <2>2, <2>3 DEF Lasts
<1>8. Fates(t, d)
  BY <1>1, <1>2, <1>5 DEF Fates
<1>9. Opening(t, f, ns, d)
  <2>1. /\ Unbegun(t, f, ns) => /\ q.active \in Prompt /\ q.drained = <<>>
                                /\ Confirms(d) = {} /\ Mids(d) = {}
    BY <1>1, <1>2, <1>4 DEF Opening
  <2>2. \A s \in Asked(ns) : s.op = "Prompt" => s.prompt = q.active
    BY <1>1, <1>4 DEF Opening
  <2>3. QED
    BY <1>4, <2>1, <2>2 DEF Opening
<1>10. Absent(t, f, ns, d) <=> Absent(t, e, os, es)
  BY <1>2, <1>4 DEF Absent
<1>11. Recorded(t, f, ns, d, S)
  BY <1>1, <1>2, <1>10 DEF Recorded
<1>12. MarkAt(t, f, d, sd) /\ Sessions(t, f, d)
  BY <1>1, <1>2, <1>4 DEF MarkAt, Sessions
<1>13. QED
  BY <1>1, <1>7, <1>8, <1>9, <1>11, <1>12 DEF Serves, d, S

\* The end of an operation that is over is told.
LEMMA OwnEndServes ==
  ASSUME NEW t, NEW e, NEW os, NEW es \in Seq(EventRecs), NEW x \in EventRecs,
         NEW sd, NEW dr, NEW ty, Serves(t, e, os, es, sd, dr, ty), Over(e, os),
         x.ev = "OpEnded", Unsaid(t.queue, es) => x.end \in {"Cancelled", "Failed"},
         Undone(t.queue, es) => x.end = "Failed"
  PROVE  Serves(t, e, os, es \o <<x>>, sd, dr, ty)
<1> DEFINE o == <<x>>
           d == es \o o
           q == t.queue
           S == Spoken(sd)
<1>1. /\ Apart(q, t.input) /\ Lasts(t, e, os, es) /\ Fates(t, es)
      /\ Opening(t, e, os, es) /\ Recorded(t, e, os, es, S)
      /\ MarkAt(t, e, es, sd) /\ Sessions(t, e, es)
      /\ Homes(q, t.epoch, ty) /\ SaidWell(sd, ty) /\ Kept(t, S, dr, ty)
  BY DEF Serves
<1>2. /\ o \in Seq(EventRecs) /\ DOMAIN o = {1} /\ o[1] = x
      /\ Words(o) = {x.ev} /\ Mids(o) = {k \in {1} : x.ev = "SessionCompactedMidTurn"}
      /\ HopsIn(o) = {k \in {1} : x.ev \in Hops}
      /\ Confirms(o) = {k \in {1} : x.ev = "PromptDrained"}
      /\ Silent(o) <=> ~Own(x)
  BY OneView
<1>3. /\ Mids(o) = {} /\ HopsIn(o) = {} /\ Confirms(o) = {} /\ Silent(o)
      /\ "PromptUnsent" \notin Words(o) /\ "TurnRolledBack" \notin Words(o)
  BY <1>2 DEF Own, Hops
<1>4. Shown(o) = {} /\ Later(o) = {} /\ Sooner(o) = {}
  BY <1>2, <1>3, Placed
<1> HIDE DEF o
<1>5. Joined(es, o, d, Len(es))
  BY <1>2, ConcatFacts
<1>6. /\ d \in Seq(EventRecs)
      /\ Words(d) = Words(es) \cup Words(o)
      /\ Confirms(d) = {} <=> Confirms(es) = {} /\ Confirms(o) = {}
      /\ Mids(d) = {} <=> Mids(es) = {} /\ Mids(o) = {}
      /\ HopsIn(d) = {} <=> HopsIn(es) = {} /\ HopsIn(o) = {}
      /\ Silent(d) <=> Silent(es) /\ Silent(o)
      /\ Shown(d) = Shown(es) \cup Shown(o)
      /\ Mids(o) = {} => Later(d) = Later(es) \cup Later(o) /\ Sooner(d) = Sooner(es)
  BY <1>2, SaidView
<1> HIDE DEF d
<1>7. \A i \in EndsAt(t, d) : (i \in EndsAt(t, es) /\ d[i] = es[i]) \/ d[i] = x
  BY <1>2, <1>5 DEF EndsAt, Joined
<1>8. /\ (Unsaid(q, d) <=> Unsaid(q, es)) /\ (Undone(q, d) <=> Undone(q, es))
      /\ Revocable(q, d) = Revocable(q, es) /\ Lasting(q, d) = Lasting(q, es)
  BY <1>3, <1>4, <1>6 DEF Unsaid, Undone, Revocable, Lasting
<1>9. Lasts(t, e, os, d)
  <2>1. ASSUME NEW i \in DOMAIN d, d[i].ev \in LastWords
        PROVE  \A j \in DOMAIN d : i < j => ~Own(d[j])
    <3>1. i \in DOMAIN es /\ d[i] = es[i]
      BY <1>2, <1>5, <2>1 DEF Joined, LastWords, Hops
    <3>2. \A j \in DOMAIN es : i < j => ~Own(es[j])
      BY <1>1, <2>1, <3>1 DEF Lasts
    <3>3. QED
      BY <1>3, <1>5, <3>2 DEF Joined, Silent
  <2>2. QED
    BY <1>1, <1>3, <1>6, <2>1 DEF Lasts
<1>10. Fates(t, d)
  BY <1>1, <1>3, <1>6, <1>7, <1>8 DEF Fates
<1>11. Opening(t, e, os, d)
  BY <1>1, <1>3, <1>6 DEF Opening
<1>12. Absent(t, e, os, d) <=> Absent(t, e, os, es)
  BY <1>8 DEF Absent
<1>13. Recorded(t, e, os, d, S)
  BY <1>1, <1>4, <1>6, <1>8, <1>12 DEF Recorded
<1>14. MarkAt(t, e, d, sd) /\ Sessions(t, e, d)
  BY <1>1, <1>3, <1>6, <1>8 DEF MarkAt, Sessions
<1>15. QED
  BY <1>1, <1>9, <1>10, <1>11, <1>13, <1>14 DEF Serves, d, S, o

----------------------------------------------------------------------------
(* The last words of an operation *)

\* What a last word adds to what was said.
LEMMA WordView ==
  ASSUME NEW es \in Seq(EventRecs), NEW x \in EventRecs, x.ev \in LastWords
  PROVE  LET d == es \o <<x>>
         IN  /\ d \in Seq(EventRecs) /\ Joined(es, <<x>>, d, Len(es))
             /\ DOMAIN <<x>> = {1} /\ <<x>>[1] = x
             /\ Words(d) = Words(es) \cup {x.ev}
             /\ Confirms(d) = {} <=> Confirms(es) = {}
             /\ Mids(d) = {} <=> Mids(es) = {}
             /\ HopsIn(d) = {} <=> HopsIn(es) = {} /\ x.ev \notin Hops
             /\ Shown(d) = Shown(es)
             /\ \A q : Revocable(q, d) = Revocable(q, es) /\ Lasting(q, d) = Lasting(q, es)
<1> DEFINE o == <<x>>
           d == es \o o
<1>1. /\ o \in Seq(EventRecs) /\ DOMAIN o = {1} /\ o[1] = x
      /\ Words(o) = {x.ev} /\ Mids(o) = {k \in {1} : x.ev = "SessionCompactedMidTurn"}
      /\ HopsIn(o) = {k \in {1} : x.ev \in Hops}
      /\ Confirms(o) = {k \in {1} : x.ev = "PromptDrained"}
  BY OneView
<1>2. Mids(o) = {} /\ Confirms(o) = {} /\ (HopsIn(o) = {} <=> x.ev \notin Hops)
  BY <1>1 DEF LastWords, Hops
<1>3. Shown(o) = {} /\ Later(o) = {} /\ Sooner(o) = {}
  BY <1>1, <1>2, Placed
<1> HIDE DEF o
<1>4. d \in Seq(EventRecs) /\ Joined(es, o, d, Len(es))
  BY <1>1, ConcatFacts
<1>5. /\ Words(d) = Words(es) \cup Words(o)
      /\ Confirms(d) = {} <=> Confirms(es) = {} /\ Confirms(o) = {}
      /\ Mids(d) = {} <=> Mids(es) = {} /\ Mids(o) = {}
      /\ HopsIn(d) = {} <=> HopsIn(es) = {} /\ HopsIn(o) = {}
      /\ Shown(d) = Shown(es) \cup Shown(o)
      /\ Mids(o) = {} => Later(d) = Later(es) \cup Later(o) /\ Sooner(d) = Sooner(es)
  BY <1>1, SaidView
<1> HIDE DEF d
<1>6. /\ Shown(d) = Shown(es) /\ Later(d) = Later(es) /\ Sooner(d) = Sooner(es)
      /\ Mids(d) = {} <=> Mids(es) = {}
  BY <1>2, <1>3, <1>5
<1>7. \A q : Revocable(q, d) = Revocable(q, es) /\ Lasting(q, d) = Lasting(q, es)
  BY <1>6 DEF Revocable, Lasting
<1>8. QED
  BY <1>1, <1>2, <1>4, <1>5, <1>6, <1>7 DEF d, o

\* A running operation has not lapsed.
LEMMA Running ==
  ASSUME NEW t, NEW e, NEW os, NEW es, Lasts(t, e, os, es), ~Over(e, os)
  PROVE  /\ HopsIn(es) = {} /\ ~Unsaid(t.queue, es) /\ ~Undone(t.queue, es)
         /\ t.queue.handBack \notin Lapses /\ \A i \in DOMAIN es : es[i].ev \notin LastWords
<1>1. t.queue.handBack \notin Lapses /\ \A i \in DOMAIN es : es[i].ev \notin LastWords
  BY DEF Lasts
<1>2. t.queue.handBack # "unsentPrompt" /\ t.queue.handBack # "rolledBackTurn"
  BY <1>1 DEF Lapses
<1>3. "PromptUnsent" \notin Words(es) /\ "TurnRolledBack" \notin Words(es) /\ HopsIn(es) = {}
  BY <1>1 DEF Words, HopsIn, LastWords
<1>4. QED
  BY <1>1, <1>2, <1>3 DEF Unsaid, Undone

\* The last word of an operation ends it.
LEMMA WordServes ==
  ASSUME NEW t, NEW e, NEW f, NEW os, NEW ns, NEW es \in Seq(EventRecs), NEW x \in EventRecs,
         NEW sd, NEW dr, NEW ty, Serves(t, e, os, es, sd, dr, ty), ~Over(e, os),
         EndsAt(t, es) = {}, f.phase = "idle", Asked(ns) = {}, x.ev \in LastWords,
         x.ev = "PromptUnsent" => t.queue.drained = <<>> /\ Confirms(es) = {}
  PROVE  LET d == es \o <<x>>
         IN  /\ Apart(t.queue, t.input) /\ Homes(t.queue, t.epoch, ty)
             /\ Lasts(t, f, ns, d) /\ Fates(t, d) /\ Opening(t, f, ns, d)
             /\ \A z : MarkAt(t, f, d, z)
<1> DEFINE d == es \o <<x>>
           q == t.queue
<1>1. /\ Apart(q, t.input) /\ Lasts(t, e, os, es) /\ Homes(q, t.epoch, ty)
  BY DEF Serves
<1>2. /\ DOMAIN <<x>> = {1} /\ <<x>>[1] = x /\ Words(d) = Words(es) \cup {x.ev}
      /\ Confirms(d) = {} <=> Confirms(es) = {}
      /\ Joined(es, <<x>>, d, Len(es))
  BY WordView
<1>3. /\ q.handBack \notin Lapses /\ \A i \in DOMAIN es : es[i].ev \notin LastWords
      /\ ~Unsaid(q, es) /\ ~Undone(q, es)
  BY <1>1, Running
<1>4. Over(f, ns)
  BY DEF Over
<1> HIDE DEF d
<1>5. Lasts(t, f, ns, d)
  <2>1. ASSUME NEW i \in DOMAIN d, d[i].ev \in LastWords, NEW j \in DOMAIN d, i < j
        PROVE  FALSE
    <3>1. i = Len(es) + 1
      BY <1>2, <1>3, <2>1 DEF Joined
    <3>2. j <= Len(es) + 1
      BY <1>2 DEF Joined
    <3>3. j \in Nat /\ Len(es) \in Nat
      BY <1>2 DEF Joined
    <3>4. QED
      BY <2>1, <3>1, <3>2, <3>3
  <2>2. QED
    BY <1>1, <1>3, <1>4, <2>1 DEF Lasts
<1>6. x.ev # "OpEnded"
  BY DEF LastWords, Hops
<1>7. EndsAt(t, d) = {}
  BY <1>2, <1>6 DEF EndsAt, Joined
<1>8. Fates(t, d)
  BY <1>2, <1>3, <1>7 DEF Fates, Unsaid
<1>9. Opening(t, f, ns, d)
  BY DEF Opening, Unbegun, Openings
<1>10. \A z : MarkAt(t, f, d, z)
  BY DEF MarkAt, Begun
<1>11. QED
  BY <1>1, <1>5, <1>8, <1>9, <1>10 DEF d

\* A turn that was not recorded lapses.
LEMMA UnsentServes ==
  ASSUME NEW t, NEW e, NEW f, NEW os, NEW ns, NEW es \in Seq(EventRecs), NEW x \in EventRecs,
         NEW sd, NEW dr, NEW ty, Serves(t, e, os, es, sd, dr, ty), ~Over(e, os),
         EndsAt(t, es) = {}, f.phase = "idle", Asked(ns) = {}, x.ev = "PromptUnsent",
         Unbegun(t, e, os), f.session = e.session
  PROVE  Serves(t, f, ns, es \o <<x>>, sd, dr, ty)
<1> DEFINE d == es \o <<x>>
           q == t.queue
           S == Spoken(sd)
<1>1. /\ Lasts(t, e, os, es) /\ Opening(t, e, os, es) /\ Recorded(t, e, os, es, S)
      /\ Sessions(t, e, es) /\ SaidWell(sd, ty) /\ Kept(t, S, dr, ty)
  BY DEF Serves
<1>2. x.ev \in LastWords /\ x.ev \notin Hops
  BY DEF LastWords, Hops
<1>3. q.drained = <<>> /\ Confirms(es) = {}
  BY <1>1 DEF Opening
<1>4. /\ Apart(q, t.input) /\ Homes(q, t.epoch, ty)
      /\ Lasts(t, f, ns, d) /\ Fates(t, d) /\ Opening(t, f, ns, d) /\ MarkAt(t, f, d, sd)
  BY <1>2, <1>3, WordServes
<1>5. /\ Words(d) = Words(es) \cup {x.ev} /\ Shown(d) = Shown(es)
      /\ HopsIn(d) = {} <=> HopsIn(es) = {}
      /\ Revocable(q, d) = Revocable(q, es) /\ Lasting(q, d) = Lasting(q, es)
  BY <1>2, WordView
<1> HIDE DEF d, S
<1>6. Absent(t, f, ns, d) /\ Absent(t, e, os, es)
  BY <1>5 DEF Absent, Unsaid
<1>7. Recorded(t, f, ns, d, S)
  BY <1>1, <1>5, <1>6 DEF Recorded
<1>8. Sessions(t, f, d)
  BY <1>1, <1>5 DEF Sessions
<1>9. QED
  BY <1>1, <1>4, <1>7, <1>8 DEF Serves, d, S

\* A switch reaches its session.
LEMMA ReachedServes ==
  ASSUME NEW t, NEW e, NEW f, NEW os, NEW ns, NEW es \in Seq(EventRecs), NEW x \in EventRecs,
         NEW sd, NEW dr, NEW ty, Serves(t, e, os, es, sd, dr, ty), ~Over(e, os),
         EndsAt(t, es) = {}, f.phase = "idle", Asked(ns) = {}, x.ev \in Hops,
         t.op # "Prompt", f.session = e.session + 1
  PROVE  Serves(t, f, ns, es \o <<x>>, sd, dr, ty)
<1> DEFINE d == es \o <<x>>
           q == t.queue
           S == Spoken(sd)
<1>1. /\ Lasts(t, e, os, es) /\ Recorded(t, e, os, es, S)
      /\ Sessions(t, e, es) /\ SaidWell(sd, ty) /\ Kept(t, S, dr, ty)
  BY DEF Serves
<1>2. x.ev \in LastWords /\ x.ev # "PromptUnsent" /\ x.ev # "TurnRolledBack"
  BY DEF LastWords, Hops
<1>3. /\ Apart(q, t.input) /\ Homes(q, t.epoch, ty)
      /\ Lasts(t, f, ns, d) /\ Fates(t, d) /\ Opening(t, f, ns, d) /\ MarkAt(t, f, d, sd)
  BY <1>2, WordServes
<1>4. /\ Words(d) = Words(es) \cup {x.ev} /\ Shown(d) = Shown(es)
      /\ HopsIn(d) # {}
      /\ Revocable(q, d) = Revocable(q, es) /\ Lasting(q, d) = Lasting(q, es)
  BY <1>2, WordView
<1>5. HopsIn(es) = {} /\ ~Unsaid(q, es) /\ ~Undone(q, es) /\ q.handBack \notin Lapses
  BY <1>1, Running
<1> HIDE DEF d, S
<1>6. ~Absent(t, f, ns, d) /\ ~Absent(t, e, os, es)
  BY <1>2, <1>4, <1>5 DEF Absent, Unsaid, Undone, Unbegun
<1>7. Recorded(t, f, ns, d, S)
  BY <1>1, <1>4, <1>6 DEF Recorded
<1>8. Sessions(t, f, d)
  BY <1>1, <1>4, <1>5 DEF Sessions
<1>9. QED
  BY <1>1, <1>3, <1>7, <1>8 DEF Serves, d, S

\* The first `m` of what was said.
LEMMA SaidFirst ==
  ASSUME NEW sd \in Seq(Entries), NEW m \in 0..Len(sd)
  PROVE  LET w == SubSeq(sd, 1, m)
         IN  /\ w \in Seq(Entries) /\ DOMAIN w = 1..m /\ \A i \in 1..m : i \in DOMAIN sd /\ w[i] = sd[i]
             /\ DOMAIN sd = 1..Len(sd) /\ m \in Nat
<1>1. SubSeq(sd, 1, m) \in Seq(Entries) /\ Len(SubSeq(sd, 1, m)) = m
      /\ \A i \in 1..m : SubSeq(sd, 1, m)[i] = sd[i]
  BY Cut
<1> DEFINE w == SubSeq(sd, 1, m)
<1> HIDE DEF w
<1>2. w \in Seq(Entries) /\ Len(w) = m /\ \A i \in 1..m : w[i] = sd[i]
  BY <1>1 DEF w
<1>3. QED
  BY <1>2 DEF w

\* A refused turn is taken out of the conversation.
LEMMA RefusedServes ==
  ASSUME NEW t, NEW e, NEW f, NEW os, NEW ns, NEW es \in Seq(EventRecs), NEW x \in EventRecs,
         NEW sd \in Seq(Entries), NEW dr, NEW ty, Serves(t, e, os, es, sd, dr, ty), ~Over(e, os),
         EndsAt(t, es) = {}, f.phase = "idle", Asked(ns) = {}, Asked(os) = {},
         x.ev = "TurnRolledBack", e.phase \in Begun, e.mark \in 0..Len(sd), f.session = e.session,
         Shown(es) \subseteq Elems(t.queue.pending)
  PROVE  Serves(t, f, ns, es \o <<x>>, SubSeq(sd, 1, e.mark), dr, ty)
<1> DEFINE d == es \o <<x>>
           w == SubSeq(sd, 1, e.mark)
           q == t.queue
           S == Spoken(sd)
           W == Spoken(w)
           R == Revocable(q, es)
<1>1. /\ Lasts(t, e, os, es) /\ Recorded(t, e, os, es, S) /\ MarkAt(t, e, es, sd)
      /\ Sessions(t, e, es) /\ SaidWell(sd, ty) /\ Kept(t, S, dr, ty)
  BY DEF Serves
<1>2. x.ev \in LastWords /\ x.ev \notin Hops
  BY DEF LastWords, Hops
<1>3. /\ Apart(q, t.input) /\ Homes(q, t.epoch, ty)
      /\ Lasts(t, f, ns, d) /\ Fates(t, d) /\ Opening(t, f, ns, d) /\ MarkAt(t, f, d, w)
  BY <1>2, WordServes
<1>4. /\ Words(d) = Words(es) \cup {x.ev} /\ Shown(d) = Shown(es)
      /\ HopsIn(d) = {} <=> HopsIn(es) = {}
      /\ Revocable(q, d) = R /\ Lasting(q, d) = Lasting(q, es)
  BY <1>2, WordView
<1>5. ~Unsaid(q, es) /\ ~Undone(q, es)
  BY <1>1, Running
<1>6. /\ DOMAIN w = 1..e.mark /\ \A i \in 1..e.mark : i \in DOMAIN sd /\ w[i] = sd[i]
      /\ DOMAIN sd = 1..Len(sd) /\ e.mark \in Nat /\ Len(sd) \in Nat
  BY SaidFirst
<1>7. \A i \in DOMAIN sd : sd[i].prompt \in R <=> i > e.mark
  BY <1>1 DEF MarkAt
<1> HIDE DEF d, w, R
<1>8. ~Absent(t, e, os, es) /\ Absent(t, f, ns, d)
  BY <1>4, <1>5 DEF Absent, Unbegun, Undone, Openings, Begun
<1>9. W = S \ R
  <2>1. W \subseteq S \ R
    <3>1. SUFFICES ASSUME NEW i \in DOMAIN w PROVE w[i].prompt \in S \ R
      BY DEF Spoken
    <3>2. i \in 1..e.mark /\ i \in DOMAIN sd /\ w[i] = sd[i] /\ ~(i > e.mark)
      BY <1>6
    <3>3. QED
      BY <1>7, <3>2 DEF Spoken
  <2>2. S \ R \subseteq W
    <3>1. SUFFICES ASSUME NEW i \in DOMAIN sd, sd[i].prompt \notin R PROVE sd[i].prompt \in W
      BY DEF Spoken
    <3>2. i \in 1..e.mark
      BY <1>6, <1>7, <3>1
    <3>3. QED
      BY <1>6, <3>2 DEF Spoken
  <2>3. QED
    BY <2>1, <2>2
<1> HIDE DEF W
<1>10. Recorded(t, f, ns, d, W)
  BY <1>1, <1>4, <1>8, <1>9 DEF Recorded, R
<1>11. Sessions(t, f, d)
  BY <1>1, <1>4 DEF Sessions
<1>12. SaidWell(w, ty)
  BY <1>1, <1>6 DEF SaidWell
<1>13. Kept(t, W, dr, ty)
  <2>1. R \subseteq Shown(es) \cup Fore(q)
    <3>1. Later(es) \subseteq Shown(es)
      BY Placed
    <3>2. QED
      BY <3>1 DEF Revocable, R
  <2>2. R \subseteq Held(t)
    BY <2>1 DEF Held
  <2>3. QED
    BY <1>1, <1>9, <2>2 DEF Kept
<1>14. QED
  BY <1>3, <1>10, <1>11, <1>12, <1>13 DEF Serves, d, w, W

----------------------------------------------------------------------------
(* What a turn takes into the conversation *)

\* The prompts the confirmations show are those they carry.
LEMMA ConfirmedElems == \A es \in Seq(EventRecs) : Shown(es) = Elems(Confirmed(es))
<1> DEFINE T == {s \in Seq(EventRecs) : Shown(s) = Elems(Confirmed(s))}
<1>1. <<>> \in T
  <2>1. <<>> \in Seq(EventRecs) /\ Confirmed(<<>>) = <<>> /\ <<>> \in Seq(Prompt)
    BY SaysNothing
  <2>2. Shown(<<>>) = {}
    BY DEF Shown, Confirms
  <2>3. Elems(<<>>) = {}
    BY <2>1, ElemsFacts
  <2>4. QED
    BY <2>1, <2>2, <2>3
<1>2. ASSUME NEW s \in Seq(EventRecs), s \in T, NEW m \in EventRecs
      PROVE  Append(s, m) \in T
  <2> DEFINE o == <<m>>
  <2>1. Append(s, m) = s \o o /\ o \in Seq(EventRecs)
    BY <1>2
  <2>2. /\ DOMAIN o = {1} /\ o[1] = m /\ Confirms(o) = {k \in {1} : m.ev = "PromptDrained"}
    BY OneView
  <2>3. Confirmed(o) = IF m.ev = "PromptDrained" THEN <<m.prompt>> ELSE <<>>
    BY ConfirmedOne
  <2> HIDE DEF o
  <2>4. Confirmed(s \o o) = Confirmed(s) \o Confirmed(o)
    BY <2>1, ConfirmedConcat
  <2>5. s \o o \in Seq(EventRecs) /\ Shown(s \o o) = Shown(s) \cup Shown(o)
    BY <2>1, SaidView
  <2>6. Shown(o) = Elems(Confirmed(o))
    <3>1. CASE m.ev = "PromptDrained"
      <4>1. Shown(o) = {m.prompt}
        BY <2>2, <3>1 DEF Shown
      <4>2. QED
        BY <2>3, <3>1, <4>1, ElemsOne
    <3>2. CASE m.ev # "PromptDrained"
      <4>1. Shown(o) = {}
        BY <2>2, <3>2 DEF Shown
      <4>2. <<>> \in Seq(Prompt)
        OBVIOUS
      <4>3. QED
        BY <2>3, <3>2, <4>1, <4>2, ElemsFacts
    <3>3. QED
      BY <3>1, <3>2
  <2>7. Confirmed(s) \in Seq(Carried) /\ Confirmed(o) \in Seq(Carried)
    BY <2>1, SequenceTypes, EmptySeq
  <2>8. Elems(Confirmed(s \o o)) = Elems(Confirmed(s)) \cup Elems(Confirmed(o))
    BY <2>4, <2>7, ElemsConcat
  <2>9. QED
    BY <1>2, <2>1, <2>5, <2>6, <2>8
<1> HIDE DEF T
<1>3. \A s \in Seq(EventRecs) : s \in T
  BY <1>1, <1>2, Grows
<1>4. QED
  BY <1>3 DEF T

\* What is in the mailbox is queued, once, and its confirmation is yet to be said.
LEMMA MailServes ==
  ASSUME NEW t \in UIs, NEW e \in Engines, NEW os \in Seq(Submissions),
         NEW es \in Seq(EventRecs), Agrees(t, e, os, es), Under(t, es), Once(t.queue.pending)
  PROVE  /\ e.mailbox \in Seq(Prompt) /\ Once(e.mailbox)
         /\ Elems(e.mailbox) \subseteq Elems(t.queue.pending) \ Shown(es)
         /\ Shown(es) \subseteq Elems(t.queue.pending)
<1> DEFINE q == t.queue
           c == Confirmed(es)
           z == Sending(os)
           m == e.mailbox
           l == Lead(q)
<1>1. /\ q \in Queues /\ q.pending \in Seq(Prompt) /\ q.forwarded \in Nat
      /\ q.forwarded <= Len(q.pending)
  BY QueueFields DEF UIs, Agrees, Shaped
<1>2. m \in Seq(Carried) /\ z \in Seq(Carried) /\ m \o z \in Seq(Carried) /\ c \in Seq(Carried)
  BY MailCarried, SequenceTypes
<1>3. l = c \o (m \o z)
  BY DEF Agrees, Chained
<1>4. Once(l) /\ Elems(l) \subseteq Elems(q.pending)
  <2> DEFINE p == q.pending
             k == q.forwarded
             a == SubSeq(p, 1, k)
             b == SubSeq(p, k + 1, Len(p))
  <2>1. p \in Seq(Prompt) /\ k \in Nat /\ k <= Len(p) /\ Once(p)
    BY <1>1
  <2> HIDE DEF p, k
  <2>2. a \in Seq(Prompt) /\ b \in Seq(Prompt) /\ p = a \o b
    BY <2>1, Cut
  <2> HIDE DEF a, b
  <2>3. Once(a) /\ Elems(a) \subseteq Elems(p)
    BY <2>1, <2>2, ElemsConcat
  <2>4. QED
    BY <2>3 DEF Lead, a, p, k
<1> HIDE DEF c, z, m, l
<1> DEFINE y == m \o z
<1>5. y \in Seq(Carried) /\ c \in Seq(Carried) /\ l = c \o y
  BY <1>2, <1>3
<1>6. (Once(m) /\ Elems(m) \subseteq Elems(y)) \/ ~Once(y)
  BY <1>2, ElemsConcat
<1> HIDE DEF y
<1>7. Once(y) /\ Elems(c) \cap Elems(y) = {} /\ Elems(l) = Elems(c) \cup Elems(y)
  BY <1>4, <1>5, ElemsConcat
<1>8. Shown(es) = Elems(c)
  BY ConfirmedElems DEF c
<1>9. m \in Seq(Prompt)
  BY DEF Engines, m
<1>10. QED
  BY <1>4, <1>6, <1>7, <1>8, <1>9 DEF m

\* What a conversation has of some prompts, recorded in session `n`.
RecordsAt(ps, n) == [i \in 1..Len(ps) |-> [prompt |-> ps[i], session |-> n]]

\* What more prompts add to a conversation.
LEMMA SpokenMore ==
  ASSUME NEW sd \in Seq(Entries), NEW ps \in Seq(Prompt), NEW n, n \in Nat
  PROVE  LET r == RecordsAt(ps, n)
             w == sd \o r
         IN  /\ w \in Seq(Entries) /\ Spoken(w) = Spoken(sd) \cup Elems(ps)
             /\ Joined(sd, r, w, Len(sd)) /\ DOMAIN r = 1..Len(ps)
             /\ \A i \in 1..Len(ps) : r[i].prompt = ps[i] /\ r[i].session = n
<1> DEFINE r == RecordsAt(ps, n)
           w == sd \o r
<1>1. Len(ps) \in Nat /\ \A i \in 1..Len(ps) : ps[i] \in Prompt
  OBVIOUS
<1>2. r \in [1..Len(ps) -> Entries]
  BY <1>1 DEF RecordsAt, Entries
<1>3. r \in Seq(Entries) /\ Len(r) = Len(ps)
  BY <1>1, <1>2, SeqOfFunction
<1>4. DOMAIN r = 1..Len(ps) /\ \A i \in 1..Len(ps) : r[i].prompt = ps[i] /\ r[i].session = n
  BY DEF RecordsAt
<1> HIDE DEF r
<1>5. w \in Seq(Entries) /\ Joined(sd, r, w, Len(sd))
  BY <1>3, ConcatFacts
<1> HIDE DEF w
<1>6. Spoken(w) = Spoken(sd) \cup Elems(ps)
  <2>1. Spoken(w) \subseteq Spoken(sd) \cup Elems(ps)
    <3>1. SUFFICES ASSUME NEW i \in DOMAIN w
                   PROVE  w[i].prompt \in Spoken(sd) \cup Elems(ps)
      BY DEF Spoken
    <3>2. CASE i \in DOMAIN sd
      BY <1>5, <3>2 DEF Joined, Spoken
    <3>3. CASE i \notin DOMAIN sd
      BY <1>4, <1>5, <3>3 DEF Joined, Elems
    <3>4. QED
      BY <3>2, <3>3
  <2>2. Spoken(sd) \subseteq Spoken(w)
    BY <1>5 DEF Joined, Spoken
  <2>3. Elems(ps) \subseteq Spoken(w)
    <3>1. SUFFICES ASSUME NEW i \in 1..Len(ps) PROVE ps[i] \in Spoken(w)
      BY DEF Elems
    <3>2. Len(sd) + i \in DOMAIN w /\ w[Len(sd) + i] = r[i]
      BY <1>4, <1>5 DEF Joined
    <3>3. QED
      BY <1>4, <3>2 DEF Spoken
  <2>4. QED
    BY <2>1, <2>2, <2>3
<1>7. QED
  BY <1>4, <1>5, <1>6 DEF r, w

\* A turn takes queued prompts in, and confirms each.
LEMMA DrainServes ==
  ASSUME NEW t \in UIs, NEW e, NEW f, NEW os, NEW ns, NEW es \in Seq(EventRecs),
         NEW sd \in Seq(Entries), NEW dr, NEW ty, NEW mb \in Seq(Prompt), NEW n, n \in Nat,
         Serves(t, e, os, es, sd, dr, ty), ~Over(e, os), Asked(os) = {}, Asked(ns) = {},
         e.phase \in Begun, e.mark \in 0..Len(sd), t.op = "Prompt",
         Once(mb), Elems(mb) \subseteq Elems(t.queue.pending) \ Shown(es),
         f.phase \in Begun => f.mark = e.mark, f.phase \notin Openings,
         f.session = e.session, e.session = n
  PROVE  Serves(t, f, ns, es \o Drained(mb), sd \o RecordsAt(mb, n), dr, ty)
<1> DEFINE q == t.queue
           S == Spoken(sd)
           b == Drained(mb)
           d == es \o b
           r == RecordsAt(mb, n)
           w == sd \o r
           M == Elems(mb)
           W == Spoken(w)
<1>1. /\ Apart(q, t.input) /\ Lasts(t, e, os, es) /\ Fates(t, es)
      /\ Opening(t, e, os, es) /\ Recorded(t, e, os, es, S)
      /\ MarkAt(t, e, es, sd) /\ Sessions(t, e, es)
      /\ Homes(q, t.epoch, ty) /\ SaidWell(sd, ty) /\ Kept(t, S, dr, ty)
  BY DEF Serves
<1>2. /\ HopsIn(es) = {} /\ ~Unsaid(q, es) /\ ~Undone(q, es)
      /\ q.handBack \notin Lapses /\ \A i \in DOMAIN es : es[i].ev \notin LastWords
  BY <1>1, Running
<1>3. n = t.epoch
  BY <1>1, <1>2 DEF Sessions
<1>4. /\ b \in Seq(EventRecs) /\ Words(b) \subseteq {"PromptDrained"}
      /\ Mids(b) = {} /\ HopsIn(b) = {} /\ Shown(b) = M /\ Later(b) = M
  BY DrainedView
<1>5. /\ W = S \cup M /\ Joined(sd, r, w, Len(sd)) /\ DOMAIN r = 1..Len(mb)
      /\ \A i \in 1..Len(mb) : r[i].prompt = mb[i] /\ r[i].session = n
  BY SpokenMore
<1> HIDE DEF b, r
<1>6. /\ d \in Seq(EventRecs)
      /\ Words(d) = Words(es) \cup Words(b)
      /\ Mids(d) = {} <=> Mids(es) = {} /\ Mids(b) = {}
      /\ HopsIn(d) = {} <=> HopsIn(es) = {} /\ HopsIn(b) = {}
      /\ Shown(d) = Shown(es) \cup Shown(b)
      /\ Mids(b) = {} => Later(d) = Later(es) \cup Later(b) /\ Sooner(d) = Sooner(es)
  BY <1>4, SaidView
<1> HIDE DEF d, w, W, M, S
<1>7. /\ HopsIn(d) = {} /\ Shown(d) = Shown(es) \cup M
      /\ Revocable(q, d) = Revocable(q, es) \cup M /\ Lasting(q, d) = Lasting(q, es)
  BY <1>2, <1>4, <1>6 DEF Revocable, Lasting
<1>8. "PromptUnsent" \notin Words(d) /\ "TurnRolledBack" \notin Words(d)
  BY <1>2, <1>4, <1>6 DEF Unsaid, Undone
<1>9. ~Unsaid(q, d) /\ ~Undone(q, d)
  BY <1>2, <1>8 DEF Unsaid, Undone
<1>10. ~Unbegun(t, e, os) /\ ~Unbegun(t, f, ns)
  BY DEF Unbegun, Begun, Openings
<1>11. ~Absent(t, e, os, es) /\ ~Absent(t, f, ns, d)
  BY <1>2, <1>9, <1>10 DEF Absent
<1>12. M \subseteq Elems(q.pending) /\ M \cap Shown(es) = {} /\ M \cap S = {}
  BY <1>1 DEF Recorded, M
<1>13. Lasts(t, f, ns, d)
  <2>1. ASSUME NEW i \in DOMAIN d PROVE d[i].ev \notin LastWords
    <3>1. d[i].ev \in Words(d)
      BY DEF Words
    <3>2. CASE d[i].ev \in Words(es)
      BY <1>2, <3>2 DEF Words
    <3>3. CASE d[i].ev = "PromptDrained"
      BY <3>3 DEF LastWords, Hops
    <3>4. QED
      BY <1>4, <1>6, <3>1, <3>2, <3>3
  <2>2. QED
    BY <1>2, <2>1 DEF Lasts
<1>14. Fates(t, d)
  BY <1>9 DEF Fates
<1>15. Opening(t, f, ns, d)
  BY <1>10 DEF Opening
<1>16. Recorded(t, f, ns, d, W)
  <2>1. t.input \notin W
    BY <1>1, <1>5, <1>12 DEF Recorded, Apart
  <2>2. (Elems(q.pending) \ Shown(d)) \cap W = {}
    BY <1>1, <1>5, <1>7 DEF Recorded
  <2>3. Lasting(q, d) \subseteq W
    BY <1>1, <1>5, <1>7 DEF Recorded
  <2>4. Lasting(q, d) \cap Revocable(q, d) = {}
    BY <1>1, <1>7, <1>12 DEF Recorded
  <2>5. Revocable(q, d) \subseteq W
    BY <1>1, <1>5, <1>7, <1>11 DEF Recorded
  <2>6. QED
    BY <1>11, <2>1, <2>2, <2>3, <2>4, <2>5 DEF Recorded
<1>17. MarkAt(t, f, d, w)
  <2>1. SUFFICES ASSUME f.phase \in Begun, NEW i \in DOMAIN w
                 PROVE  w[i].prompt \in Revocable(q, d) <=> i > f.mark
    BY DEF MarkAt
  <2>2. f.mark = e.mark /\ e.mark \in Nat /\ Len(sd) \in Nat /\ e.mark <= Len(sd)
    BY <2>1
  <2>3. CASE i \in DOMAIN sd
    <3>1. w[i] = sd[i]
      BY <1>5, <2>3 DEF Joined
    <3>2. sd[i].prompt \notin M
      BY <1>12, <2>3 DEF Spoken, S
    <3>3. sd[i].prompt \in Revocable(q, es) <=> i > e.mark
      BY <1>1, <2>3 DEF MarkAt
    <3>4. QED
      BY <1>7, <2>2, <3>1, <3>2, <3>3
  <2>4. CASE i \notin DOMAIN sd
    <3>1. i \in Nat /\ i > Len(sd) /\ i - Len(sd) \in 1..Len(mb) /\ w[i] = r[i - Len(sd)]
      BY <1>5, <2>4 DEF Joined
    <3>2. w[i].prompt \in M
      BY <1>5, <3>1 DEF Elems, M
    <3>3. QED
      BY <1>7, <2>2, <3>1, <3>2
  <2>5. QED
    BY <2>3, <2>4
<1>18. Sessions(t, f, d)
  BY <1>1, <1>2, <1>7 DEF Sessions
<1>19. SaidWell(w, ty)
  <2>1. ASSUME NEW i \in DOMAIN w, NEW j \in DOMAIN w, w[i].prompt = w[j].prompt
        PROVE  i = j
    <3>1. CASE i \in DOMAIN sd /\ j \in DOMAIN sd
      BY <1>1, <1>5, <2>1, <3>1 DEF SaidWell, Joined
    <3>2. CASE i \notin DOMAIN sd /\ j \notin DOMAIN sd
      <4>1. /\ i \in Nat /\ j \in Nat /\ Len(sd) \in Nat
            /\ i - Len(sd) \in 1..Len(mb) /\ j - Len(sd) \in 1..Len(mb)
            /\ w[i] = r[i - Len(sd)] /\ w[j] = r[j - Len(sd)]
        BY <1>5, <3>2 DEF Joined
      <4>2. mb[i - Len(sd)] = mb[j - Len(sd)]
        BY <1>5, <2>1, <4>1
      <4>3. i - Len(sd) = j - Len(sd)
        BY <4>1, <4>2 DEF Once
      <4>4. QED
        BY <4>1, <4>3
    <3>3. \A k \in DOMAIN w : /\ k \in DOMAIN sd => w[k].prompt \in S
                              /\ k \notin DOMAIN sd => w[k].prompt \in M
      BY <1>5 DEF Joined, Spoken, Elems, S, M
    <3>4. QED
      BY <1>12, <2>1, <3>1, <3>2, <3>3
  <2>2. ASSUME NEW i \in DOMAIN w
        PROVE  w[i].prompt \in Prompt /\ ty[w[i].prompt].at # 0
               /\ Home(ty[w[i].prompt], w[i].session)
    <3>1. CASE i \in DOMAIN sd
      BY <1>1, <1>5, <3>1 DEF SaidWell, Joined
    <3>2. CASE i \notin DOMAIN sd
      <4>1. i - Len(sd) \in 1..Len(mb) /\ w[i] = r[i - Len(sd)]
        BY <1>5, <3>2 DEF Joined
      <4>2. w[i].prompt = mb[i - Len(sd)] /\ w[i].session = t.epoch
        BY <1>3, <1>5, <4>1
      <4>3. w[i].prompt \in M /\ w[i].prompt \in Prompt
        BY <4>1, <4>2 DEF Elems, M
      <4>4. QED
        BY <1>1, <1>12, <4>2, <4>3 DEF Homes
    <3>3. QED
      BY <3>1, <3>2
  <2>3. QED
    BY <2>1, <2>2 DEF SaidWell
<1>20. Kept(t, W, dr, ty)
  BY <1>1, <1>5 DEF Kept
<1>21. QED
  BY <1>1, <1>13, <1>14, <1>15, <1>16, <1>17, <1>18, <1>19, <1>20 DEF Serves, W, d, w, b, r

\* A turn begins: its prompt goes into the conversation, from where a refusal rolls back to.
LEMMA OpensServes ==
  ASSUME NEW t, NEW e, NEW f, NEW os, NEW ns, NEW es \in Seq(EventRecs),
         NEW sd \in Seq(Entries), NEW dr, NEW ty, NEW n, n \in Nat,
         Serves(t, e, os, es, sd, dr, ty), e.phase \in Openings, Asked(os) = {}, Asked(ns) = {},
         t.op = "Prompt", f.phase = "request", f.mark = Len(sd), f.session = e.session,
         e.session = n
  PROVE  Serves(t, f, ns, es, sd \o RecordsAt(<<e.prompt>>, n), dr, ty)
<1> DEFINE q == t.queue
           S == Spoken(sd)
           p == e.prompt
           r == RecordsAt(<<p>>, n)
           w == sd \o r
           W == Spoken(w)
<1>1. /\ Apart(q, t.input) /\ Lasts(t, e, os, es) /\ Fates(t, es)
      /\ Opening(t, e, os, es) /\ Recorded(t, e, os, es, S)
      /\ Sessions(t, e, es)
      /\ Homes(q, t.epoch, ty) /\ SaidWell(sd, ty) /\ Kept(t, S, dr, ty)
  BY DEF Serves
<1>2. ~Over(e, os) /\ Unbegun(t, e, os)
  BY DEF Over, Openings, Unbegun
<1>3. /\ HopsIn(es) = {} /\ ~Unsaid(q, es) /\ ~Undone(q, es)
      /\ q.handBack \notin Lapses /\ \A i \in DOMAIN es : es[i].ev \notin LastWords
  BY <1>1, <1>2, Running
<1>4. n = t.epoch
  BY <1>1, <1>3 DEF Sessions
<1>5. /\ q.active \in Prompt /\ q.drained = <<>> /\ Confirms(es) = {} /\ Mids(es) = {}
      /\ p = q.active
  BY <1>1, <1>2 DEF Opening
<1>6. <<p>> \in Seq(Prompt) /\ Len(<<p>>) = 1 /\ <<p>>[1] = p /\ Elems(<<p>>) = {p}
  BY <1>5, ElemsOne
<1>7. /\ W = S \cup {p} /\ Joined(sd, r, w, Len(sd)) /\ DOMAIN r = {1}
      /\ r[1].prompt = p /\ r[1].session = n
  <2> DEFINE ps == <<p>>
  <2>1. ps \in Seq(Prompt) /\ Len(ps) = 1 /\ ps[1] = p /\ Elems(ps) = {p}
    BY <1>6
  <2> HIDE DEF ps
  <2>2. LET x == RecordsAt(ps, n)
        IN  /\ Spoken(sd \o x) = S \cup Elems(ps) /\ Joined(sd, x, sd \o x, Len(sd))
            /\ DOMAIN x = 1..Len(ps)
            /\ \A i \in 1..Len(ps) : x[i].prompt = ps[i] /\ x[i].session = n
    BY <2>1, SpokenMore
  <2>3. r = RecordsAt(ps, n)
    BY DEF ps
  <2> HIDE DEF r
  <2>4. 1 \in 1..Len(ps) /\ 1..Len(ps) = {1}
    BY <2>1
  <2>5. QED
    BY <2>1, <2>2, <2>3, <2>4
<1> HIDE DEF r
<1>8. Elems(q.drained) = {} /\ Fore(q) = {p}
  <2>1. <<>> \in Seq(Prompt)
    OBVIOUS
  <2>2. Elems(q.drained) = {}
    BY <1>5, <2>1, ElemsFacts
  <2>3. QED
    BY <1>5, <2>2 DEF Fore
<1>9. /\ Shown(es) = {} /\ Later(es) = {} /\ Sooner(es) = {}
  BY <1>5, Placed
<1>10. Revocable(q, es) = {p} /\ Lasting(q, es) = {}
  BY <1>5, <1>8, <1>9 DEF Revocable, Lasting
<1>11. ~Unbegun(t, f, ns) /\ ~Absent(t, f, ns, es) /\ Absent(t, e, os, es)
  BY <1>2, <1>3 DEF Unbegun, Absent, Openings
<1> HIDE DEF w, W, S, p
<1>12. p \notin S /\ p \in Prompt
  BY <1>1, <1>5, <1>10, <1>11 DEF Recorded
<1>13. Lasts(t, f, ns, es)
  BY <1>3 DEF Lasts
<1>14. Fates(t, es) /\ Sessions(t, f, es)
  BY <1>1 DEF Sessions
<1>15. Opening(t, f, ns, es)
  BY <1>11 DEF Opening, Openings
<1>16. Recorded(t, f, ns, es, W)
  <2>1. t.input # p
    BY <1>1, <1>5, NoOnePrompt DEF Apart
  <2>2. p \notin Elems(q.pending)
    BY <1>1, <1>5 DEF Apart
  <2>3. QED
    BY <1>1, <1>7, <1>10, <1>11, <2>1, <2>2 DEF Recorded
<1>17. MarkAt(t, f, es, w)
  <2>1. SUFFICES ASSUME NEW i \in DOMAIN w PROVE w[i].prompt = p <=> i > Len(sd)
    BY <1>10 DEF MarkAt
  <2>2. CASE i \in DOMAIN sd
    <3>1. w[i] = sd[i] /\ ~(i > Len(sd))
      BY <1>7, <2>2 DEF Joined
    <3>2. QED
      BY <1>12, <2>2, <3>1 DEF Spoken, S
  <2>3. CASE i \notin DOMAIN sd
    BY <1>7, <2>3 DEF Joined
  <2>4. QED
    BY <2>2, <2>3
<1>18. SaidWell(w, ty)
  <2>1. ASSUME NEW i \in DOMAIN w
        PROVE  /\ i \in DOMAIN sd => w[i] = sd[i]
               /\ i \notin DOMAIN sd => i = Len(sd) + 1 /\ w[i].prompt = p /\ w[i].session = t.epoch
    <3>1. i \in DOMAIN sd => w[i] = sd[i]
      BY <1>7 DEF Joined
    <3>2. ASSUME i \notin DOMAIN sd
          PROVE  i = Len(sd) + 1 /\ w[i].prompt = p /\ w[i].session = t.epoch
      <4>1. i \in Nat /\ Len(sd) \in Nat /\ i - Len(sd) = 1 /\ w[i] = r[i - Len(sd)]
        BY <1>7, <3>2 DEF Joined
      <4>2. QED
        BY <1>4, <1>7, <4>1
    <3>3. QED
      BY <3>1, <3>2
  <2>2. ty[p].at # 0 /\ Home(ty[p], t.epoch)
    BY <1>1, <1>8 DEF Homes
  <2>3. ASSUME NEW i \in DOMAIN w, NEW j \in DOMAIN w, w[i].prompt = w[j].prompt
        PROVE  i = j
    <3>1. CASE i \in DOMAIN sd /\ j \in DOMAIN sd
      BY <1>1, <2>1, <2>3, <3>1 DEF SaidWell
    <3>2. \A k \in DOMAIN sd : sd[k].prompt # p
      BY <1>12 DEF Spoken, S
    <3>3. QED
      BY <2>1, <2>3, <3>1, <3>2
  <2>4. ASSUME NEW i \in DOMAIN w
        PROVE  w[i].prompt \in Prompt /\ ty[w[i].prompt].at # 0
               /\ Home(ty[w[i].prompt], w[i].session)
    BY <1>1, <1>12, <2>1, <2>2 DEF SaidWell
  <2>5. QED
    BY <2>3, <2>4 DEF SaidWell
<1>19. Kept(t, W, dr, ty)
  BY <1>1, <1>7 DEF Kept
<1>20. QED
  BY <1>1, <1>13, <1>14, <1>15, <1>16, <1>17, <1>18, <1>19 DEF Serves, W, w, r, p

\* A summary makes what the turn said last.
LEMMA MidServes ==
  ASSUME NEW t, NEW e, NEW f, NEW os, NEW ns, NEW es \in Seq(EventRecs), NEW x \in EventRecs,
         NEW sd \in Seq(Entries), NEW dr, NEW ty,
         Serves(t, e, os, es, sd, dr, ty), e.phase \in Begun, Asked(os) = {}, Asked(ns) = {},
         t.op = "Prompt", x.ev = "SessionCompactedMidTurn",
         f.phase = "request", f.mark = Len(sd), f.session = e.session
  PROVE  Serves(t, f, ns, es \o <<x>>, sd, dr, ty)
<1> DEFINE q == t.queue
           S == Spoken(sd)
           o == <<x>>
           d == es \o o
<1>1. /\ Apart(q, t.input) /\ Lasts(t, e, os, es) /\ Fates(t, es)
      /\ Opening(t, e, os, es) /\ Recorded(t, e, os, es, S)
      /\ Sessions(t, e, es)
      /\ Homes(q, t.epoch, ty) /\ SaidWell(sd, ty) /\ Kept(t, S, dr, ty)
  BY DEF Serves
<1>2. ~Over(e, os) /\ ~Unbegun(t, e, os) /\ ~Unbegun(t, f, ns)
  BY DEF Over, Openings, Unbegun, Begun
<1>3. /\ HopsIn(es) = {} /\ ~Unsaid(q, es) /\ ~Undone(q, es)
      /\ q.handBack \notin Lapses /\ \A i \in DOMAIN es : es[i].ev \notin LastWords
  BY <1>1, <1>2, Running
<1>4. /\ o \in Seq(EventRecs) /\ DOMAIN o = {1} /\ o[1] = x
      /\ Words(o) = {x.ev} /\ Mids(o) = {1} /\ HopsIn(o) = {} /\ Confirms(o) = {}
  BY OneView DEF Hops
<1>5. Shown(o) = {} /\ Later(o) = {} /\ Sooner(o) = {}
  BY <1>4, Placed
<1> HIDE DEF o
<1>6. Joined(es, o, d, Len(es))
  BY <1>4, ConcatFacts
<1>7. /\ d \in Seq(EventRecs)
      /\ Words(d) = Words(es) \cup Words(o)
      /\ Mids(d) = {} <=> Mids(es) = {} /\ Mids(o) = {}
      /\ HopsIn(d) = {} <=> HopsIn(es) = {} /\ HopsIn(o) = {}
      /\ Shown(d) = Shown(es) \cup Shown(o)
      /\ Mids(o) # {} => Later(d) = Later(o) /\ Sooner(d) = Shown(es) \cup Sooner(o)
  BY <1>4, SaidView
<1> HIDE DEF d, S
<1>8. /\ Mids(d) # {} /\ HopsIn(d) = {} /\ Shown(d) = Shown(es) /\ Later(d) = {}
      /\ Sooner(d) = Shown(es)
  BY <1>3, <1>4, <1>5, <1>7
<1>9. Revocable(q, d) = {} /\ Lasting(q, d) = Shown(es) \cup Fore(q)
  BY <1>8 DEF Revocable, Lasting
<1>10. ~Unsaid(q, d) /\ ~Undone(q, d)
  BY <1>3, <1>4, <1>7 DEF Unsaid, Undone
<1>11. ~Absent(t, e, os, es) /\ ~Absent(t, f, ns, d)
  BY <1>2, <1>3, <1>10 DEF Absent
<1>12. Shown(es) \cup Fore(q) \subseteq S
  <2>1. Shown(es) \cup Fore(q) = Revocable(q, es) \cup Lasting(q, es)
    BY Placed DEF Revocable, Lasting
  <2>2. QED
    BY <1>1, <1>11, <2>1 DEF Recorded
<1>13. Lasts(t, f, ns, d)
  <2>1. \A i \in DOMAIN d : d[i].ev \notin LastWords
    BY <1>3, <1>4, <1>6 DEF Joined, LastWords, Hops
  <2>2. QED
    BY <1>3, <2>1 DEF Lasts
<1>14. Fates(t, d) /\ Opening(t, f, ns, d)
  BY <1>2, <1>10 DEF Fates, Opening, Openings
<1>15. Recorded(t, f, ns, d, S)
  BY <1>1, <1>8, <1>9, <1>11, <1>12 DEF Recorded
<1>16. MarkAt(t, f, d, sd)
  BY <1>9 DEF MarkAt
<1>17. Sessions(t, f, d)
  BY <1>1, <1>3, <1>8 DEF Sessions
<1>18. QED
  BY <1>1, <1>13, <1>14, <1>15, <1>16, <1>17 DEF Serves, S, d, o

----------------------------------------------------------------------------
(* The engine keeps the prompts served: what its steps share *)

EngineOnly == UNCHANGED <<tui, typed, dropped>>

\* A step of the engine that leaves the prompts served.
LEMMA EngineServes ==
  ASSUME SInv, EngineOnly, engine'.round <= MaxRounds - 1,
         Serves(tui, engine', ops', events', said', dropped, typed)
  PROVE  SInv'
<1>1. typed \in Histories /\ tui' = tui /\ typed' = typed /\ dropped' = dropped
  BY DEF SInv, EngineOnly
<1>2. Serves(tui', engine', ops', events', said', dropped', typed')
  BY <1>1
<1>3. QED
  BY <1>1, <1>2 DEF SInv

\* An operation runs as `e`, which serves its prompts.
Runs(e) ==
  /\ Ready(e, ops') /\ Agrees(tui, e, ops', events)
  /\ e.round <= MaxRounds - 1 /\ e.session = engine.session
  /\ Serves(tui, e, ops', events, said, dropped, typed)

\* What is known while an operation runs.
LEMMA RunsFacts ==
  ASSUME FInv, NEW e, Runs(e)
  PROVE  /\ e \in Engines /\ e.phase # "idle" /\ e.round \in Nat /\ e.round <= MaxRounds - 1
         /\ e.session \in Nat /\ e.session = engine.session /\ e.mark \in 0..Len(said)
         /\ tui \in UIs /\ said \in Seq(Entries) /\ events \in Seq(EventRecs)
         /\ ops' \in Seq(Submissions) /\ Asked(ops') = {} /\ ~Over(e, ops')
         /\ EndsAt(tui, events) = {} /\ Under(tui, events)
         /\ Serves(tui, e, ops', events, said, dropped, typed)
         /\ HopsIn(events) = {} /\ ~Unsaid(tui.queue, events) /\ ~Undone(tui.queue, events)
         /\ e.phase \in TurnPhases => tui.op = "Prompt"
<1>1. /\ e \in Engines /\ e.phase # "idle" /\ e.mark <= Len(said)
      /\ ops' \in Seq(Submissions) /\ Flight(tui, e, ops', events)
      /\ Serves(tui, e, ops', events, said, dropped, typed) /\ Phased(e)
  BY DEF Runs, Ready, Agrees
<1>2. Asks(ops') = {} /\ EndsAt(tui, events) = {} /\ Busy(tui)
  BY <1>1 DEF Flight, Stages
<1>3. Asked(ops') = {}
  BY <1>2, AskedNone
<1>4. ~Over(e, ops') /\ Under(tui, events)
  BY <1>1, <1>2 DEF Over, Under
<1>5. HopsIn(events) = {} /\ ~Unsaid(tui.queue, events) /\ ~Undone(tui.queue, events)
  BY <1>1, <1>4, Running DEF Serves
<1>6. said \in Seq(Entries) /\ tui \in UIs /\ events \in Seq(EventRecs) /\ Len(said) \in Nat
  BY Closed, EngineFacts, LenProperties
<1>7. e.mark \in Nat /\ e.round \in Nat /\ e.session \in Nat
  BY <1>1, EngineFields
<1>8. e.phase \in TurnPhases => tui.op = "Prompt"
  BY <1>1, RunsOwn DEF Runs
<1>9. QED
  BY <1>1, <1>2, <1>3, <1>4, <1>5, <1>6, <1>7, <1>8 DEF Runs

\* What the running operation has in its mailbox.
LEMMA RunsMail ==
  ASSUME FInv, NEW e, Runs(e)
  PROVE  /\ e.mailbox \in Seq(Prompt) /\ Once(e.mailbox)
         /\ Elems(e.mailbox) \subseteq Elems(tui.queue.pending) \ Shown(events)
         /\ Shown(events) \subseteq Elems(tui.queue.pending)
<1>1. /\ e \in Engines /\ tui \in UIs /\ events \in Seq(EventRecs) /\ ops' \in Seq(Submissions)
      /\ Under(tui, events) /\ Serves(tui, e, ops', events, said, dropped, typed)
  BY RunsFacts
<1>2. Agrees(tui, e, ops', events)
  BY DEF Runs
<1>3. Once(tui.queue.pending)
  BY <1>1 DEF Serves, Apart
<1>4. QED
  BY <1>1, <1>2, <1>3, MailServes

\* Nothing said moves no prompt.
LEMMA MuttersNone == <<>> \in Seq(EventRecs) /\ \A t : Mutters(t, <<>>) /\ Silent(<<>>)
BY DEF Mutters, EndsAt, Silent

\* Nor does one such event.
LEMMA MuttersOne ==
  ASSUME NEW t, NEW x \in EventRecs,
         x.ev \notin {"PromptDrained", "SessionCompactedMidTurn", "OpEnded"} \cup LastWords
  PROVE  <<x>> \in Seq(EventRecs) /\ Mutters(t, <<x>>)
<1>1. DOMAIN <<x>> = {1} /\ <<x>>[1] = x /\ <<x>> \in Seq(EventRecs)
  BY OneView
<1>2. QED
  BY <1>1 DEF Mutters, EndsAt

\* The engine says what moves no prompt, and goes on.
LEMMA SpeaksServes ==
  ASSUME SInv, EngineOnly, said' = said, NEW e, NEW os,
         Serves(tui, e, os, events, said, dropped, typed),
         events \in Seq(EventRecs), NEW evs \in Seq(EventRecs), events' = events \o evs,
         Goes(tui, e, engine', os, ops'), Mutters(tui, evs), Silent(evs) \/ ~Over(e, os),
         engine'.round <= MaxRounds - 1
  PROVE  SInv'
<1>1. Serves(tui, engine', ops', events \o evs, said, dropped, typed)
  BY MuttersServes
<1>2. QED
  BY <1>1, EngineServes

\* It says nothing.
LEMMA HushServes ==
  ASSUME SInv, EngineOnly, said' = said, NEW e, NEW os,
         Serves(tui, e, os, events, said, dropped, typed),
         events \in Seq(EventRecs), events' = events, Goes(tui, e, engine', os, ops'),
         engine'.round <= MaxRounds - 1
  PROVE  SInv'
<1>1. events' = events \o <<>>
  BY ConcatEmptySeq
<1>2. QED
  BY <1>1, MuttersNone, SpeaksServes

\* The engine stays as far as the prompts tell.
LEMMA GoesSame ==
  ASSUME NEW t, NEW e, NEW f, NEW os, NEW es, NEW sd, NEW dr, NEW ty,
         Serves(t, e, os, es, sd, dr, ty),
         f.phase = e.phase, f.prompt = e.prompt, f.mark = e.mark, f.session = e.session
  PROVE  Goes(t, e, f, os, os)
<1>1. e.phase \in Openings => e.prompt = t.queue.active
  BY DEF Serves, Opening
<1>2. Unbegun(t, f, os) <=> Unbegun(t, e, os)
  BY DEF Unbegun
<1>3. Over(f, os) <=> Over(e, os)
  BY DEF Over
<1>4. QED
  BY <1>1, <1>2, <1>3 DEF Goes

\* An operation past its opening goes on.
LEMMA GoesOn ==
  ASSUME NEW t, NEW e, NEW f, NEW os, e.phase \notin Openings, f.phase \notin Openings,
         e.phase # "idle" \/ f.phase = "idle", f.session = e.session,
         f.phase \in Begun => e.phase \in Begun /\ f.mark = e.mark
  PROVE  Goes(t, e, f, os, os)
<1>1. Unbegun(t, f, os) <=> Unbegun(t, e, os)
  BY DEF Unbegun
<1>2. Over(e, os) => Over(f, os)
  BY DEF Over
<1>3. QED
  BY <1>1, <1>2 DEF Goes

\* The engine is done with the operation, and says its end.
LEMMA ToldServes ==
  ASSUME SInv, EngineOnly, events \in Seq(EventRecs), NEW evs \in Seq(EventRecs),
         NEW id, id \in Nat, NEW end \in Ends, Emit(evs \o <<OpEnded(id, end)>>),
         engine'.phase = "idle", engine'.round <= MaxRounds - 1, Asked(ops') = {},
         Serves(tui, engine', ops', events \o evs, said', dropped, typed),
         Unsaid(tui.queue, events \o evs) => end \in {"Cancelled", "Failed"},
         Undone(tui.queue, events \o evs) => end = "Failed"
  PROVE  SInv'
<1> DEFINE x == OpEnded(id, end)
           d == events \o evs
<1>1. x \in EventRecs /\ x.ev = "OpEnded" /\ x.end = end
  BY EventTypes DEF OpEnded, Event
<1>2. <<x>> \in Seq(EventRecs)
  BY <1>1
<1> HIDE DEF x
<1>3. d \in Seq(EventRecs) /\ events' = d \o <<x>>
  <2> DEFINE o == <<x>>
  <2>1. o \in Seq(EventRecs) /\ events' = events \o (evs \o o)
    BY <1>2 DEF Emit, x
  <2> HIDE DEF o
  <2>2. events \o (evs \o o) = (events \o evs) \o o
    BY <2>1, ConcatAssociative
  <2>3. QED
    BY <2>1, <2>2, ConcatProperties DEF o
<1> HIDE DEF d
<1>4. Over(engine', ops')
  BY DEF Over
<1>5. Serves(tui, engine', ops', d \o <<x>>, said', dropped, typed)
  BY <1>1, <1>3, <1>4, OwnEndServes DEF d
<1>6. QED
  BY <1>3, <1>5, EngineServes

\* The operation ends with no prompt moved.
LEMMA OverServes ==
  ASSUME FInv, SInv, EngineOnly, said' = said, NEW e, Runs(e), e.phase \notin Openings,
         NEW id, id \in Nat, NEW end \in Ends, NEW evs \in Seq(EventRecs), Mutters(tui, evs),
         Emit(evs \o <<OpEnded(id, end)>>),
         engine'.phase = "idle", engine'.round <= MaxRounds - 1, engine'.session = e.session
  PROVE  SInv'
<1>1. /\ events \in Seq(EventRecs) /\ Asked(ops') = {} /\ ~Over(e, ops') /\ e.phase # "idle"
      /\ Serves(tui, e, ops', events, said, dropped, typed)
      /\ ~Unsaid(tui.queue, events) /\ ~Undone(tui.queue, events)
  BY RunsFacts
<1>2. Goes(tui, e, engine', ops', ops')
  <2>1. engine'.phase \notin Openings /\ engine'.phase \notin Begun
    BY DEF Openings, Begun
  <2>2. QED
    BY <2>1, GoesOn
<1>3. Serves(tui, engine', ops', events \o evs, said, dropped, typed)
  BY <1>1, <1>2, MuttersServes
<1>4. ~Unsaid(tui.queue, events \o evs) /\ ~Undone(tui.queue, events \o evs)
  BY <1>1, MutterView
<1>5. QED
  BY <1>1, <1>3, <1>4, ToldServes

\* What End leaves.
LEMMA EndFields ==
  ASSUME engine \in Engines, NEW end, NEW evs, End(end, evs)
  PROVE  /\ engine'.phase = "idle" /\ engine'.round = 0 /\ engine'.round <= MaxRounds - 1
         /\ engine'.session = engine.session /\ engine.id \in Nat
         /\ Emit(evs \o <<OpEnded(engine.id, end)>>)
<1> DEFINE a == ModeApplied(engine)
<1>1. a \in Engines /\ a.session = engine.session
  BY AppliedTypes
<1>2. engine' = [a EXCEPT !.phase = "idle", !.id = 0, !.op = "none", !.prompt = NoPrompt,
                          !.mailbox = <<>>, !.round = 0, !.mark = 0]
  BY DEF End
<1> HIDE DEF a
<1>3. engine'.phase = "idle" /\ engine'.round = 0 /\ engine'.session = a.session
  BY <1>1, <1>2 DEF Engines
<1>4. MaxRounds \in Nat \ {0}
  BY Bounds
<1>5. QED
  BY <1>1, <1>3, <1>4 DEF End, Engines

\* The operation in flight ends with no prompt moved.
LEMMA EndsServes ==
  ASSUME FInv, SInv, EngineOnly, said' = said, Runs(engine), engine.phase \notin Openings,
         NEW end \in Ends, NEW evs \in Seq(EventRecs), Mutters(tui, evs), End(end, evs)
  PROVE  SInv'
<1>1. /\ engine'.phase = "idle" /\ engine'.round <= MaxRounds - 1
      /\ engine'.session = engine.session /\ engine.id \in Nat
      /\ Emit(evs \o <<OpEnded(engine.id, end)>>)
  BY RunsFacts, EndFields
<1>2. QED
  BY <1>1, OverServes

\* The prompt of an operation that does not begin its turn goes back to the UI.
LEMMA UnsentStep ==
  ASSUME FInv, SInv, EngineOnly, Runs(engine), engine.phase \in Openings,
         NEW end \in {"Cancelled", "Failed"}, Unsent(end)
  PROVE  SInv'
<1> DEFINE x == Event("PromptUnsent")
           d == events \o <<x>>
<1>1. "PromptUnsent" \in EventKinds \ {"ModeChanged"}
  BY DEF EventKinds
<1>2. x \in EventRecs /\ x.ev = "PromptUnsent" /\ <<x>> \in Seq(EventRecs)
  BY <1>1, EventTypes
<1>3. End(end, <<x>>) /\ said' = said /\ end \in Ends
  BY DEF Unsent, Ends
<1> HIDE DEF x
<1>4. /\ engine'.phase = "idle" /\ engine'.round <= MaxRounds - 1
      /\ engine'.session = engine.session /\ engine.id \in Nat
      /\ Emit(<<x>> \o <<OpEnded(engine.id, end)>>)
  BY <1>3, RunsFacts, EndFields
<1>5. /\ events \in Seq(EventRecs) /\ Asked(ops') = {} /\ ~Over(engine, ops')
      /\ Serves(tui, engine, ops', events, said, dropped, typed) /\ EndsAt(tui, events) = {}
      /\ ~Undone(tui.queue, events) /\ tui.op = "Prompt"
  BY RunsFacts DEF Openings, TurnPhases
<1>6. Unbegun(tui, engine, ops')
  BY <1>5 DEF Unbegun
<1>7. Serves(tui, engine', ops', d, said, dropped, typed)
  BY <1>2, <1>4, <1>5, <1>6, UnsentServes
<1>8. ~Undone(tui.queue, d)
  <2>1. x.ev \in LastWords
    BY <1>2 DEF LastWords
  <2>2. Words(d) = Words(events) \cup {x.ev}
    BY <1>2, <1>5, <2>1, WordView
  <2>3. QED
    BY <1>2, <1>5, <2>2 DEF Undone
<1>9. QED
  BY <1>2, <1>3, <1>4, <1>5, <1>7, <1>8, ToldServes

----------------------------------------------------------------------------
(* The engine keeps the prompts served: a turn takes its prompts in *)

\* The engine records prompts in its session.
LEMMA RecordsSame == \A ps : Records(ps) = RecordsAt(ps, engine.session)
BY DEF Records, RecordsAt

\* What the records of some prompts are.
LEMMA RecordsFacts ==
  ASSUME NEW ps \in Seq(Prompt), NEW n, n \in Nat
  PROVE  /\ RecordsAt(ps, n) \in Seq(Entries) /\ Len(RecordsAt(ps, n)) = Len(ps)
         /\ \A i \in 1..Len(ps) : RecordsAt(ps, n)[i] = [prompt |-> ps[i], session |-> n]
<1> DEFINE r == RecordsAt(ps, n)
<1>1. Len(ps) \in Nat /\ \A i \in 1..Len(ps) : ps[i] \in Prompt
  OBVIOUS
<1>2. r \in [1..Len(ps) -> Entries]
  BY <1>1 DEF RecordsAt, Entries
<1>3. r \in Seq(Entries) /\ Len(r) = Len(ps)
  BY <1>1, <1>2, SeqOfFunction
<1>4. QED
  BY <1>3 DEF RecordsAt

\* The records of a concatenation.
LEMMA RecordsConcat ==
  ASSUME NEW a \in Seq(Prompt), NEW b \in Seq(Prompt), NEW n, n \in Nat
  PROVE  /\ a \o b \in Seq(Prompt)
         /\ RecordsAt(a \o b, n) = RecordsAt(a, n) \o RecordsAt(b, n)
<1> DEFINE c == a \o b
           x == RecordsAt(a, n)
           y == RecordsAt(b, n)
           z == RecordsAt(c, n)
<1>1. /\ c \in Seq(Prompt) /\ Len(c) = Len(a) + Len(b) /\ Len(a) \in Nat /\ Len(b) \in Nat
      /\ \A i \in 1..Len(a) + Len(b) : c[i] = IF i <= Len(a) THEN a[i] ELSE b[i - Len(a)]
  BY ConcatProperties, LenProperties
<1> HIDE DEF c
<1>2. /\ x \in Seq(Entries) /\ Len(x) = Len(a)
      /\ \A i \in 1..Len(a) : x[i] = [prompt |-> a[i], session |-> n]
  BY RecordsFacts
<1>3. /\ y \in Seq(Entries) /\ Len(y) = Len(b)
      /\ \A i \in 1..Len(b) : y[i] = [prompt |-> b[i], session |-> n]
  BY RecordsFacts
<1>4. /\ z \in Seq(Entries) /\ Len(z) = Len(c)
      /\ \A i \in 1..Len(c) : z[i] = [prompt |-> c[i], session |-> n]
  BY <1>1, RecordsFacts
<1> HIDE DEF x, y, z
<1>5. /\ x \o y \in Seq(Entries) /\ Len(x \o y) = Len(x) + Len(y)
      /\ \A i \in 1..Len(x) + Len(y) :
           (x \o y)[i] = IF i <= Len(x) THEN x[i] ELSE y[i - Len(x)]
  <2>1. x \in Seq(Entries) /\ y \in Seq(Entries)
    BY <1>2, <1>3
  <2>2. QED
    BY ONLY <2>1, ConcatProperties
<1>6. ASSUME NEW i \in 1..Len(a) + Len(b) PROVE z[i] = (x \o y)[i]
  <2>1. z[i] = [prompt |-> c[i], session |-> n]
    BY <1>1, <1>4
  <2>2. CASE i <= Len(a)
    <3>1. i \in 1..Len(a) /\ c[i] = a[i] /\ (x \o y)[i] = x[i]
      BY <1>1, <1>2, <1>3, <1>5, <2>2
    <3>2. QED
      BY <1>2, <2>1, <3>1
  <2>3. CASE ~(i <= Len(a))
    <3>1. i - Len(a) \in 1..Len(b) /\ c[i] = b[i - Len(a)] /\ (x \o y)[i] = y[i - Len(a)]
      BY <1>1, <1>2, <1>3, <1>5, <2>3
    <3>2. QED
      BY <1>3, <2>1, <3>1
  <2>4. QED
    BY <2>2, <2>3
<1>7. z = x \o y
  <2>1. Len(z) = Len(x \o y) /\ \A i \in 1..Len(z) : z[i] = (x \o y)[i]
    BY <1>1, <1>2, <1>3, <1>4, <1>5, <1>6
  <2>2. QED
    BY <1>4, <1>5, <2>1, SeqEqual
<1>8. QED
  BY <1>1, <1>7 DEF c, x, y, z

\* The engine takes the mailbox of `e` into the conversation, after it said `evs`.
LEMMA TakesServes ==
  ASSUME FInv, NEW e, Runs(e), NEW g, NEW h, NEW sd \in Seq(Entries), NEW es \in Seq(EventRecs),
         Serves(tui, g, ops', es, sd, dropped, typed), g.phase \in Begun,
         g.mark \in 0..Len(sd), tui.op = "Prompt", Shown(es) = Shown(events),
         h.phase \in Begun => h.mark = g.mark, h.phase \notin Openings,
         h.session = g.session, g.session = engine.session
  PROVE  Serves(tui, h, ops', es \o Drained(e.mailbox), sd \o Records(e.mailbox), dropped, typed)
<1>1. Asked(ops') = {} /\ engine.session \in Nat /\ tui \in UIs
  BY RunsFacts
<1>2. /\ e.mailbox \in Seq(Prompt) /\ Once(e.mailbox)
      /\ Elems(e.mailbox) \subseteq Elems(tui.queue.pending) \ Shown(es)
  BY RunsMail
<1>3. ~Over(g, ops')
  BY DEF Over, Begun
<1>4. Serves(tui, h, ops', es \o Drained(e.mailbox), sd \o RecordsAt(e.mailbox, engine.session),
             dropped, typed)
  BY <1>1, <1>2, <1>3, DrainServes
<1>5. QED
  BY <1>4, RecordsSame

\* A turn begins: its prompt is recorded, and then what was queued meanwhile.
LEMMA BeginTurnServes ==
  ASSUME FInv, SInv, EngineOnly, NEW e, Runs(e), e.phase \in Openings,
         NEW evs \in Seq(EventRecs), Mutters(tui, evs), BeginTurn(e, evs)
  PROVE  SInv'
<1> DEFINE n == engine.session
           p == e.prompt
           m == e.mailbox
           a == ModeApplied(e)
           f == [a EXCEPT !.phase = "request", !.mailbox = <<>>, !.mark = Len(said)]
           es == events \o evs
           sd == said \o RecordsAt(<<p>>, n)
<1>1. /\ e \in Engines /\ e.round <= MaxRounds - 1 /\ e.session = n /\ n \in Nat
      /\ said \in Seq(Entries) /\ events \in Seq(EventRecs)
      /\ Asked(ops') = {} /\ ~Over(e, ops')
      /\ Serves(tui, e, ops', events, said, dropped, typed) /\ tui.op = "Prompt"
  BY RunsFacts DEF Openings, TurnPhases
<1>2. a \in Engines /\ a.round = e.round /\ a.session = e.session
  BY <1>1, AppliedTypes
<1>3. said' = said \o Records(<<p>> \o m) /\ events' = events \o (evs \o Drained(m)) /\ engine' = f
  BY DEF BeginTurn, Emit
<1> HIDE DEF a
<1>4. f.phase = "request" /\ f.mark = Len(said) /\ f.session = e.session /\ f.round = e.round
  BY <1>2 DEF Engines
<1> HIDE DEF f
<1>5. es \in Seq(EventRecs) /\ Shown(es) = Shown(events)
  BY <1>1, MutterView
<1>6. Serves(tui, e, ops', es, said, dropped, typed)
  <2>1. Goes(tui, e, e, ops', ops')
    BY <1>1, GoesSame
  <2>2. QED
    BY <1>1, <2>1, MuttersServes
<1>7. p \in Prompt /\ m \in Seq(Prompt)
  <2>1. Unbegun(tui, e, ops')
    BY <1>1 DEF Unbegun
  <2>2. p = tui.queue.active /\ tui.queue.active \in Prompt
    BY <1>1, <2>1 DEF Serves, Opening
  <2>3. QED
    BY <2>2, RunsMail
<1>8. <<p>> \in Seq(Prompt) /\ Len(<<p>>) = 1
  BY <1>7
<1>9. sd \in Seq(Entries) /\ Len(said) \in 0..Len(sd) /\ RecordsAt(<<p>>, n) \in Seq(Entries)
  <2> DEFINE r == RecordsAt(<<p>>, n)
  <2>1. r \in Seq(Entries) /\ Len(r) = 1
    BY <1>1, <1>8, RecordsFacts
  <2> HIDE DEF r
  <2>2. /\ said \o r \in Seq(Entries) /\ Len(said \o r) = Len(said) + Len(r)
        /\ Len(said) \in Nat
    BY <1>1, <2>1, ConcatFacts, LenProperties
  <2>3. QED
    BY <2>1, <2>2 DEF r
<1> HIDE DEF es, n, m, p
<1>10. Serves(tui, f, ops', es, sd, dropped, typed)
  BY <1>1, <1>4, <1>5, <1>6, OpensServes DEF p
<1> HIDE DEF sd
<1>11. Serves(tui, f, ops', es \o Drained(m), sd \o Records(m), dropped, typed)
  <2>1. f.phase \in Begun /\ f.phase \notin Openings
    BY <1>4 DEF Begun, Openings
  <2>2. f.session = engine.session /\ f.mark \in 0..Len(sd)
    BY <1>1, <1>4, <1>9 DEF n
  <2>3. QED
    BY <1>1, <1>5, <1>9, <1>10, <2>1, <2>2, TakesServes DEF m
<1>12. es \o Drained(m) = events'
  <2>1. Drained(m) \in Seq(EventRecs)
    BY <1>7, DrainedView
  <2>2. QED
    BY <1>1, <1>3, <2>1, ConcatAssociative DEF es
<1>13. sd \o Records(m) = said'
  <2> DEFINE o == <<p>>
  <2>1. o \in Seq(Prompt)
    BY <1>8
  <2> HIDE DEF o
  <2>2. /\ RecordsAt(o \o m, n) = RecordsAt(o, n) \o RecordsAt(m, n)
        /\ RecordsAt(o, n) \in Seq(Entries) /\ RecordsAt(m, n) \in Seq(Entries)
    BY <1>1, <1>7, <2>1, RecordsConcat, RecordsFacts
  <2>3. said' = said \o (RecordsAt(o, n) \o RecordsAt(m, n))
    BY <1>3, <2>2, RecordsSame DEF n, o
  <2>4. said' = (said \o RecordsAt(o, n)) \o RecordsAt(m, n)
    <3> DEFINE v == RecordsAt(o, n)
               w == RecordsAt(m, n)
    <3>1. said \in Seq(Entries) /\ v \in Seq(Entries) /\ w \in Seq(Entries)
      BY <1>1, <2>2
    <3>2. said' = said \o (v \o w)
      BY <2>3
    <3> HIDE DEF v, w
    <3>3. (said \o v) \o w = said \o (v \o w)
      BY ONLY <3>1, ConcatAssociative
    <3>4. QED
      BY <3>2, <3>3 DEF v, w
  <2>5. QED
    BY <2>4, RecordsSame DEF n, o, sd
<1>14. QED
  BY <1>1, <1>3, <1>4, <1>11, <1>12, <1>13, EngineServes

\* A signed-in prompt begins its turn, or is compacted for first.
LEMMA SignedInServes ==
  ASSUME FInv, SInv, EngineOnly, NEW e, Runs(e), e.phase \in Openings, SignedIn(e)
  PROVE  SInv'
<1>1. CASE BeginTurn(e, <<>>)
  BY <1>1, MuttersNone, BeginTurnServes
<1>2. CASE /\ engine' = [e EXCEPT !.phase = "autoCompact"]
           /\ Emit(<<Event("AutoCompactionStarted")>>) /\ UNCHANGED said
  <2> DEFINE x == Event("AutoCompactionStarted")
  <2>1. "AutoCompactionStarted" \in EventKinds \ {"ModeChanged"}
    BY DEF EventKinds
  <2>2. x \in EventRecs /\ x.ev = "AutoCompactionStarted"
    BY <2>1, EventTypes
  <2>3. events' = events \o <<x>> /\ said' = said
    BY <1>2 DEF Emit
  <2> HIDE DEF x
  <2>4. <<x>> \in Seq(EventRecs) /\ Mutters(tui, <<x>>)
    BY <2>2, MuttersOne DEF LastWords, Hops
  <2>5. /\ e \in Engines /\ e.round <= MaxRounds - 1 /\ events \in Seq(EventRecs)
        /\ ~Over(e, ops') /\ Serves(tui, e, ops', events, said, dropped, typed)
    BY RunsFacts
  <2>6. /\ engine'.phase = "autoCompact" /\ engine'.prompt = e.prompt /\ engine'.mark = e.mark
        /\ engine'.session = e.session /\ engine'.round = e.round
    BY <1>2, <2>5 DEF Engines
  <2>7. Goes(tui, e, engine', ops', ops')
    <3>1. e.prompt = tui.queue.active
      BY <2>5 DEF Serves, Opening
    <3>2. Unbegun(tui, engine', ops') <=> Unbegun(tui, e, ops')
      BY <2>6 DEF Unbegun, Openings
    <3>3. engine'.phase \notin Begun
      BY <2>6 DEF Begun
    <3>4. QED
      BY <2>5, <2>6, <3>1, <3>2, <3>3 DEF Goes
  <2>8. QED
    BY <2>3, <2>4, <2>5, <2>6, <2>7, SpeaksServes
<1>3. QED
  BY <1>1, <1>2 DEF SignedIn

----------------------------------------------------------------------------
(* The engine keeps the prompts served: what it takes from the channel *)

\* An operation that moves on by itself runs.
LEMMA RacedRuns ==
  ASSUME FInv, AInv, SInv, NEW phases \in SUBSET Racing, Raced(phases)
  PROVE  Runs(engine) /\ EngineOnly /\ engine.phase \in phases /\ engine \in Engines
<1>1. /\ Ready(engine, ops') /\ engine.phase \in phases /\ engine \in Engines
      /\ Agrees(tui, engine, ops', events)
  BY RacedAgrees
<1>2. ops' = ops /\ EngineOnly
  BY DEF Raced, EngineOnly
<1>3. /\ engine.round <= MaxRounds - 1
      /\ Serves(tui, engine, ops, events, said, dropped, typed)
  BY Served
<1>4. QED
  BY <1>1, <1>2, <1>3 DEF Runs

\* What starts no operation is taken from the channel.
LEMMA TakenServes ==
  ASSUME FInv, SInv, NEW kinds, Received(kinds),
         engine.phase # "idle" \/ kinds \cap IdleOnly = {}
  PROVE  /\ Serves(tui, engine, ops', events, said, dropped, typed) /\ EngineOnly
         /\ engine.round <= MaxRounds - 1 /\ events \in Seq(EventRecs) /\ engine \in Engines
<1>1. /\ ops # <<>> /\ ops' = Tail(ops) /\ Head(ops).op \notin IdleOnly
  BY Taken
<1>2. /\ ops \in Seq(Submissions) /\ events \in Seq(EventRecs) /\ engine \in Engines
  BY Closed
<1>3. Asked(ops') = Asked(ops)
  BY <1>1, <1>2, AskedTail
<1>4. /\ engine.round <= MaxRounds - 1
      /\ Serves(tui, engine, ops, events, said, dropped, typed)
  BY Served
<1>5. Same(tui, tui)
  BY DEF Same
<1>6. Serves(tui, engine, ops', events, said, dropped, typed)
  BY <1>3, <1>4, <1>5, SameServes
<1>7. EngineOnly
  BY DEF Received, EngineOnly
<1>8. QED
  BY <1>2, <1>4, <1>6, <1>7

\* So does one that takes an op that is neither a queued prompt nor a mode.
LEMMA AbsorbedRuns ==
  ASSUME FInv, AInv, SInv, NEW kinds, Received(kinds), kinds \cap {"Queue", "SetMode"} = {},
         engine.phase \in Racing
  PROVE  Runs(engine) /\ EngineOnly
<1>1. Ready(engine, ops') /\ Agrees(tui, engine, ops', events)
  BY AbsorbedAgrees
<1>2. engine.phase # "idle"
  BY DEF Racing
<1>3. QED
  BY <1>1, <1>2, TakenServes DEF Runs

\* An op that starts nothing is answered.
LEMMA ServeStaleServes == ASSUME FInv, SInv, ServeStale PROVE SInv'
<1> DEFINE x == OpEnded(Head(ops).id, "Completed")
           kinds == {"Queue", "Interrupt", "LoginCode"}
<1>1. /\ Received(kinds) /\ kinds \cap IdleOnly = {}
      /\ events' = events \o <<x>> /\ engine' = engine /\ said' = said
  BY DEF ServeStale, Emit, IdleOnly, LocalOps, Switches
<1> HIDE DEF kinds
<1>2. /\ Serves(tui, engine, ops', events, said, dropped, typed) /\ EngineOnly
      /\ engine.round <= MaxRounds - 1 /\ events \in Seq(EventRecs)
  BY <1>1, TakenServes
<1>3. Head(ops).id \in Nat /\ Head(ops).id # tui.id
  BY <1>1, TakenNumber
<1>4. "Completed" \in Ends
  BY DEF Ends
<1>5. x \in EventRecs /\ x.ev = "OpEnded" /\ x.id # tui.id
  BY <1>3, <1>4, EventTypes
<1> HIDE DEF x
<1>6. DOMAIN <<x>> = {1} /\ <<x>>[1] = x /\ <<x>> \in Seq(EventRecs)
  BY <1>5, OneView
<1>7. Mutters(tui, <<x>>) /\ Silent(<<x>>)
  BY <1>5, <1>6 DEF Mutters, EndsAt, Silent, Own, LastWords, Hops
<1>8. Goes(tui, engine, engine', ops', ops')
  BY <1>1, <1>2, GoesSame
<1>9. QED
  BY <1>1, <1>2, <1>6, <1>7, <1>8, SpeaksServes

LEMMA ServeModeServes == ASSUME FInv, SInv, ServeMode PROVE SInv'
<1> DEFINE x == ModeChanged(Head(ops).mode)
           y == OpEnded(Head(ops).id, "Completed")
           evs == <<x, y>>
           kinds == {"SetMode"}
<1>1. /\ Received(kinds) /\ kinds \cap IdleOnly = {}
      /\ events' = events \o evs /\ engine' = [engine EXCEPT !.policy = Head(ops).mode]
      /\ said' = said
  BY DEF ServeMode, Emit, IdleOnly, LocalOps, Switches
<1>2. Head(ops) \in Submissions /\ Head(ops).op = "SetMode"
  BY <1>1, Taken
<1> HIDE DEF kinds
<1>3. /\ Serves(tui, engine, ops', events, said, dropped, typed) /\ EngineOnly
      /\ engine.round <= MaxRounds - 1 /\ events \in Seq(EventRecs) /\ engine \in Engines
  BY <1>1, TakenServes
<1>4. Head(ops).id \in Nat /\ Head(ops).id # tui.id /\ Head(ops).mode \in Mode
  BY <1>1, <1>2, TakenNumber DEF Submissions
<1>5. "Completed" \in Ends
  BY DEF Ends
<1>6. /\ x \in EventRecs /\ x.ev = "ModeChanged"
      /\ y \in EventRecs /\ y.ev = "OpEnded" /\ y.id # tui.id
  BY <1>4, <1>5, EventTypes
<1> HIDE DEF x, y
<1>7. DOMAIN evs = {1, 2} /\ evs[1] = x /\ evs[2] = y /\ evs \in Seq(EventRecs)
  BY <1>6
<1> HIDE DEF evs
<1>8. Mutters(tui, evs) /\ Silent(evs)
  BY <1>6, <1>7 DEF Mutters, EndsAt, Silent, Own, LastWords, Hops
<1>9. /\ engine'.phase = engine.phase /\ engine'.prompt = engine.prompt
      /\ engine'.mark = engine.mark /\ engine'.session = engine.session
      /\ engine'.round = engine.round
  BY <1>1, <1>3 DEF Engines
<1>10. Goes(tui, engine, engine', ops', ops')
  BY <1>3, <1>9, GoesSame
<1>11. QED
  BY <1>1, <1>3, <1>7, <1>8, <1>9, <1>10, SpeaksServes

\* An idle engine starts the operation in flight.
LEMMA ServingGoes ==
  ASSUME FInv, SInv, NEW kinds, Received(kinds), kinds \subseteq IdleOnly, Idle,
         NEW phase \in {"signIn", "compact", "login", "local"},
         phase = "signIn" <=> Head(ops).op = "Prompt"
  PROVE  LET f == Serving(phase)
         IN  /\ Goes(tui, engine, f, ops, ops') /\ EngineOnly
             /\ Serves(tui, engine, ops, events, said, dropped, typed)
             /\ Serves(tui, f, ops', events, said, dropped, typed)
             /\ f.round <= MaxRounds - 1 /\ f.session = engine.session /\ f.phase = phase
             /\ Ready(f, ops') /\ events \in Seq(EventRecs)
<1> DEFINE f == Serving(phase)
           s == Head(ops)
           q == tui.queue
<1>1. /\ ops # <<>> /\ ops' = Tail(ops) /\ s.op \in IdleOnly /\ s \in Submissions
      /\ s = ops[1] /\ 1 \in DOMAIN ops
  BY Taken
<1>2. /\ engine \in Engines /\ ops \in Seq(Submissions) /\ events \in Seq(EventRecs)
      /\ Flight(tui, engine, ops, events)
  BY Closed
<1>3. engine.round <= MaxRounds - 1 /\ Serves(tui, engine, ops, events, said, dropped, typed)
  BY Served
<1>4. phase \in Phases \ {"idle"}
  BY DEF Phases, Racing
<1>5. Ready(f, ops')
  BY <1>4, ReadyServed
<1>6. /\ f.phase = phase /\ f.prompt = s.prompt /\ f.session = engine.session
      /\ f.round = engine.round
  BY <1>2 DEF Serving, Engines
<1> HIDE DEF f
<1>7. Asked(ops') = {}
  <2>1. Asks(ops') = {}
    BY <1>4, <1>5, <1>6 DEF Ready, Flight, Stages
  <2>2. QED
    BY <2>1, AskedNone
<1>8. s \in Asked(ops)
  BY <1>1, <1>2, AskedTail
<1>9. tui.op = s.op
  BY <1>1, <1>2 DEF Flight, Stages, Asks
<1>10. tui.op = "Prompt" => f.prompt = q.active
  BY <1>3, <1>6, <1>8, <1>9 DEF Serves, Opening
<1>11. Unbegun(tui, f, ops') <=> Unbegun(tui, engine, ops)
  BY <1>6, <1>7, <1>8, <1>9 DEF Unbegun, Openings
<1>12. f.phase \notin Begun /\ (f.phase \in Openings => f.prompt = q.active)
  BY <1>6, <1>9, <1>10 DEF Begun, Openings
<1>13. ~Over(engine, ops)
  BY <1>8 DEF Over
<1>14. Goes(tui, engine, f, ops, ops')
  BY <1>6, <1>7, <1>11, <1>12, <1>13 DEF Goes
<1>15. Serves(tui, f, ops', events, said, dropped, typed)
  <2>1. Serves(tui, f, ops', events \o <<>>, said, dropped, typed)
    BY <1>2, <1>3, <1>14, MuttersNone, MuttersServes
  <2>2. QED
    BY <1>2, <2>1, ConcatEmptySeq
<1>16. EngineOnly
  BY DEF Received, EngineOnly
<1>17. QED
  BY <1>2, <1>3, <1>5, <1>6, <1>14, <1>15, <1>16 DEF f

\* Starting it leaves the prompts served.
LEMMA ServingServes ==
  ASSUME FInv, SInv, NEW kinds, Received(kinds), kinds \subseteq IdleOnly, Idle,
         NEW phase \in {"signIn", "compact", "login", "local"},
         phase = "signIn" <=> Head(ops).op = "Prompt",
         engine' = Serving(phase), UNCHANGED <<events, said>>
  PROVE  SInv'
<1> DEFINE f == Serving(phase)
<1>1. /\ EngineOnly /\ Serves(tui, f, ops', events, said, dropped, typed)
      /\ f.round <= MaxRounds - 1
  BY ServingGoes
<1> HIDE DEF f
<1>2. engine' = f /\ events' = events /\ said' = said
  BY DEF f
<1>3. QED
  BY <1>1, <1>2, EngineServes

LEMMA ServeLocalServes == ASSUME FInv, SInv, ServeLocal PROVE SInv'
<1>1. /\ Idle /\ Received(LocalOps) /\ engine' = Serving("local") /\ UNCHANGED <<events, said>>
  BY DEF ServeLocal
<1>2. Head(ops).op \in LocalOps
  BY <1>1, Taken
<1>3. LocalOps \subseteq IdleOnly /\ Head(ops).op # "Prompt"
  BY <1>2 DEF IdleOnly, LocalOps, Switches
<1>4. QED
  BY <1>1, <1>3, ServingServes

LEMMA ServeRacingServes == ASSUME FInv, SInv, ServeRacing PROVE SInv'
<1> DEFINE phase == IF Head(ops).op = "Login" THEN "login" ELSE "compact"
<1>1. /\ Idle /\ Received({"Compact", "Login"}) /\ engine' = Serving(phase)
      /\ UNCHANGED <<events, said>>
  BY DEF ServeRacing
<1>2. Head(ops).op \in {"Compact", "Login"}
  BY <1>1, Taken
<1>3. phase \in {"signIn", "compact", "login", "local"} /\ phase # "signIn"
  OBVIOUS
<1> HIDE DEF phase
<1>4. {"Compact", "Login"} \subseteq IdleOnly /\ Head(ops).op # "Prompt"
  BY <1>2 DEF IdleOnly
<1>5. QED
  BY <1>1, <1>3, <1>4, ServingServes

LEMMA ServePromptServes == ASSUME FInv, AInv, SInv, ServePrompt PROVE SInv'
<1> DEFINE f == Serving("signIn")
<1>1. /\ Idle /\ Received({"Prompt"}) /\ {"Prompt"} \subseteq IdleOnly
      /\ "signIn" \in Phases \ {"idle"} /\ "signIn" \in TurnPhases
  BY DEF ServePrompt, IdleOnly, Racing, Phases, TurnPhases
<1>2. Head(ops).op = "Prompt"
  BY <1>1, Taken
<1>3. /\ EngineOnly /\ Serves(tui, f, ops', events, said, dropped, typed)
      /\ f.round <= MaxRounds - 1 /\ f.session = engine.session /\ f.phase = "signIn"
      /\ Ready(f, ops')
  BY <1>1, <1>2, ServingGoes
<1>4. Agrees(tui, f, ops', events)
  <2>1. "signIn" \notin {"compact", "login", "finishLogin", "local"}
    OBVIOUS
  <2>2. QED
    BY <1>1, <1>2, <2>1, ServingAgrees
<1>5. CASE SignedIn(f)
  <2> HIDE DEF f
  <2>1. Runs(f) /\ f.phase \in Openings
    BY <1>3, <1>4 DEF Runs, Openings
  <2>2. QED
    BY <1>3, <1>5, <2>1, SignedInServes
<1>6. CASE engine' = f /\ UNCHANGED <<events, said>>
  BY <1>1, <1>2, <1>6, ServingServes
<1>7. QED
  BY <1>5, <1>6 DEF ServePrompt

LEMMA ServeServes == ASSUME FInv, AInv, SInv, Serve PROVE SInv'
BY ServeStaleServes, ServeModeServes, ServeLocalServes, ServeRacingServes, ServePromptServes
   DEF Serve

----------------------------------------------------------------------------
(* The engine keeps the prompts served: what an operation absorbs *)

LEMMA AbsorbQueueServes == ASSUME FInv, SInv, AbsorbQueue PROVE SInv'
<1>1. /\ engine.phase \in Racing /\ Received({"Queue"})
      /\ engine' = [engine EXCEPT !.mailbox = Append(@, Head(ops).prompt)]
      /\ events' = events /\ said' = said
  BY DEF AbsorbQueue
<1>2. /\ Serves(tui, engine, ops', events, said, dropped, typed) /\ EngineOnly
      /\ engine.round <= MaxRounds - 1 /\ events \in Seq(EventRecs) /\ engine \in Engines
  BY <1>1, TakenServes DEF Racing
<1>3. /\ engine'.phase = engine.phase /\ engine'.prompt = engine.prompt
      /\ engine'.mark = engine.mark /\ engine'.session = engine.session
      /\ engine'.round = engine.round
  BY <1>1, <1>2 DEF Engines
<1>4. Goes(tui, engine, engine', ops', ops')
  BY <1>2, <1>3, GoesSame
<1>5. QED
  BY <1>1, <1>2, <1>3, <1>4, HushServes

LEMMA AbsorbModeServes == ASSUME FInv, SInv, AbsorbMode PROVE SInv'
<1> DEFINE x == ModeChanged(Head(ops).mode)
           kinds == {"SetMode"}
<1>1. /\ engine.phase \in Racing /\ Received(kinds)
      /\ engine' = [engine EXCEPT !.mode = Head(ops).mode]
      /\ events' = events \o <<x>> /\ said' = said
  BY DEF AbsorbMode, Emit
<1>2. Head(ops) \in Submissions /\ Head(ops).op = "SetMode"
  BY <1>1, Taken
<1> HIDE DEF kinds
<1>3. /\ Serves(tui, engine, ops', events, said, dropped, typed) /\ EngineOnly
      /\ engine.round <= MaxRounds - 1 /\ events \in Seq(EventRecs) /\ engine \in Engines
  BY <1>1, TakenServes DEF Racing
<1>4. Head(ops).mode \in Mode
  BY <1>2 DEF Submissions
<1>5. x \in EventRecs /\ x.ev = "ModeChanged"
  BY <1>4, EventTypes
<1> HIDE DEF x
<1>6. DOMAIN <<x>> = {1} /\ <<x>>[1] = x /\ <<x>> \in Seq(EventRecs)
  BY <1>5, OneView
<1>7. Mutters(tui, <<x>>) /\ Silent(<<x>>)
  BY <1>5, <1>6 DEF Mutters, EndsAt, Silent, Own, LastWords, Hops
<1>8. /\ engine'.phase = engine.phase /\ engine'.prompt = engine.prompt
      /\ engine'.mark = engine.mark /\ engine'.session = engine.session
      /\ engine'.round = engine.round
  BY <1>1, <1>3 DEF Engines
<1>9. Goes(tui, engine, engine', ops', ops')
  BY <1>3, <1>8, GoesSame
<1>10. QED
  BY <1>1, <1>3, <1>6, <1>7, <1>8, <1>9, SpeaksServes

LEMMA AbsorbInterruptServes == ASSUME FInv, AInv, SInv, AbsorbInterrupt PROVE SInv'
<1>1. engine.phase \in Racing /\ Received({"Interrupt"}) /\ "Cancelled" \in Ends
  BY DEF AbsorbInterrupt, Ends
<1>2. Runs(engine) /\ EngineOnly
  BY <1>1, AbsorbedRuns
<1>3. CASE engine.phase \in {"signIn", "autoCompact"}
  <2>1. engine.phase \in Openings /\ Unsent("Cancelled")
    BY <1>3 DEF AbsorbInterrupt, Openings
  <2>2. QED
    BY <1>2, <2>1, UnsentStep
<1>4. CASE engine.phase \notin {"signIn", "autoCompact"}
  <2>1. engine.phase \notin Openings /\ End("Cancelled", <<>>) /\ said' = said
    BY <1>4 DEF AbsorbInterrupt, Openings
  <2>2. QED
    BY <1>1, <1>2, <2>1, MuttersNone, EndsServes
<1>5. QED
  BY <1>3, <1>4

\* A sign-in goes on, or takes its code.
LEMMA LoginGoes ==
  ASSUME SInv, EngineOnly, UNCHANGED <<events, said>>, engine \in Engines,
         Serves(tui, engine, ops', events, said, dropped, typed), events \in Seq(EventRecs),
         engine.round <= MaxRounds - 1, engine.phase = "login",
         engine' = [engine EXCEPT !.phase = "finishLogin"] \/ UNCHANGED engine
  PROVE  SInv'
<1>1. /\ engine'.phase \in {"login", "finishLogin"} /\ engine'.session = engine.session
      /\ engine'.round = engine.round
  BY DEF Engines
<1>2. Goes(tui, engine, engine', ops', ops')
  BY <1>1, GoesOn DEF Openings, Begun
<1>3. QED
  BY <1>1, <1>2, HushServes

LEMMA AbsorbCodeServes == ASSUME FInv, SInv, AbsorbCode PROVE SInv'
<1>1. /\ engine.phase = "login" /\ Received({"LoginCode"}) /\ UNCHANGED <<events, said>>
      /\ engine' = [engine EXCEPT !.phase = "finishLogin"] \/ UNCHANGED engine
  BY DEF AbsorbCode
<1>2. /\ Serves(tui, engine, ops', events, said, dropped, typed) /\ EngineOnly
      /\ engine.round <= MaxRounds - 1 /\ events \in Seq(EventRecs) /\ engine \in Engines
  BY <1>1, TakenServes
<1>3. QED
  BY <1>1, <1>2, LoginGoes

LEMMA AbsorbOtherServes == ASSUME FInv, SInv, AbsorbOther PROVE SInv'
<1> DEFINE kinds == IF engine.phase = "login" THEN IdleOnly ELSE IdleOnly \cup {"LoginCode"}
<1>1. engine.phase \in Racing /\ Received(kinds) /\ UNCHANGED <<engine, events, said>>
  BY DEF AbsorbOther
<1> HIDE DEF kinds
<1>2. /\ Serves(tui, engine, ops', events, said, dropped, typed) /\ EngineOnly
      /\ engine.round <= MaxRounds - 1
  BY <1>1, TakenServes DEF Racing
<1>3. QED
  BY <1>1, <1>2, EngineServes

LEMMA AbsorbServes == ASSUME FInv, AInv, SInv, Absorb PROVE SInv'
BY AbsorbQueueServes, AbsorbModeServes, AbsorbInterruptServes, AbsorbCodeServes,
   AbsorbOtherServes DEF Absorb

----------------------------------------------------------------------------
(* The engine keeps the prompts served: what it does *)

\* An operation past its opening ends, with nothing said of a prompt.
LEMMA RacedEnds ==
  ASSUME FInv, AInv, SInv, NEW phases \in SUBSET Racing, Raced(phases), phases \cap Openings = {},
         said' = said, NEW end \in Ends, End(end, <<>>)
  PROVE  SInv'
<1>1. Runs(engine) /\ EngineOnly /\ engine.phase \notin Openings
  BY RacedRuns
<1>2. QED
  BY <1>1, MuttersNone, EndsServes

LEMMA SignInServes == ASSUME FInv, AInv, SInv, SignIn PROVE SInv'
<1>1. Raced({"signIn"}) /\ {"signIn"} \subseteq Racing
  BY RacingPhases DEF SignIn
<1>2. Runs(engine) /\ EngineOnly /\ engine.phase \in Openings
  BY <1>1, RacedRuns DEF Openings
<1>3. CASE SignedIn(engine)
  BY <1>2, <1>3, SignedInServes
<1>4. CASE Unsent("Failed")
  BY <1>2, <1>4, UnsentStep
<1>5. QED
  BY <1>3, <1>4 DEF SignIn

\* One of the engine's words that move no prompt.
LEMMA WordMutters ==
  \A ev \in {"Token", "AutoCompactionStarted", "SessionCompacted", "SavedFound"} :
    <<Event(ev)>> \in Seq(EventRecs) /\ \A t : Mutters(t, <<Event(ev)>>)
<1>1. SUFFICES ASSUME NEW ev \in {"Token", "AutoCompactionStarted", "SessionCompacted", "SavedFound"},
                      NEW t
               PROVE  <<Event(ev)>> \in Seq(EventRecs) /\ Mutters(t, <<Event(ev)>>)
  OBVIOUS
<1>2. ev \in EventKinds \ {"ModeChanged"}
  BY DEF EventKinds
<1>3. Event(ev) \in EventRecs /\ Event(ev).ev = ev
  BY <1>2, EventTypes
<1>4. ev \notin {"PromptDrained", "SessionCompactedMidTurn", "OpEnded"} \cup LastWords
  BY DEF LastWords, Hops
<1>5. QED
  BY <1>3, <1>4, MuttersOne

LEMMA AutoCompactServes == ASSUME FInv, AInv, SInv, AutoCompact PROVE SInv'
<1>1. Raced({"autoCompact"}) /\ {"autoCompact"} \subseteq Racing
  BY RacingPhases DEF AutoCompact
<1>2. Runs(engine) /\ EngineOnly /\ engine.phase \in Openings
  BY <1>1, RacedRuns DEF Openings
<1>3. CASE BeginTurn(engine, <<Event("SessionCompacted")>>)
  <2> DEFINE evs == <<Event("SessionCompacted")>>
  <2>1. evs \in Seq(EventRecs) /\ Mutters(tui, evs)
    BY WordMutters
  <2>2. BeginTurn(engine, evs)
    BY <1>3
  <2> HIDE DEF evs
  <2>3. QED
    BY <1>2, <2>1, <2>2, BeginTurnServes
<1>4. CASE Unsent("Failed")
  BY <1>2, <1>4, UnsentStep
<1>5. QED
  BY <1>3, <1>4 DEF AutoCompact

LEMMA CompactServes == ASSUME FInv, AInv, SInv, Compact PROVE SInv'
<1>1. /\ Raced({"compact"}) /\ {"compact"} \subseteq Racing /\ said' = said
      /\ {"compact"} \cap Openings = {} /\ "Completed" \in Ends /\ "Failed" \in Ends
  BY RacingPhases DEF Compact, Openings, Ends
<1>2. CASE End("Completed", <<Event("SessionCompacted")>>)
  <2> DEFINE evs == <<Event("SessionCompacted")>>
  <2>1. evs \in Seq(EventRecs) /\ Mutters(tui, evs)
    BY WordMutters
  <2>2. End("Completed", evs)
    BY <1>2
  <2> HIDE DEF evs
  <2>3. Runs(engine) /\ EngineOnly /\ engine.phase \notin Openings
    BY <1>1, RacedRuns
  <2>4. QED
    BY <1>1, <2>1, <2>2, <2>3, EndsServes
<1>3. CASE End("Failed", <<>>)
  BY <1>1, <1>3, RacedEnds
<1>4. QED
  BY <1>2, <1>3 DEF Compact

LEMMA LoginServes == ASSUME FInv, AInv, SInv, Login PROVE SInv'
<1>1. /\ {"login"} \subseteq Racing /\ {"login", "finishLogin"} \subseteq Racing
      /\ {"finishLogin"} \subseteq Racing /\ said' = said
      /\ {"login", "finishLogin"} \cap Openings = {} /\ {"finishLogin"} \cap Openings = {}
      /\ "Completed" \in Ends /\ "Failed" \in Ends
  BY RacingPhases DEF Login, Openings, Ends
<1>2. CASE /\ Raced({"login"}) /\ engine' = [engine EXCEPT !.phase = "finishLogin"]
           /\ UNCHANGED events
  <2>1. Runs(engine) /\ EngineOnly /\ engine.phase = "login" /\ engine \in Engines
    BY <1>1, <1>2, RacedRuns
  <2>2. /\ Serves(tui, engine, ops', events, said, dropped, typed) /\ events \in Seq(EventRecs)
        /\ engine.round <= MaxRounds - 1
    BY <2>1, RunsFacts
  <2>3. QED
    BY <1>1, <1>2, <2>1, <2>2, LoginGoes
<1>3. CASE Raced({"login", "finishLogin"}) /\ End("Failed", <<>>)
  BY <1>1, <1>3, RacedEnds
<1>4. CASE Raced({"finishLogin"}) /\ End("Completed", <<>>)
  BY <1>1, <1>4, RacedEnds
<1>5. QED
  BY <1>2, <1>3, <1>4 DEF Login

\* A turn that has begun goes on, with what moves no prompt said.
LEMMA BegunGoes ==
  ASSUME FInv, AInv, SInv, NEW phases \in SUBSET Racing, Raced(phases), phases \subseteq Begun,
         said' = said, NEW evs \in Seq(EventRecs), Mutters(tui, evs), events' = events \o evs,
         engine'.phase \in Begun, engine'.mark = engine.mark, engine'.session = engine.session,
         engine'.round <= MaxRounds - 1
  PROVE  SInv'
<1>1. Runs(engine) /\ EngineOnly /\ engine.phase \in Begun
  BY RacedRuns
<1>2. /\ Serves(tui, engine, ops', events, said, dropped, typed) /\ events \in Seq(EventRecs)
      /\ ~Over(engine, ops')
  BY <1>1, RunsFacts
<1>3. Goes(tui, engine, engine', ops', ops')
  BY <1>1, GoesOn DEF Openings, Begun
<1>4. QED
  BY <1>1, <1>2, <1>3, SpeaksServes

\* A turn that has begun goes on with a part of a reply.
LEMMA TokenServes ==
  ASSUME FInv, AInv, SInv, NEW phases \in SUBSET Racing, Raced(phases), phases \subseteq Begun,
         said' = said, NEW phase \in Begun, engine' = [engine EXCEPT !.phase = phase],
         Emit(<<Event("Token")>>)
  PROVE  SInv'
<1> DEFINE evs == <<Event("Token")>>
<1>1. evs \in Seq(EventRecs) /\ Mutters(tui, evs) /\ events' = events \o evs
  BY WordMutters DEF Emit
<1> HIDE DEF evs
<1>2. engine \in Engines /\ engine.round <= MaxRounds - 1
  BY Closed DEF SInv
<1>3. /\ engine'.phase \in Begun /\ engine'.mark = engine.mark
      /\ engine'.session = engine.session /\ engine'.round = engine.round
  BY <1>2 DEF Engines
<1>4. QED
  BY <1>1, <1>2, <1>3, BegunGoes

\* The phases of a turn that has begun.
LEMMA BegunPhases ==
  /\ {"request"} \subseteq Begun /\ {"request", "reply"} \subseteq Begun
  /\ {"tools"} \subseteq Begun /\ {"midTurnCompact"} \subseteq Begun
  /\ Begun \cap Openings = {} /\ Begun \subseteq TurnPhases
BY DEF Begun, Openings, TurnPhases

LEMMA StreamServes == ASSUME FInv, AInv, SInv, Stream PROVE SInv'
<1>1. /\ Raced({"request"}) /\ {"request"} \subseteq Racing
      /\ engine' = [engine EXCEPT !.phase = "reply"] /\ Emit(<<Event("Token")>>) /\ said' = said
  BY RacingPhases DEF Stream
<1>2. QED
  BY <1>1, BegunPhases, TokenServes

LEMMA CallToolsServes == ASSUME FInv, AInv, SInv, CallTools PROVE SInv'
<1>1. /\ Raced({"request", "reply"}) /\ {"request", "reply"} \subseteq Racing
      /\ engine' = [engine EXCEPT !.phase = "tools"] /\ Emit(<<Event("Token")>>) /\ said' = said
  BY RacingPhases DEF CallTools
<1>2. QED
  BY <1>1, BegunPhases, TokenServes

\* It says nothing.
LEMMA BegunHushes ==
  ASSUME FInv, AInv, SInv, NEW phases \in SUBSET Racing, Raced(phases), phases \subseteq Begun,
         said' = said, events' = events,
         engine'.phase \in Begun, engine'.mark = engine.mark, engine'.session = engine.session,
         engine'.round <= MaxRounds - 1
  PROVE  SInv'
<1>1. events' = events \o <<>>
  BY Closed, ConcatEmptySeq
<1>2. QED
  BY <1>1, MuttersNone, BegunGoes

LEMMA PauseServes == ASSUME FInv, AInv, SInv, Pause PROVE SInv'
<1>1. /\ Raced({"request", "reply"}) /\ {"request", "reply"} \subseteq Racing /\ said' = said
      /\ "Failed" \in Ends
  BY RacingPhases DEF Pause, Ends
<1>2. CASE engine.round + 1 = MaxRounds
  <2>1. End("Failed", <<>>)
    BY <1>2 DEF Pause
  <2>2. {"request", "reply"} \cap Openings = {}
    BY BegunPhases
  <2>3. QED
    BY <1>1, <2>1, <2>2, RacedEnds
<1>3. CASE engine.round + 1 # MaxRounds
  <2>1. engine' = [engine EXCEPT !.phase = "request", !.round = @ + 1] /\ events' = events
    BY <1>3 DEF Pause
  <2>2. engine \in Engines /\ engine.round <= MaxRounds - 1
    BY Closed DEF SInv
  <2>3. /\ engine'.phase = "request" /\ engine'.mark = engine.mark
        /\ engine'.session = engine.session /\ engine'.round = engine.round + 1
    BY <2>1, <2>2 DEF Engines
  <2>4. engine.round \in Nat /\ MaxRounds \in Nat
    BY <2>2, EngineFields, Bounds
  <2>5. engine'.round <= MaxRounds - 1
    BY <1>3, <2>2, <2>3, <2>4
  <2>6. QED
    BY <1>1, <2>1, <2>3, <2>5, BegunPhases, BegunHushes
<1>4. QED
  BY <1>2, <1>3

LEMMA ReplyServes == ASSUME FInv, AInv, SInv, Reply PROVE SInv'
<1>1. /\ Raced({"request", "reply"}) /\ {"request", "reply"} \subseteq Racing /\ said' = said
      /\ "Failed" \in Ends /\ "Completed" \in Ends /\ {"request", "reply"} \cap Openings = {}
  BY RacingPhases, BegunPhases DEF Reply, Ends
<1>2. End("Completed", <<>>) \/ End("Failed", <<>>)
  BY DEF Reply
<1>3. QED
  BY <1>1, <1>2, RacedEnds

LEMMA AbortApprovalServes == ASSUME FInv, AInv, SInv, AbortApproval PROVE SInv'
<1>1. /\ Raced({"tools"}) /\ {"tools"} \subseteq Racing /\ said' = said
      /\ "Cancelled" \in Ends /\ {"tools"} \cap Openings = {} /\ End("Cancelled", <<>>)
  BY RacingPhases, BegunPhases DEF AbortApproval, Ends
<1>2. QED
  BY <1>1, RacedEnds

LEMMA GateServes == ASSUME FInv, AInv, SInv, Gate PROVE SInv'
<1>1. /\ Raced({"tools"}) /\ {"tools"} \subseteq Racing /\ said' = said /\ events' = events
      /\ engine' = ModeApplied(engine)
  BY RacingPhases DEF Gate
<1>2. engine \in Engines /\ engine.round <= MaxRounds - 1
  BY Closed DEF SInv
<1>3. engine.phase = "tools"
  BY <1>1 DEF Raced
<1>4. /\ engine'.phase = engine.phase /\ engine'.mark = engine.mark
      /\ engine'.session = engine.session /\ engine'.round = engine.round
  BY <1>1, <1>2, AppliedTypes
<1>5. QED
  BY <1>1, <1>2, <1>3, <1>4, BegunPhases, BegunHushes

\* A refused turn is taken out of the conversation, and ends.
LEMMA RefuseServes == ASSUME FInv, AInv, SInv, Refuse PROVE SInv'
<1> DEFINE x == Event("TurnRolledBack")
           d == events \o <<x>>
           sd == SubSeq(said, 1, engine.mark)
<1>1. /\ Raced({"request", "reply"}) /\ {"request", "reply"} \subseteq Racing
      /\ said' = sd /\ End("Failed", <<x>>) /\ "Failed" \in Ends
  BY RacingPhases DEF Refuse, Ends
<1>2. Runs(engine) /\ EngineOnly /\ engine.phase \in Begun /\ engine \in Engines
  BY <1>1, RacedRuns, BegunPhases
<1>3. "TurnRolledBack" \in EventKinds \ {"ModeChanged"}
  BY DEF EventKinds
<1>4. x \in EventRecs /\ x.ev = "TurnRolledBack" /\ <<x>> \in Seq(EventRecs)
  BY <1>3, EventTypes
<1> HIDE DEF x
<1>5. /\ engine'.phase = "idle" /\ engine'.round <= MaxRounds - 1
      /\ engine'.session = engine.session /\ engine.id \in Nat
      /\ Emit(<<x>> \o <<OpEnded(engine.id, "Failed")>>)
  BY <1>1, <1>2, EndFields
<1>6. /\ events \in Seq(EventRecs) /\ Asked(ops') = {} /\ ~Over(engine, ops')
      /\ Serves(tui, engine, ops', events, said, dropped, typed) /\ EndsAt(tui, events) = {}
      /\ said \in Seq(Entries) /\ engine.mark \in 0..Len(said)
  BY <1>2, RunsFacts
<1>7. Shown(events) \subseteq Elems(tui.queue.pending)
  BY <1>2, RunsMail
<1>8. Serves(tui, engine', ops', d, sd, dropped, typed)
  BY <1>2, <1>4, <1>5, <1>6, <1>7, RefusedServes
<1> HIDE DEF d, sd
<1>9. Serves(tui, engine', ops', events \o <<x>>, said', dropped, typed)
  BY <1>1, <1>8 DEF d
<1>10. QED
  BY <1>1, <1>2, <1>4, <1>5, <1>6, <1>9, ToldServes

\* The turn takes its mailbox in and goes on, or is done.
LEMMA MailTaken ==
  ASSUME FInv, SInv, Runs(engine), engine.phase \in Begun, NEW f,
         f.phase \in Begun => f.mark = engine.mark, f.phase \notin Openings,
         f.session = engine.session
  PROVE  LET m == engine.mailbox
         IN  /\ Serves(tui, f, ops', events \o Drained(m), said \o Records(m), dropped, typed)
             /\ Drained(m) \in Seq(EventRecs) /\ events \in Seq(EventRecs) /\ Asked(ops') = {}
<1>1. /\ Serves(tui, engine, ops', events, said, dropped, typed) /\ events \in Seq(EventRecs)
      /\ said \in Seq(Entries) /\ engine.mark \in 0..Len(said) /\ Asked(ops') = {}
      /\ engine.phase \in TurnPhases => tui.op = "Prompt"
  BY RunsFacts
<1>2. tui.op = "Prompt"
  BY <1>1, BegunPhases
<1>3. Drained(engine.mailbox) \in Seq(EventRecs)
  BY RunsMail, DrainedView
<1>4. QED
  BY <1>1, <1>2, <1>3, TakesServes

LEMMA RoundDoneServes == ASSUME FInv, AInv, SInv, RoundDone PROVE SInv'
<1> DEFINE a == ModeApplied(engine)
           e == [a EXCEPT !.round = @ + 1]
           m == engine.mailbox
<1>1. Raced({"tools"}) /\ {"tools"} \subseteq Racing /\ "Failed" \in Ends
  BY RacingPhases DEF RoundDone, Ends
<1>2. Runs(engine) /\ EngineOnly /\ engine.phase \in Begun /\ engine \in Engines
  BY <1>1, RacedRuns, BegunPhases
<1>3. engine.round \in Nat /\ engine.round <= MaxRounds - 1 /\ MaxRounds \in Nat
  BY <1>2, RunsFacts, Bounds
<1>4. /\ a \in Engines /\ a.mailbox = m /\ a.session = engine.session /\ a.mark = engine.mark
      /\ a.round = engine.round
  BY <1>2, AppliedTypes
<1>5. \/ said' = said \o Records(e.mailbox) /\ End("Failed", Drained(e.mailbox))
      \/ e.round # MaxRounds /\ Drain([e EXCEPT !.phase = "request"], <<>>)
      \/ /\ e.round # MaxRounds /\ said' = said \o Records(e.mailbox)
         /\ Emit(Append(Drained(e.mailbox), Event("AutoCompactionStarted")))
         /\ engine' = [e EXCEPT !.phase = "midTurnCompact", !.mailbox = <<>>]
  BY DEF RoundDone
<1> HIDE DEF a
<1>6. /\ e.mailbox = m /\ e.session = engine.session /\ e.mark = engine.mark
      /\ e.round = engine.round + 1
  BY <1>4 DEF Engines
<1>7. /\ \A g : g = [e EXCEPT !.phase = "request"] =>
                   g.mailbox = m /\ [g EXCEPT !.mailbox = <<>>].phase = "request"
                   /\ [g EXCEPT !.mailbox = <<>>].mark = e.mark
                   /\ [g EXCEPT !.mailbox = <<>>].session = e.session
                   /\ [g EXCEPT !.mailbox = <<>>].round = e.round
      /\ \A g : g = [e EXCEPT !.phase = "midTurnCompact", !.mailbox = <<>>] =>
                   g.phase = "midTurnCompact" /\ g.mark = e.mark /\ g.session = e.session
                   /\ g.round = e.round
  BY <1>4, <1>6 DEF Engines
<1> HIDE DEF e
<1>8. CASE said' = said \o Records(e.mailbox) /\ End("Failed", Drained(e.mailbox))
  <2>1. said' = said \o Records(m) /\ End("Failed", Drained(m))
    BY <1>6, <1>8
  <2>2. /\ engine'.phase = "idle" /\ engine'.round <= MaxRounds - 1
        /\ engine'.session = engine.session /\ engine.id \in Nat
        /\ Emit(Drained(m) \o <<OpEnded(engine.id, "Failed")>>)
    BY <1>2, <2>1, EndFields
  <2>3. engine'.phase \notin Begun /\ engine'.phase \notin Openings
    BY <2>2 DEF Begun, Openings
  <2>4. /\ Serves(tui, engine', ops', events \o Drained(m), said \o Records(m), dropped, typed)
        /\ Drained(m) \in Seq(EventRecs) /\ events \in Seq(EventRecs) /\ Asked(ops') = {}
    BY <1>2, <2>2, <2>3, MailTaken
  <2>5. Serves(tui, engine', ops', events \o Drained(m), said', dropped, typed)
    BY <2>1, <2>4
  <2> HIDE DEF m
  <2>6. QED
    BY <1>1, <1>2, <2>2, <2>4, <2>5, ToldServes
<1>9. CASE e.round # MaxRounds /\ Drain([e EXCEPT !.phase = "request"], <<>>)
  <2> DEFINE g == [e EXCEPT !.phase = "request"]
             f == [g EXCEPT !.mailbox = <<>>]
  <2>1. /\ g.mailbox = m /\ f.phase = "request" /\ f.mark = e.mark /\ f.session = e.session
        /\ f.round = e.round
    BY <1>7
  <2>2. said' = said \o Records(m) /\ events' = events \o (<<>> \o Drained(m)) /\ engine' = f
    BY <1>9, <2>1 DEF Drain, Emit
  <2> HIDE DEF f
  <2>3. f.phase \notin Openings
    BY <2>1 DEF Openings
  <2>4. /\ Serves(tui, f, ops', events \o Drained(m), said \o Records(m), dropped, typed)
        /\ Drained(m) \in Seq(EventRecs)
    BY <1>2, <1>6, <2>1, <2>3, MailTaken
  <2>5. <<>> \o Drained(m) = Drained(m)
    BY <2>4, ConcatEmptySeq
  <2>6. Serves(tui, engine', ops', events', said', dropped, typed)
    BY <2>2, <2>4, <2>5
  <2>7. engine'.round <= MaxRounds - 1
    BY <1>3, <1>6, <1>9, <2>1, <2>2
  <2>8. QED
    BY <1>2, <2>6, <2>7, EngineServes
<1>10. CASE /\ e.round # MaxRounds /\ said' = said \o Records(e.mailbox)
            /\ Emit(Append(Drained(e.mailbox), Event("AutoCompactionStarted")))
            /\ engine' = [e EXCEPT !.phase = "midTurnCompact", !.mailbox = <<>>]
  <2> DEFINE x == Event("AutoCompactionStarted")
             d == Drained(m)
             es == events \o d
  <2>1. /\ engine'.phase = "midTurnCompact" /\ engine'.mark = engine.mark
        /\ engine'.session = engine.session /\ engine'.round = engine.round + 1
    BY <1>6, <1>7, <1>10
  <2>2. said' = said \o Records(m) /\ events' = events \o Append(d, x)
    BY <1>6, <1>10 DEF Emit
  <2>3. engine'.phase \notin Openings
    BY <2>1 DEF Openings
  <2>4. /\ Serves(tui, engine', ops', es, said', dropped, typed)
        /\ d \in Seq(EventRecs) /\ events \in Seq(EventRecs)
    BY <1>2, <2>1, <2>2, <2>3, MailTaken
  <2>5. x \in EventRecs
    BY EventTypes DEF EventKinds
  <2>6. <<x>> \in Seq(EventRecs) /\ Mutters(tui, <<x>>)
    BY WordMutters
  <2> HIDE DEF x, d
  <2>7. Append(d, x) = d \o <<x>>
    BY <2>4, <2>5, AppendIsConcat
  <2>8. events' = es \o <<x>> /\ es \in Seq(EventRecs)
    BY <2>2, <2>4, <2>6, <2>7, ConcatAssociative, ConcatProperties
  <2>9. Goes(tui, engine', engine', ops', ops')
    BY <2>4, GoesSame
  <2>10. ~Over(engine', ops')
    BY <2>1 DEF Over
  <2> HIDE DEF es
  <2>11. Serves(tui, engine', ops', es \o <<x>>, said', dropped, typed)
    BY <2>4, <2>6, <2>8, <2>9, <2>10, MuttersServes
  <2>12. engine'.round <= MaxRounds - 1
    BY <1>3, <1>6, <1>10, <2>1
  <2>13. Serves(tui, engine', ops', events', said', dropped, typed)
    BY <2>8, <2>11
  <2>14. QED
    BY <1>2, <2>12, <2>13, EngineServes
<1>11. QED
  BY <1>5, <1>8, <1>9, <1>10

\* A summary shows no prompt.
LEMMA MidShown ==
  ASSUME NEW es \in Seq(EventRecs), NEW x \in EventRecs, x.ev = "SessionCompactedMidTurn"
  PROVE  es \o <<x>> \in Seq(EventRecs) /\ Shown(es \o <<x>>) = Shown(es)
<1> DEFINE o == <<x>>
           d == es \o o
<1>1. /\ o \in Seq(EventRecs) /\ Confirms(o) = {}
  BY OneView DEF Hops
<1>2. Shown(o) = {}
  BY <1>1, Placed
<1> HIDE DEF o
<1>3. d \in Seq(EventRecs) /\ Shown(d) = Shown(es) \cup Shown(o)
  BY <1>1, SaidView
<1>4. QED
  BY <1>2, <1>3 DEF o

LEMMA MidTurnCompactServes == ASSUME FInv, AInv, SInv, MidTurnCompact PROVE SInv'
<1>1. /\ Raced({"midTurnCompact"}) /\ {"midTurnCompact"} \subseteq Racing /\ "Failed" \in Ends
      /\ {"midTurnCompact"} \cap Openings = {}
  BY RacingPhases DEF MidTurnCompact, Ends, Openings
<1>2. CASE End("Failed", <<>>) /\ UNCHANGED said
  BY <1>1, <1>2, RacedEnds
<1>3. CASE Drain([ModeApplied(engine) EXCEPT !.phase = "request", !.mark = Len(said)],
                 <<Event("SessionCompactedMidTurn")>>)
  <2> DEFINE a == ModeApplied(engine)
             g == [a EXCEPT !.phase = "request", !.mark = Len(said)]
             f == [g EXCEPT !.mailbox = <<>>]
             x == Event("SessionCompactedMidTurn")
             es == events \o <<x>>
             m == engine.mailbox
  <2>1. Runs(engine) /\ EngineOnly /\ engine.phase \in Begun /\ engine \in Engines
    BY <1>1, RacedRuns, BegunPhases
  <2>2. /\ a \in Engines /\ a.mailbox = m /\ a.session = engine.session
        /\ a.round = engine.round
    BY <2>1, AppliedTypes
  <2>3. Drain(g, <<x>>)
    BY <1>3
  <2> HIDE DEF a
  <2>4. /\ g.mailbox = m /\ f.phase = "request" /\ f.mark = Len(said)
        /\ f.session = engine.session /\ f.round = engine.round
    BY <2>2 DEF Engines
  <2>5. said' = said \o Records(m) /\ events' = events \o (<<x>> \o Drained(m)) /\ engine' = f
    BY <2>3, <2>4 DEF Drain, Emit
  <2> HIDE DEF f
  <2>6. "SessionCompactedMidTurn" \in EventKinds \ {"ModeChanged"}
    BY DEF EventKinds
  <2>7. x \in EventRecs /\ x.ev = "SessionCompactedMidTurn" /\ <<x>> \in Seq(EventRecs)
    BY <2>6, EventTypes
  <2> HIDE DEF x
  <2>8. /\ Serves(tui, engine, ops', events, said, dropped, typed) /\ events \in Seq(EventRecs)
        /\ said \in Seq(Entries) /\ Asked(ops') = {} /\ engine.round <= MaxRounds - 1
        /\ engine.phase \in TurnPhases => tui.op = "Prompt"
    BY <2>1, RunsFacts
  <2>9. tui.op = "Prompt"
    BY <2>1, <2>8, BegunPhases
  <2>10. Serves(tui, f, ops', es, said, dropped, typed)
    BY <2>1, <2>4, <2>7, <2>8, <2>9, MidServes
  <2>11. es \in Seq(EventRecs) /\ Shown(es) = Shown(events)
    BY <2>7, <2>8, MidShown
  <2>12. f.phase \in Begun /\ f.phase \notin Openings /\ Len(said) \in 0..Len(said)
    BY <2>4, <2>8, LenProperties DEF Begun, Openings
  <2> HIDE DEF es, m
  <2>13. Serves(tui, f, ops', es \o Drained(m), said \o Records(m), dropped, typed)
    BY <2>1, <2>4, <2>8, <2>9, <2>10, <2>11, <2>12, TakesServes DEF m
  <2>14. Drained(m) \in Seq(EventRecs)
    BY <2>1, RunsMail, DrainedView DEF m
  <2>15. events' = es \o Drained(m)
    BY <2>5, <2>7, <2>8, <2>14, ConcatAssociative DEF es
  <2>16. Serves(tui, engine', ops', events', said', dropped, typed)
    BY <2>5, <2>13, <2>15
  <2>17. QED
    BY <2>1, <2>4, <2>5, <2>8, <2>16, EngineServes
<1>4. QED
  BY <1>2, <1>3 DEF MidTurnCompact

LEMMA ProgressServes == ASSUME FInv, AInv, SInv, Progress PROVE SInv'
BY SignInServes, AutoCompactServes, CompactServes, LoginServes, StreamServes, PauseServes,
   ReplyServes, RefuseServes, CallToolsServes, GateServes, RoundDoneServes, AbortApprovalServes,
   MidTurnCompactServes DEF Progress

\* An operation that runs to its end before the next op is read.
LEMMA LocalRuns ==
  ASSUME FInv, AInv, SInv, RunLocal
  PROVE  /\ Runs(engine) /\ EngineOnly /\ said' = said /\ engine.phase = "local"
         /\ engine.phase \notin Openings /\ engine \in Engines /\ tui.op = engine.op
<1>1. engine.phase = "local" /\ ops' = ops /\ said' = said /\ EngineOnly
  BY DEF RunLocal, EngineOnly
<1>2. /\ Ready(engine, ops) /\ Agrees(tui, engine, ops, events) /\ engine \in Engines
      /\ Phased(engine)
  BY <1>1, ReadyRuns, Closed DEF AInv, Agrees
<1>3. /\ engine.round <= MaxRounds - 1
      /\ Serves(tui, engine, ops, events, said, dropped, typed)
  BY Served
<1>4. Runs(engine)
  BY <1>1, <1>2, <1>3 DEF Runs
<1>5. QED
  BY <1>1, <1>2, <1>4, RunsOwn DEF Openings

LEMMA RunLocalServes == ASSUME FInv, AInv, SInv, RunLocal PROVE SInv'
<1> DEFINE over == [engine EXCEPT !.phase = "idle", !.id = 0, !.op = "none"]
           x == OpEnded(engine.id, "Completed")
           y == OpEnded(engine.id, "Failed")
<1>1. /\ Runs(engine) /\ EngineOnly /\ said' = said /\ engine.phase = "local"
      /\ engine.phase \notin Openings /\ engine \in Engines /\ tui.op = engine.op
  BY LocalRuns
<1>2. \/ /\ engine.op \in Switches
         /\ engine' = [over EXCEPT !.session = @ + 1]
         /\ Emit(<<Event(IF engine.op = "Resume" THEN "SessionResumed" ELSE "SessionRolled")>>
                 \o <<x>>)
      \/ /\ engine' = over
         /\ Emit((IF engine.op = "FindSaved" THEN <<Event("SavedFound")>> ELSE <<>>) \o <<x>>)
      \/ engine' = over /\ Emit(<<y>>)
  BY DEF RunLocal
<1>3. /\ over \in Engines /\ over.phase = "idle" /\ over.session = engine.session
      /\ over.round = engine.round
  BY <1>1 DEF Engines, Phases
<1>4. /\ engine.id \in Nat /\ "Completed" \in Ends /\ "Failed" \in Ends
      /\ engine.round <= MaxRounds - 1
  BY <1>1, EngineFields, RunsFacts DEF Ends
<1> HIDE DEF over
<1>5. CASE /\ engine.op \in Switches
           /\ engine' = [over EXCEPT !.session = @ + 1]
           /\ Emit(<<Event(IF engine.op = "Resume" THEN "SessionResumed" ELSE "SessionRolled")>>
                   \o <<x>>)
  <2> DEFINE ev == IF engine.op = "Resume" THEN "SessionResumed" ELSE "SessionRolled"
             z == Event(ev)
             d == events \o <<z>>
  <2>1. z \in EventRecs /\ z.ev \in Hops
    <3>1. ev \in EventKinds \ {"ModeChanged"} /\ ev \in Hops
      BY DEF EventKinds, Hops
    <3> HIDE DEF ev
    <3>2. QED
      BY <3>1, EventTypes
  <2>2. /\ engine'.phase = "idle" /\ engine'.session = engine.session + 1
        /\ engine'.round = engine.round
    BY <1>3, <1>5 DEF Engines
  <2>3. Emit(<<z>> \o <<OpEnded(engine.id, "Completed")>>)
    BY <1>5
  <2> HIDE DEF z
  <2>4. <<z>> \in Seq(EventRecs)
    BY <2>1
  <2>5. /\ events \in Seq(EventRecs) /\ Asked(ops') = {} /\ ~Over(engine, ops')
        /\ Serves(tui, engine, ops', events, said, dropped, typed) /\ EndsAt(tui, events) = {}
        /\ ~Unsaid(tui.queue, events) /\ ~Undone(tui.queue, events)
    BY <1>1, RunsFacts
  <2>6. tui.op # "Prompt"
    BY <1>1, <1>5 DEF Switches
  <2>7. Serves(tui, engine', ops', d, said, dropped, typed)
    BY <2>1, <2>2, <2>5, <2>6, ReachedServes
  <2>8. ~Unsaid(tui.queue, d) /\ ~Undone(tui.queue, d)
    <3>1. z.ev \in LastWords
      BY <2>1 DEF LastWords
    <3>2. Words(d) = Words(events) \cup {z.ev}
      BY <2>1, <2>5, <3>1, WordView
    <3> HIDE DEF d
    <3>3. QED
      BY <2>1, <2>5, <3>2 DEF Unsaid, Undone, Hops
  <2>9. QED
    BY <1>1, <1>4, <2>2, <2>3, <2>4, <2>5, <2>7, <2>8, ToldServes
<1>6. CASE /\ engine' = over
           /\ Emit((IF engine.op = "FindSaved" THEN <<Event("SavedFound")>> ELSE <<>>) \o <<x>>)
  <2> DEFINE evs == IF engine.op = "FindSaved" THEN <<Event("SavedFound")>> ELSE <<>>
  <2>1. evs \in Seq(EventRecs) /\ Mutters(tui, evs)
    BY WordMutters, MuttersNone
  <2>2. Emit(evs \o <<OpEnded(engine.id, "Completed")>>)
    BY <1>6
  <2> HIDE DEF evs
  <2>3. QED
    BY <1>1, <1>3, <1>4, <1>6, <2>1, <2>2, OverServes
<1>7. CASE engine' = over /\ Emit(<<y>>)
  <2>1. y \in EventRecs
    BY <1>4, EventTypes
  <2>2. <<>> \o <<y>> = <<y>>
    BY <2>1, ConcatEmptySeq
  <2>3. Emit(<<>> \o <<OpEnded(engine.id, "Failed")>>)
    BY <1>7, <2>2
  <2>4. QED
    BY <1>1, <1>3, <1>4, <1>7, <2>3, MuttersNone, OverServes
<1>8. QED
  BY <1>2, <1>5, <1>6, <1>7

----------------------------------------------------------------------------
(* The prompts are served *)

\* Nothing is typed at first.
LEMMA InitServes == ASSUME Init PROVE SInv
<1>1. /\ tui.op = "none" /\ tui.queue = EmptyQueue /\ tui.input = NoPrompt /\ tui.epoch = 1
      /\ engine.phase = "idle" /\ engine.session = 1 /\ engine.round = 0
      /\ ops = <<>> /\ events = <<>> /\ said = <<>> /\ dropped = {}
      /\ typed = [p \in Prompt |-> [at |-> 0, late |-> FALSE]]
  BY DEF Init
<1>2. tui \in UIs /\ ops \in Seq(Submissions) /\ events \in Seq(EventRecs)
  BY InitHolds, Closed
<1>3. DOMAIN <<>> = {} /\ Len(<<>>) = 0
  OBVIOUS
<1>4. Spoken(said) = {} /\ Elems(<<>>) = {}
  BY <1>1, <1>3 DEF Spoken, Elems
<1>5. \A p \in Prompt : typed[p].at = 0
  BY <1>1
<1>6. typed \in Histories /\ engine.round <= MaxRounds - 1
  BY <1>1, Bounds DEF Histories
<1>7. Calm(1, engine, events, said, typed) /\ Asked(ops) = {}
  BY <1>1, <1>2, <1>3 DEF Calm, Silent, SaidWell, Asked, Asks
<1>8. Holds(EmptyQueue, NoPrompt, NoPrompt, 1, {}, {}, typed)
  <2> DEFINE q == EmptyQueue
  <2>1. /\ q.active = NoPrompt /\ q.drained = <<>> /\ q.handBack = "nothing" /\ q.pending = <<>>
        /\ q.switch = NoSwitch
    BY DEF EmptyQueue
  <2>2. ~SwitchAsked(q)
    BY <2>1 DEF SwitchAsked, NoSwitch
  <2> HIDE DEF q
  <2>3. Holds(q, NoPrompt, NoPrompt, 1, {}, {}, typed)
    BY <1>3, <1>4, <1>5, <2>1, <2>2 DEF Holds, Once, Aims, Lapses
  <2>4. QED
    BY <2>3 DEF q
<1>9. QED
  BY <1>1, <1>2, <1>4, <1>6, <1>7, <1>8, HoldsServes DEF SInv

LEMMA StepServes == ASSUME FInv, AInv, SInv, [Next]_vars PROVE SInv'
<1>1. CASE UNCHANGED vars
  BY <1>1 DEF vars, SInv
<1>2. CASE Rest
  BY <1>2 DEF Rest, vars, SInv
<1>3. QED
  BY <1>1, <1>2, UserServes, EventServes, ServeServes, AbsorbServes, ProgressServes,
     RunLocalServes DEF Next

\* A sequence with no two equal prompts has as many as it is long.
LEMMA SpokenCount ==
  ASSUME NEW sd \in Seq(Entries), \A i, j \in DOMAIN sd : sd[i].prompt = sd[j].prompt => i = j
  PROVE  Cardinality({sd[i].prompt : i \in 1..Len(sd)}) = Len(sd)
<1> DEFINE n == Len(sd)
           S == {sd[i].prompt : i \in 1..n}
           f == [i \in 1..n |-> sd[i].prompt]
<1>1. n \in Nat /\ DOMAIN sd = 1..n
  BY LenProperties
<1>2. f \in Bijection(1..n, S)
  BY <1>1 DEF Bijection, Injection, Surjection, IsInjective
<1>3. ExistsBijection(1..n, S)
  BY <1>2 DEF ExistsBijection
<1> HIDE DEF S, n
<1>4. IsFiniteSet(1..n) /\ Cardinality(1..n) = n
  <2>1. 1 \in Int /\ n \in Int
    BY <1>1
  <2>2. IsFiniteSet(1..n) /\ Cardinality(1..n) = IF 1 > n THEN 0 ELSE n - 1 + 1
    BY <2>1, FS_Interval
  <2>3. QED
    BY <1>1, <2>2
<1>5. Cardinality(S) = n
  BY <1>3, <1>4, FS_Bijection
<1>6. QED
  BY <1>5 DEF S, n

\* Every variable has its type.
LEMMA ServedTypes == ASSUME FInv, AInv, SInv PROVE TypeOK
<1>1. /\ tui \in UIs /\ tui.queue \in Queues /\ engine \in Engines
      /\ ops \in Seq(Submissions) /\ Len(ops) <= OpCap
      /\ said \in Seq(Entries) /\ engine.mark <= Len(said)
  BY Closed, EngineFacts
<1>2. tui.queue.forwarded <= Len(tui.queue.pending) /\ engine.round <= MaxRounds - 1
  BY DEF AInv, Agrees, Shaped, SInv
<1>3. tui.queue \in [active : Prompt \cup {NoPrompt}, handBack : HandBacks,
                     pending : Seq(Prompt), held : BOOLEAN,
                     forwarded : 0..Len(tui.queue.pending), drained : Seq(Prompt),
                     switch : [to : Targets, before : Nat]]
  <2>1. tui.queue.forwarded \in 0..Len(tui.queue.pending)
    <3>1. tui.queue.forwarded \in Nat /\ Len(tui.queue.pending) \in Nat
      BY <1>1, QueueFields, LenProperties
    <3>2. QED
      BY <1>2, <3>1
  <2>2. QED
    BY <1>1, <2>1 DEF Queues
<1>4. /\ tui.op \in IdleOnly \cup {"none"}
      /\ tui.activity \in {"none", "running", "compacting", "cancelling"}
      /\ tui.input \in Prompt \cup {NoPrompt} /\ {tui.requested, tui.shown} \subseteq Mode
      /\ tui.modal \in Modals /\ tui.awaits \in BOOLEAN
      /\ {tui.id, tui.epoch, tui.nextId} \subseteq Nat
  BY <1>1 DEF UIs
<1>5. /\ engine.phase \in Phases /\ engine.op \in IdleOnly \cup {"none"}
      /\ engine.mailbox \in Seq(Prompt) /\ engine.policy \in Mode
      /\ engine.mode \in Mode \cup {NoMode} /\ engine.prompt \in Prompt \cup {NoPrompt}
      /\ engine.round \in Nat /\ engine.mark \in Nat
  BY <1>1, EngineFields
<1>6. engine.round \in 0..(MaxRounds - 1) /\ engine.mark \in 0..Len(said)
  <2>1. MaxRounds \in Nat /\ Len(said) \in Nat
    BY <1>1, Bounds, LenProperties
  <2>2. QED
    BY <1>1, <1>2, <1>5, <2>1
<1>7. ops \in Seq([op : OpKinds, id : Nat, prompt : Prompt \cup {NoPrompt},
                   mode : Mode \cup {NoMode}])
  <2> DEFINE R == [op : OpKinds, id : Nat, prompt : Prompt \cup {NoPrompt},
                   mode : Mode \cup {NoMode}]
  <2>1. Submissions \subseteq R
    BY DEF Submissions
  <2> HIDE DEF R
  <2>2. ops \in Seq(R)
    BY <1>1, <2>1
  <2>3. QED
    BY <2>2 DEF R
<1>8. QED
  BY <1>1, <1>3, <1>4, <1>5, <1>6, <1>7 DEF TypeOK

\* The invariant says that the prompts are served.
LEMMA ServedAll == ASSUME FInv, AInv, SInv PROVE PromptsServed
<1> DEFINE q == tui.queue
<1>1. /\ said \in Seq(Entries)
      /\ SaidWell(said, typed) /\ Kept(tui, Spoken(said), dropped, typed)
  BY Served DEF Serves
<1>2. DOMAIN said = 1..Len(said)
  BY <1>1, LenProperties
<1>3. Spoken(said) = Said
  BY <1>2 DEF Spoken, Said
<1>4. NothingLost
  <2>1. ASSUME NEW p \in Prompt, typed[p].at # 0
        PROVE  \/ p \in Said \cup dropped \cup {tui.input, q.active}
               \/ p \in Elems(q.pending) \cup Elems(q.drained)
    BY <1>1, <1>3, <2>1 DEF Kept, Held, Fore
  <2>2. QED
    BY <2>1 DEF NothingLost
<1>5. RunsOnce
  <2>1. Cardinality(Said) = Len(said)
    BY <1>1, SpokenCount DEF SaidWell, Said
  <2>2. ~Busy(tui) => Said \cap (Elems(q.pending) \cup {tui.input}) = {}
    <3>1. ~Busy(tui) =>
            Holds(q, tui.input, NoPrompt, tui.epoch, Spoken(said), dropped, typed)
      BY Served
    <3>2. QED
      BY <1>3, <3>1 DEF Holds
  <2>3. QED
    BY <2>1, <2>2 DEF RunsOnce
<1>6. HomeSession
  BY <1>1, <1>2 DEF SaidWell, Home, HomeSession
<1>7. QED
  BY <1>4, <1>5, <1>6, ServedTypes DEF PromptsServed

\* Every prompt the user submits is always served (queue.rs, app/events.rs, engine/turn.rs): it is
\* in the conversation of a session it was typed for, once, or the UI still holds it, or it was
\* discarded with a notice; whatever was cancelled, refused, rolled back, compacted or switched
\* meanwhile, and however late its confirmation is read.
THEOREM PromptsAlwaysServed == Spec => []PromptsServed
<1>1. Init => FInv /\ AInv /\ SInv
  BY InitHolds, InitAgrees, InitServes
<1>2. FInv /\ AInv /\ SInv /\ [Next]_vars => FInv' /\ AInv' /\ SInv'
  BY StepHolds, StepAgrees, StepServes
<1>3. FInv /\ AInv /\ SInv => PromptsServed
  BY ServedAll
<1>4. QED
  BY <1>1, <1>2, <1>3, PTL DEF Spec
============================================================================
