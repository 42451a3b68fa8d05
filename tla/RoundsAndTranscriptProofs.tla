---------------------- MODULE RoundsAndTranscriptProofs ----------------------
(***************************************************************************)
(* Proofs about what a turn does and what it leaves, which the modules     *)
(* ToolRound and LiveTranscript describe, each by variables of its own.    *)
(*                                                                         *)
(* ToolRound, for any calls, modes and channel size: a round answers every *)
(* call and tells the truth about it, a call passes the gate by the user's *)
(* consent or the policy, and no effect outlives its round.  The inductive *)
(* invariant follows every call of a round from the batches to come, over  *)
(* the gate and the running ones, to its result, and every request from    *)
(* the engine to the user and back.                                        *)
(*                                                                         *)
(* LiveTranscript, for any transcripts a session may have been left with,  *)
(* any length and any number of retries: every request is one the API      *)
(* takes, and memory shows the model what a resume would.  The inductive   *)
(* invariant splits the session into what an earlier process left and what *)
(* this one added: memory holds the repair of the first and the same       *)
(* messages, all of them whole rounds with IDs of their own, so another    *)
(* repair finds nothing to do in them, and a rollback point is the same    *)
(* place of them in both.  Filters of sequences are proved about by        *)
(* induction on their length, which a well-founded set of numbers gives.   *)
(***************************************************************************)
EXTENDS ToolRound, LiveTranscript, TLAPS, FiniteSetTheorems, SequenceTheorems,
        WellFoundedInduction

-----------------------------------------------------------------------------
(***************************************************************************)
(* Sequences                                                               *)
(***************************************************************************)
Elems(s)    == {s[i] : i \in 1 .. Len(s)}
Distinct(s) == \A i, j \in 1 .. Len(s) : s[i] = s[j] => i = j

LEMMA ElemsAppend ==
    ASSUME NEW S, NEW s \in Seq(S), NEW x \in S
    PROVE  /\ Append(s, x) \in Seq(S) /\ Len(Append(s, x)) = Len(s) + 1
           /\ Elems(Append(s, x)) = Elems(s) \cup {x}
<1> DEFINE d == Append(s, x)
           n == Len(s)
<1>1. /\ d \in Seq(S) /\ Len(d) = n + 1 /\ n \in Nat /\ d[n + 1] = x
      /\ \A i \in 1 .. n : d[i] = s[i]
  OBVIOUS
<1> HIDE DEF d
<1>2. Elems(d) = Elems(s) \cup {x}
  <2>1. n + 1 \in 1 .. Len(d) /\ \A i \in 1 .. n : i \in 1 .. Len(d)
    BY <1>1
  <2>2. \A i \in 1 .. Len(d) : i \in 1 .. n \/ i = n + 1
    BY <1>1
  <2>3. QED
    BY <1>1, <2>1, <2>2 DEF Elems
<1>3. QED
  BY <1>1, <1>2 DEF d

LEMMA ElemsTail ==
    ASSUME NEW S, NEW s \in Seq(S), s # <<>>
    PROVE  /\ Tail(s) \in Seq(S) /\ Len(Tail(s)) <= Len(s) /\ Head(s) \in S
           /\ Elems(s) = Elems(Tail(s)) \cup {Head(s)}
<1> DEFINE d == Tail(s)
           n == Len(s)
<1>1. /\ d \in Seq(S) /\ n \in Nat /\ n >= 1 /\ Len(d) = n - 1
      /\ \A i \in 1 .. n - 1 : d[i] = s[i + 1]
      /\ Head(s) = s[1] /\ s[1] \in S
  OBVIOUS
<1> HIDE DEF d
<1>2. Elems(s) = Elems(d) \cup {s[1]}
  <2>1. \A i \in 1 .. n : i = 1 \/ (i - 1 \in 1 .. n - 1 /\ s[i] = d[i - 1])
    BY <1>1
  <2>2. 1 \in 1 .. n /\ \A i \in 1 .. n - 1 : i + 1 \in 1 .. n
    BY <1>1
  <2>3. QED
    BY <1>1, <2>1, <2>2 DEF Elems
<1>3. QED
  BY <1>1, <1>2 DEF d

LEMMA ElemsPush ==
    ASSUME NEW S, NEW s \in Seq(S), NEW x \in S
    PROVE  <<x>> \o s \in Seq(S) /\ Elems(<<x>> \o s) = Elems(s) \cup {x}
<1> DEFINE d == <<x>> \o s
           n == Len(s)
<1>1. /\ d \in Seq(S) /\ n \in Nat /\ Len(d) = n + 1 /\ d[1] = x
      /\ \A i \in 1 .. n : d[i + 1] = s[i]
  OBVIOUS
<1> HIDE DEF d
<1>2. Elems(d) = Elems(s) \cup {x}
  <2>1. \A i \in 1 .. n + 1 : i = 1 \/ (i - 1 \in 1 .. n /\ d[i] = s[i - 1])
    BY <1>1
  <2>2. Elems(d) \subseteq Elems(s) \cup {x}
    BY <1>1, <2>1 DEF Elems
  <2>3. \A i \in 1 .. n : i + 1 \in 1 .. Len(d) /\ d[i + 1] = s[i]
    BY <1>1
  <2>4. Elems(s) \subseteq Elems(d)
    BY <1>1, <2>3 DEF Elems
  <2>5. 1 \in 1 .. Len(d) /\ d[1] = x
    BY <1>1
  <2>6. x \in Elems(d)
    BY <2>5 DEF Elems
  <2>7. QED
    BY <2>2, <2>4, <2>6
<1>3. QED
  BY <1>1, <1>2 DEF d

LEMMA SeqOfFunction ==
    ASSUME NEW S, NEW n \in Nat, NEW f \in [1 .. n -> S]
    PROVE  f \in Seq(S) /\ Len(f) = n
<1>1. f \in Seq(S)
  BY SeqDef
<1>2. 1 .. Len(f) = 1 .. n /\ Len(f) \in Nat
  BY <1>1, LenProperties
<1>3. /\ \A i \in 1 .. n : i <= Len(f)
      /\ \A i \in 1 .. Len(f) : i <= n
  BY <1>2
<1>4. n >= 1 => n \in 1 .. n
  OBVIOUS
<1>5. Len(f) >= 1 => Len(f) \in 1 .. Len(f)
  BY <1>2
<1>6. QED
  BY <1>1, <1>2, <1>3, <1>4, <1>5

LEMMA ElemsEmpty == Elems(<<>>) = {} /\ Distinct(<<>>)
BY DEF Elems, Distinct

\* A sequence without repetition, cut in two.
LEMMA ElemsCut ==
    ASSUME NEW S, NEW s \in Seq(S), NEW n \in 1 .. Len(s), Distinct(s)
    PROVE  LET l == SubSeq(s, 1, n)
               r == SubSeq(s, n + 1, Len(s))
           IN  /\ l \in Seq(S) /\ r \in Seq(S) /\ Len(l) = n
               /\ Distinct(l) /\ Distinct(r)
               /\ Elems(l) \cup Elems(r) = Elems(s)
               /\ Elems(l) \cap Elems(r) = {}
               /\ \A i \in 1 .. n : l[i] = s[i]
<1> DEFINE l == SubSeq(s, 1, n)
           r == SubSeq(s, n + 1, Len(s))
           m == Len(s)
<1>1. /\ m \in Nat /\ n \in Nat /\ n >= 1 /\ n <= m
      /\ l \in Seq(S) /\ Len(l) = n /\ \A i \in 1 .. n : l[i] = s[i]
      /\ r \in Seq(S) /\ Len(r) = m - n /\ \A i \in 1 .. m - n : r[i] = s[n + i]
  <2>1. m \in Nat /\ n \in Nat /\ n >= 1 /\ n <= m
    OBVIOUS
  <2>2. \A i \in 1 .. n : s[i] \in S
    BY <2>1
  <2>3. \A i \in n + 1 .. m : s[i] \in S
    BY <2>1
  <2>4. /\ l \in Seq(S) /\ Len(l) = n /\ \A i \in 1 .. n : l[i] = s[i]
    BY <2>1, <2>2, SubSeqProperties
  <2>5. /\ r \in Seq(S) /\ Len(r) = m - n
        /\ \A i \in 1 .. m - n : r[i] = s[n + 1 + i - 1]
    BY <2>1, <2>3, SubSeqProperties
  <2>6. QED
    BY <2>1, <2>4, <2>5
<1> HIDE DEF l, r
<1>2. Distinct(l) /\ Distinct(r)
  <2>1. Distinct(l)
    BY <1>1 DEF Distinct
  <2>2. ASSUME NEW i \in 1 .. m - n, NEW j \in 1 .. m - n, r[i] = r[j]
        PROVE  i = j
    <3>1. n + i \in 1 .. m /\ n + j \in 1 .. m /\ s[n + i] = s[n + j]
      BY <1>1, <2>2
    <3>2. n + i = n + j
      BY <3>1 DEF Distinct
    <3>3. QED
      BY <1>1, <3>2
  <2>3. QED
    BY <1>1, <2>1, <2>2 DEF Distinct
<1>3. Elems(l) \cup Elems(r) = Elems(s)
  <2>1. \A i \in 1 .. m : i \in 1 .. n \/ (i - n \in 1 .. m - n /\ s[i] = r[i - n])
    BY <1>1
  <2>2. Elems(s) \subseteq Elems(l) \cup Elems(r)
    BY <1>1, <2>1 DEF Elems
  <2>3. /\ \A i \in 1 .. n : i \in 1 .. m
        /\ \A i \in 1 .. m - n : n + i \in 1 .. m
    BY <1>1
  <2>4. Elems(l) \subseteq Elems(s)
    BY <1>1, <2>3 DEF Elems
  <2>5. Elems(r) \subseteq Elems(s)
    <3>1. SUFFICES ASSUME NEW y \in Elems(r) PROVE y \in Elems(s)
      OBVIOUS
    <3>2. PICK i \in 1 .. m - n : y = r[i]
      BY <1>1 DEF Elems
    <3>3. n + i \in 1 .. m /\ s[n + i] = y
      BY <1>1, <2>3, <3>2
    <3>4. QED
      BY <3>3 DEF Elems
  <2>6. QED
    BY <2>2, <2>4, <2>5
<1>4. Elems(l) \cap Elems(r) = {}
  <2>1. ASSUME NEW i \in 1 .. n, NEW j \in 1 .. m - n, s[i] = s[n + j]
        PROVE  FALSE
    <3>1. i \in 1 .. m /\ n + j \in 1 .. m /\ i # n + j
      BY <1>1
    <3>2. QED
      BY <2>1, <3>1 DEF Distinct
  <2>2. QED
    BY <1>1, <2>1 DEF Elems
<1>5. QED
  BY <1>1, <1>2, <1>3, <1>4 DEF l, r

-----------------------------------------------------------------------------
(***************************************************************************)
(* A round                                                                 *)
(***************************************************************************)
Engines ==
    [phase : Phases, policy : Modes, kept : Modes \cup {NoMode},
     todo : Seq(Call), batch : Seq(Call), at : Nat, ready : SUBSET Call,
     out : [Call -> Outcomes], round : SUBSET Call, aborted : BOOLEAN,
     granted : SUBSET Kinds]

Made == 1 .. Len(calls)

AtGate == {"gate", "classify", "approval"}

\* The calls that have yet to pass the gate.
ToCome(e) == Elems(e.todo) \cup
             (IF e.at = 0 THEN {} ELSE {e.batch[i] : i \in e.at .. Len(e.batch)})

\* The batches of a round, and its call at the gate.
Lined(e) ==
    /\ Distinct(e.todo) /\ Distinct(e.batch)
    /\ Elems(e.batch) \cap Elems(e.todo) = {}
    /\ Elems(e.batch) \cup Elems(e.todo) \subseteq e.round
    /\ e.ready \subseteq Elems(e.batch)
    /\ e.at \in 0 .. Len(e.batch)
    /\ e.at # 0 <=> e.phase \in AtGate

\* What a phase leaves open.
Staged(e) ==
    /\ e.phase \in {"idle", "model"} => e.round = {}
    /\ e.phase \in {"draining", "over"} => ToCome(e) = {}
    /\ e.phase \in {"draining", "over", "batch"} => \A c \in e.ready : e.out[c] # "none"

\* A call that does not run beside others is alone in its batch.
Alike(e) == \A c \in Elems(e.batch) : Parallel(Kind(c)) \/ Elems(e.batch) = {c}

LEMMA HeldElems ==
    ASSUME NEW e \in Engines
    PROVE  Held(e) = Elems(e.batch)
BY DEF Held, Elems

LEMMA CurrentComes ==
    ASSUME NEW e \in Engines, Lined(e), e.at # 0
    PROVE  /\ e.at \in 1 .. Len(e.batch)
           /\ Current(e) \in ToCome(e) /\ Current(e) \in Elems(e.batch)
           /\ Current(e) \in e.round /\ Current(e) \in Call
<1>1. /\ e.at \in 1 .. Len(e.batch) /\ e.at \in e.at .. Len(e.batch)
      /\ e.batch \in Seq(Call)
  BY DEF Lined, Engines
<1>2. e.batch[e.at] \in Elems(e.batch) /\ e.batch[e.at] \in ToCome(e)
  BY <1>1 DEF Elems, ToCome
<1>3. QED
  BY <1>1, <1>2 DEF Lined, Current, Engines

\* The call at the gate leaves it: ready, or with its result.
LEMMA SettledLine ==
    ASSUME NEW e \in Engines, Lined(e), e.at # 0, NEW o \in Outcomes \cup {"ready"}
    PROVE  LET f == Settled(e, o)
               c == Current(e)
           IN  /\ f \in Engines /\ Lined(f)
               /\ f.phase \in {"run", "gate"} /\ ToCome(f) = ToCome(e) \ {c}
               /\ f.todo = e.todo /\ f.batch = e.batch /\ f.round = e.round
               /\ f.aborted = e.aborted /\ f.policy = e.policy /\ f.kept = e.kept
               /\ f.granted = e.granted
               /\ o = "ready" => f.ready = e.ready \cup {c} /\ f.out = e.out
               /\ o # "ready" => f.ready = e.ready /\ f.out = [e.out EXCEPT ![c] = o]
<1> DEFINE f == Settled(e, o)
           c == Current(e)
           n == Len(e.batch)
<1>1. /\ e.at \in 1 .. n /\ n \in Nat /\ c \in Elems(e.batch) /\ c \in Call
      /\ c = e.batch[e.at] /\ c \notin Elems(e.todo) /\ e.batch \in Seq(Call)
  BY CurrentComes DEF Lined, Engines, Current
<1>2. /\ f.phase = IF e.at = n THEN "run" ELSE "gate"
      /\ f.at = IF e.at = n THEN 0 ELSE e.at + 1
      /\ f.todo = e.todo /\ f.batch = e.batch /\ f.round = e.round
      /\ f.aborted = e.aborted /\ f.policy = e.policy /\ f.kept = e.kept
      /\ f.granted = e.granted
      /\ o = "ready" => f.ready = e.ready \cup {c} /\ f.out = e.out
      /\ o # "ready" => f.ready = e.ready /\ f.out = [e.out EXCEPT ![c] = o]
      /\ f \in Engines
  <2>1. o # "ready" => [e.out EXCEPT ![c] = o] \in [Call -> Outcomes]
    BY DEF Engines
  <2>2. e.ready \cup {c} \in SUBSET Call
    BY <1>1 DEF Engines
  <2> HIDE DEF c
  <2>3. f = [e EXCEPT !.ready = IF o = "ready" THEN e.ready \cup {c} ELSE e.ready,
                      !.out   = IF o = "ready" THEN e.out ELSE [e.out EXCEPT ![c] = o],
                      !.phase = IF e.at = n THEN "run" ELSE "gate",
                      !.at    = IF e.at = n THEN 0 ELSE e.at + 1]
    BY DEF Settled, c
  <2>4. /\ "run" \in Phases /\ "gate" \in Phases /\ e.at + 1 \in Nat /\ 0 \in Nat
    BY <1>1 DEF Phases
  <2> HIDE DEF f
  <2>5. f \in Engines
    BY <2>1, <2>2, <2>3, <2>4 DEF Engines
  <2>6. QED
    BY <2>3, <2>5 DEF Engines
<1> HIDE DEF f, c
<1>3. ToCome(f) = ToCome(e) \ {c}
  <2>1. CASE e.at = n
    <3>1. {e.batch[i] : i \in e.at .. n} = {c}
      BY <1>1, <2>1
    <3>2. QED
      BY <1>1, <1>2, <2>1, <3>1 DEF ToCome
  <2>2. CASE e.at # n
    <3>1. /\ \A i \in e.at .. n : i = e.at \/ i \in e.at + 1 .. n
          /\ \A i \in e.at + 1 .. n : i \in e.at .. n /\ i \in 1 .. n /\ i # e.at
      BY <1>1
    <3>2. \A i \in e.at + 1 .. n : e.batch[i] # c
      BY <1>1, <3>1 DEF Lined, Distinct
    <3>3. {e.batch[i] : i \in e.at + 1 .. n} = {e.batch[i] : i \in e.at .. n} \ {c}
      BY <1>1, <3>1, <3>2
    <3>4. e.at # 0 /\ e.at + 1 # 0
      BY <1>1
    <3>5. f.at = e.at + 1
      BY <1>2, <2>2
    <3>6. ToCome(f) = Elems(e.todo) \cup {e.batch[i] : i \in e.at + 1 .. n}
      BY <1>2, <3>4, <3>5 DEF ToCome
    <3>7. ToCome(e) = Elems(e.todo) \cup {e.batch[i] : i \in e.at .. n}
      BY <3>4 DEF ToCome
    <3>8. QED
      BY <1>1, <3>3, <3>6, <3>7
  <2>3. QED
    BY <2>1, <2>2
<1>4. Lined(f)
  BY <1>1, <1>2 DEF Lined, AtGate
<1>5. QED
  BY <1>2, <1>3, <1>4 DEF f, c

\* A set of naturals has a least one.
LEMMA LeastNat ==
    ASSUME NEW T \in SUBSET Nat, T # {}
    PROVE  \E x \in T : \A y \in T : x <= y
<1> DEFINE R == {ss \in Nat \X Nat : ss[1] < ss[2]}
<1>1. IsWellFoundedOn(R, Nat)
  BY NatLessThanWellFounded DEF OpToRel
<1> HIDE DEF R
<1>2. PICK x \in T : \A y \in T : ~ (<<y, x>> \in R)
  BY <1>1, WFMin
<1>3. \A y \in T : ~ (y < x)
  BY <1>2 DEF R
<1>4. QED
  BY <1>3

\* The next batch is not empty, and its calls run beside each other.
LEMMA BatchSizes ==
    ASSUME NEW todo \in Seq(Call), todo # <<>>
    PROVE  /\ BatchSize(todo) \in 1 .. Len(todo)
           /\ \/ \A i \in 1 .. BatchSize(todo) : Parallel(Kind(todo[i]))
              \/ BatchSize(todo) = 1
<1> DEFINE m == Len(todo)
           first(n) == /\ \A i \in 1 .. n : Parallel(Kind(todo[i]))
                       /\ n < Len(todo) => ~Parallel(Kind(todo[n + 1]))
<1>1. m \in Nat /\ m >= 1
  OBVIOUS
<1>2. CASE ~Parallel(Kind(todo[1]))
  BY <1>1, <1>2 DEF BatchSize
<1>3. CASE Parallel(Kind(todo[1]))
  <2>1. \E n \in 1 .. m : first(n)
    <3> DEFINE T == {n \in 1 .. m : n = m \/ ~Parallel(Kind(todo[n + 1]))}
    <3>1. m \in T /\ T \subseteq Nat
      BY <1>1
    <3>2. PICK n \in T : \A k \in T : n <= k
      BY <3>1, LeastNat
    <3>3. ASSUME NEW i \in 1 .. n
          PROVE  Parallel(Kind(todo[i]))
      <4>1. CASE i = 1
        BY <1>3, <4>1
      <4>2. CASE i # 1
        <5>1. i - 1 \in 1 .. m /\ i - 1 # m /\ ~(n <= i - 1) /\ i - 1 + 1 = i
          BY <1>1, <3>3, <4>2
        <5>2. i - 1 \notin T
          BY <3>2, <5>1
        <5>3. QED
          BY <5>1, <5>2
      <4>3. QED
        BY <4>1, <4>2
    <3>4. n \in 1 .. m /\ (n < m => ~Parallel(Kind(todo[n + 1])))
      BY <1>1, <3>2
    <3>5. QED
      BY <3>3, <3>4
  <2>2. BatchSize(todo) = CHOOSE n \in 1 .. m : first(n)
    BY <1>3 DEF BatchSize
  <2>3. BatchSize(todo) \in 1 .. m /\ first(BatchSize(todo))
    BY <2>1, <2>2
  <2>4. QED
    BY <2>3
<1>4. QED
  BY <1>2, <1>3

LEMMA NextBatchLine ==
    ASSUME NEW e \in Engines, Lined(e), e.at = 0, e.todo # <<>>
    PROVE  LET f == NextBatch(e)
           IN  /\ f \in Engines /\ Lined(f) /\ Alike(f)
               /\ f.phase = "gate" /\ ToCome(f) = ToCome(e) /\ f.ready = {}
               /\ f.round = e.round /\ f.out = e.out
               /\ f.aborted = e.aborted /\ f.policy = e.policy /\ f.kept = e.kept
               /\ f.granted = e.granted
<1> DEFINE n == BatchSize(e.todo)
           l == SubSeq(e.todo, 1, n)
           r == SubSeq(e.todo, n + 1, Len(e.todo))
           f == NextBatch(e)
<1>1. /\ e.todo \in Seq(Call) /\ n \in 1 .. Len(e.todo)
      /\ (\A i \in 1 .. n : Parallel(Kind(e.todo[i]))) \/ n = 1
  BY BatchSizes DEF Engines
<1>2. f = [e EXCEPT !.phase = "gate", !.at = 1, !.ready = {}, !.batch = l, !.todo = r]
  BY DEF NextBatch
<1> HIDE DEF n
<1>3. /\ l \in Seq(Call) /\ r \in Seq(Call) /\ Len(l) = n
      /\ Distinct(l) /\ Distinct(r)
      /\ Elems(l) \cup Elems(r) = Elems(e.todo) /\ Elems(l) \cap Elems(r) = {}
      /\ \A i \in 1 .. n : l[i] = e.todo[i]
  BY <1>1, ElemsCut DEF Lined
<1> HIDE DEF l, r, f
<1>4. /\ f \in Engines /\ f.phase = "gate" /\ f.at = 1 /\ f.ready = {}
      /\ f.batch = l /\ f.todo = r /\ f.round = e.round /\ f.out = e.out
      /\ f.aborted = e.aborted /\ f.policy = e.policy /\ f.kept = e.kept
      /\ f.granted = e.granted
  <2>1. "gate" \in Phases /\ 1 \in Nat /\ {} \in SUBSET Call
    BY DEF Phases
  <2>2. f \in Engines
    BY <1>2, <1>3, <2>1 DEF Engines
  <2>3. QED
    BY <1>2, <2>2 DEF Engines
<1>5. ToCome(f) = ToCome(e)
  <2>1. ToCome(f) = Elems(r) \cup Elems(l)
    BY <1>4 DEF ToCome, Elems
  <2>2. ToCome(e) = Elems(e.todo)
    BY DEF ToCome
  <2>3. QED
    BY <1>3, <2>1, <2>2
<1>6. Lined(f)
  BY <1>1, <1>3, <1>4 DEF Lined, AtGate
<1>7. Alike(f)
  <2>1. ASSUME NEW c \in Elems(l)
        PROVE  Parallel(Kind(c)) \/ Elems(l) = {c}
    <3>1. PICK i \in 1 .. n : c = l[i]
      BY <1>3 DEF Elems
    <3>2. CASE n = 1
      BY <1>3, <3>1, <3>2 DEF Elems
    <3>3. CASE \A k \in 1 .. n : Parallel(Kind(e.todo[k]))
      BY <1>3, <3>1, <3>3
    <3>4. QED
      BY <1>1, <3>2, <3>3
  <2>2. QED
    BY <1>4, <2>1 DEF Alike
<1>8. QED
  BY <1>4, <1>5, <1>6, <1>7 DEF f

\* What an engine keeps when calls of its round get a result.
LEMMA WithOut ==
    ASSUME NEW e \in Engines, NEW S, NEW o \in Outcomes
    PROVE  LET f == With(e, S, o)
           IN  /\ f \in Engines /\ f = [e EXCEPT !.out = f.out]
               /\ \A c \in Call : f.out[c] = IF c \in S THEN o ELSE e.out[c]
<1> DEFINE new == [c \in Call |-> IF c \in S THEN o ELSE e.out[c]]
           f   == With(e, S, o)
<1>1. f = [e EXCEPT !.out = new]
  BY DEF With
<1>2. new \in [Call -> Outcomes]
  BY DEF Engines
<1> HIDE DEF f
<1>3. f \in Engines /\ f.out = new
  BY <1>1, <1>2 DEF Engines
<1>4. QED
  BY <1>1, <1>3 DEF f

\* An abort leaves nothing of the round to come.
Aborts(e, f) ==
    /\ f \in Engines /\ Lined(f) /\ ToCome(f) = {} /\ f.ready = {} /\ f.batch = <<>>
    /\ f.round = e.round /\ f.policy = e.policy /\ f.kept = e.kept
    /\ f.granted = e.granted

LEMMA StoppedEngine ==
    ASSUME NEW e \in Engines
    PROVE  LET s == Stopped(e)
           IN  /\ s \in Engines /\ s.out = e.out
               /\ s.ready = {} /\ s.batch = <<>> /\ s.todo = <<>> /\ s.at = 0
               /\ s.round = e.round /\ s.policy = e.policy /\ s.kept = e.kept
               /\ s.granted = e.granted
<1> DEFINE s == Stopped(e)
<1>1. s = [e EXCEPT !.aborted = TRUE, !.ready = {}, !.batch = <<>>, !.todo = <<>>,
                    !.at = 0]
  BY DEF Stopped
<1>2. 0 \in Nat /\ {} \in SUBSET Call /\ <<>> \in Seq(Call) /\ TRUE \in BOOLEAN
  OBVIOUS
<1> HIDE DEF s
<1>3. s \in Engines
  BY <1>1, <1>2 DEF Engines
<1>4. QED
  BY <1>1, <1>3 DEF Engines, s

LEMMA StoppedLine ==
    ASSUME NEW e \in Engines, NEW g \in Engines, g = [Stopped(e) EXCEPT !.out = g.out],
           NEW p \in {"draining", "over"}
    PROVE  LET f == [g EXCEPT !.phase = p]
           IN  Aborts(e, f) /\ f.phase = p /\ f.out = g.out
<1> DEFINE s == Stopped(e)
           f == [g EXCEPT !.phase = p]
<1>1. s \in Engines
  BY StoppedEngine
<1>2. /\ s.ready = {} /\ s.batch = <<>> /\ s.todo = <<>> /\ s.at = 0
      /\ s.round = e.round /\ s.policy = e.policy /\ s.kept = e.kept
      /\ s.granted = e.granted
  BY StoppedEngine
<1> HIDE DEF s
<1>3. g = [s EXCEPT !.out = g.out]
  BY DEF s
<1>4. /\ g.ready = {} /\ g.batch = <<>> /\ g.todo = <<>> /\ g.at = 0
      /\ g.round = e.round /\ g.policy = e.policy /\ g.kept = e.kept
      /\ g.granted = e.granted
  BY <1>1, <1>2, <1>3 DEF Engines
<1>5. p \in Phases
  BY DEF Phases
<1>6. f \in Engines /\ f.phase = p /\ f.out = g.out
  BY <1>5 DEF Engines
<1>7. /\ f.ready = {} /\ f.batch = <<>> /\ f.todo = <<>> /\ f.at = 0
      /\ f.round = e.round /\ f.policy = e.policy /\ f.kept = e.kept
      /\ f.granted = e.granted
  BY <1>4 DEF Engines
<1> HIDE DEF f
<1>8. ToCome(f) = {} /\ Lined(f)
  BY <1>6, <1>7, ElemsEmpty DEF ToCome, Lined, AtGate
<1>9. QED
  BY <1>6, <1>7, <1>8 DEF Aborts, f

LEMMA AbortedAtGateLine ==
    ASSUME NEW e \in Engines
    PROVE  LET f == AbortedAtGate(e)
           IN  /\ Aborts(e, f) /\ f.phase = "over"
               /\ \A c \in Call : f.out[c] =
                     IF c \in e.round /\ e.out[c] = "none" THEN "notRun" ELSE e.out[c]
<1> DEFINE g == With(Stopped(e), Unanswered(e, e.round), "notRun")
<1>1. Stopped(e) \in Engines /\ Stopped(e).out = e.out
  BY StoppedEngine
<1>2. /\ g \in Engines /\ g = [Stopped(e) EXCEPT !.out = g.out]
      /\ \A c \in Call : g.out[c] =
            IF c \in Unanswered(e, e.round) THEN "notRun" ELSE e.out[c]
  BY <1>1, WithOut DEF Outcomes
<1> HIDE DEF g
<1>3. LET f == [g EXCEPT !.phase = "over"]
      IN  Aborts(e, f) /\ f.phase = "over" /\ f.out = g.out
  BY <1>2, StoppedLine
<1>4. AbortedAtGate(e) = [g EXCEPT !.phase = "over"]
  BY DEF AbortedAtGate, g
<1>5. QED
  BY <1>2, <1>3, <1>4 DEF Unanswered

LEMMA AbortedRunningLine ==
    ASSUME NEW e \in Engines
    PROVE  LET f == AbortedRunning(e)
           IN  /\ Aborts(e, f) /\ f.phase = "draining"
               /\ \A c \in Call : f.out[c] =
                     IF c \in e.ready /\ e.out[c] = "none" THEN "interrupted"
                     ELSE IF c \in e.round /\ e.out[c] = "none" THEN "notRun"
                     ELSE e.out[c]
<1> DEFINE h == With(Stopped(e), Unanswered(e, e.round), "notRun")
           g == With(h, Unanswered(e, e.ready), "interrupted")
<1>1. Stopped(e) \in Engines /\ Stopped(e).out = e.out
  BY StoppedEngine
<1>2. /\ h \in Engines /\ h = [Stopped(e) EXCEPT !.out = h.out]
      /\ \A c \in Call : h.out[c] =
            IF c \in Unanswered(e, e.round) THEN "notRun" ELSE e.out[c]
  BY <1>1, WithOut DEF Outcomes
<1>3. AbortedRunning(e) = [g EXCEPT !.phase = "draining"]
  BY DEF AbortedRunning
<1> HIDE DEF h
<1>4. /\ g \in Engines /\ g = [h EXCEPT !.out = g.out]
      /\ \A c \in Call : g.out[c] =
            IF c \in Unanswered(e, e.ready) THEN "interrupted" ELSE h.out[c]
  BY <1>2, WithOut DEF Outcomes
<1> HIDE DEF g
<1>5. g = [Stopped(e) EXCEPT !.out = g.out]
  BY <1>1, <1>2, <1>4 DEF Engines
<1>6. LET f == [g EXCEPT !.phase = "draining"]
      IN  Aborts(e, f) /\ f.phase = "draining" /\ f.out = g.out
  BY <1>4, <1>5, StoppedLine
<1>7. QED
  BY <1>2, <1>3, <1>4, <1>6 DEF Unanswered

-----------------------------------------------------------------------------
(***************************************************************************)
(* The invariant                                                           *)
(***************************************************************************)
Ops == [op   : {"Prompt", "Interrupt", "SetMode", "Resolve", "AnswerQuestion"},
        call : Call \cup {0},
        arg  : Modes \cup {"none", "approve", "session", "deny", "abort", "answer"}]
Evs == [ev    : {"OpEnded", "ApprovalRequested", "QuestionAsked", "picker"},
        call  : Call \cup {0}, grant : BOOLEAN]
UIs == [busy : BOOLEAN, modals : Seq(Evs), lost : SUBSET Call]

Typed ==
    /\ engine \in Engines
    /\ calls \in Seq(Kinds) /\ Len(calls) <= MaxCalls
    /\ ran \in [Call -> Deeds] /\ told \in [Call -> Outcomes]
    /\ ops \in Seq(Ops) /\ Len(ops) <= OpCap /\ events \in Seq(Evs)
    /\ ui \in UIs
    /\ consented \in SUBSET Call /\ acts \in 0 .. MaxActs

\* Whether what a call did is what its result says, be it in the round (`e`) or
\* in the conversation.  Only a call in flight has no result.
Fits(e, c, o, r) ==
    /\ o = "none" => IF c \in e.ready /\ e.phase \in {"run", "question"}
                       THEN r \notin {"done", "cut"} ELSE r = "no"
    /\ o \in {"notRun", "denied", "error"} => r = "no"
    /\ o = "output" => r = "done"
    /\ o = "interrupted" => \/ r \in {"no", "cut", "landed"}
                            \/ r = "writing" /\ e.phase = "draining" /\ c \in e.round

\* Where call c stands, which did `r` and whose result in the conversation is `t`.
Follows(e, c, r, t) ==
    /\ c \notin e.round => e.out[c] = "none" /\ (t = "none" <=> c \notin Made)
    /\ c \in e.round => t = "none"
    /\ c \in ToCome(e) => e.out[c] = "none" /\ c \notin e.ready
    /\ c \in e.round /\ e.out[c] = "none" => c \in ToCome(e) \cup e.ready
    /\ c \in e.ready => \/ e.out[c] = "none"
                        \/ e.out[c] = "output" /\ e.phase \notin AtGate
    /\ Fits(e, c, IF c \in e.round THEN e.out[c] ELSE t, r)

\* The calls that passed the gate start together.
Together(e) ==
    e.phase \in {"run", "question"} =>
        \/ \A c \in e.ready : ran[c] = "no"
        \/ \A c \in e.ready : ran[c] # "no"

Rounds(e) ==
    /\ Lined(e) /\ Staged(e) /\ Alike(e)
    /\ e.round \subseteq Made
    /\ \A c \in Call : Follows(e, c, ran[c], told[c])
    /\ Together(e)

\* Only the ask tool's call is a question, and a reply on its way that lets a
\* call through is the user's.
GoodOp(x) ==
    /\ x.op = "SetMode" => x.arg \in Modes
    /\ x.op = "Resolve" => /\ x.call \in Made /\ Kind(x.call) # "question"
                           /\ x.arg \in {"approve", "session", "deny", "abort"}
                           /\ x.arg \in {"approve", "session"} => x.call \in consented
    /\ x.op = "AnswerQuestion" => /\ x.call \in Made /\ Kind(x.call) = "question"
                                  /\ x.call \in consented

GoodRequest(x) ==
    /\ x.ev \in {"ApprovalRequested", "QuestionAsked"} /\ x.call \in Made
    /\ Kind(x.call) = "question" <=> x.ev = "QuestionAsked"

Wired ==
    /\ \A x \in Elems(ops) : GoodOp(x)
    /\ \A x \in Elems(events) : x.ev = "OpEnded" \/ GoodRequest(x)
    /\ \A x \in Elems(ui.modals) : x = Picker \/ GoodRequest(x)

\* A request or a reply of call c is on its way.
Pending(c) ==
    \/ \E x \in Elems(events) : x.ev # "OpEnded" /\ x.call = c
    \/ \E x \in Elems(ui.modals) : x.call = c
    \/ \E x \in Elems(ops) : x.op \in {"Resolve", "AnswerQuestion"} /\ x.call = c
    \/ c \in ui.lost

\* The engine waits for an answer about call c.
WaitsOn(c) == \/ engine.phase = "approval" /\ c = Current(engine)
              \/ engine.phase = "question" /\ c \in engine.ready

Posed == \A c \in Call : WaitsOn(c) =>
            Pending(c) /\ (Kind(c) = "question" <=> engine.phase = "question")

RInv == Typed /\ Rounds(engine) /\ Wired /\ Posed

-----------------------------------------------------------------------------
(***************************************************************************)
(* What steps of the engine do to the round                                *)
(***************************************************************************)

\* The engine `f` is at the same point of the same round.
Same(e, f) ==
    /\ f \in Engines
    /\ f.phase = e.phase /\ f.todo = e.todo /\ f.batch = e.batch /\ f.at = e.at
    /\ f.ready = e.ready /\ f.out = e.out /\ f.round = e.round

LEMMA SameRounds ==
    ASSUME NEW e, NEW f, Same(e, f), Rounds(e)
    PROVE  Rounds(f) /\ Current(f) = Current(e) /\ ToCome(f) = ToCome(e)
<1>1. ToCome(f) = ToCome(e)
  BY DEF Same, ToCome
<1>2. Lined(f) /\ Staged(f) /\ Alike(f) /\ Together(f) /\ f.round \subseteq Made
  BY <1>1 DEF Same, Rounds, Lined, Staged, Alike, Together
<1>3. ASSUME NEW c \in Call
      PROVE  Follows(f, c, ran[c], told[c])
  BY <1>1 DEF Same, Rounds, Follows, Fits
<1>4. QED
  BY <1>1, <1>2, <1>3 DEF Rounds, Current, Same

LEMMA ModeAppliedSame ==
    ASSUME NEW e \in Engines
    PROVE  LET f == ModeApplied(e)
           IN  /\ Same(e, f) /\ f.granted = e.granted /\ f.aborted = e.aborted
               /\ f.policy = IF e.kept = NoMode THEN e.policy ELSE e.kept
<1>1. CASE e.kept = NoMode
  BY <1>1 DEF ModeApplied, Same
<1>2. CASE e.kept # NoMode
  <2>1. e.kept \in Modes
    BY <1>2 DEF Engines
  <2>2. ModeApplied(e) = [e EXCEPT !.policy = e.kept, !.kept = NoMode]
    BY <1>2 DEF ModeApplied
  <2>3. ModeApplied(e) \in Engines
    BY <2>1, <2>2 DEF Engines
  <2>4. QED
    BY <1>2, <2>2, <2>3 DEF Same, Engines
<1>3. QED
  BY <1>1, <1>2

\* The same calls, in another phase.
LEMMA PhaseLine ==
    ASSUME NEW e \in Engines, NEW p \in Phases, p \in AtGate <=> e.phase \in AtGate
    PROVE  LET f == [e EXCEPT !.phase = p]
           IN  /\ f \in Engines /\ f.phase = p
               /\ f.todo = e.todo /\ f.batch = e.batch /\ f.at = e.at
               /\ f.ready = e.ready /\ f.out = e.out /\ f.round = e.round
               /\ f.aborted = e.aborted /\ f.policy = e.policy /\ f.kept = e.kept
               /\ f.granted = e.granted
               /\ ToCome(f) = ToCome(e) /\ Current(f) = Current(e)
               /\ Rounds(e) => Lined(f) /\ Alike(f) /\ f.round \subseteq Made
<1> DEFINE f == [e EXCEPT !.phase = p]
<1>1. /\ f \in Engines /\ f.phase = p
      /\ f.todo = e.todo /\ f.batch = e.batch /\ f.at = e.at
      /\ f.ready = e.ready /\ f.out = e.out /\ f.round = e.round
      /\ f.aborted = e.aborted /\ f.policy = e.policy /\ f.kept = e.kept
      /\ f.granted = e.granted
  BY DEF Engines
<1> HIDE DEF f
<1>2. ToCome(f) = ToCome(e) /\ Current(f) = Current(e)
  BY <1>1 DEF ToCome, Current
<1>3. Rounds(e) => Lined(f) /\ Alike(f) /\ f.round \subseteq Made
  BY <1>1 DEF Rounds, Lined, Alike
<1>4. QED
  BY <1>1, <1>2, <1>3 DEF f

LEMMA AtGateRounds ==
    ASSUME NEW e \in Engines, Rounds(e), e.phase \in AtGate, NEW p \in AtGate
    PROVE  Rounds([e EXCEPT !.phase = p])
<1> DEFINE f == [e EXCEPT !.phase = p]
<1>1. p \in Phases
  BY DEF AtGate, Phases
<1>2. /\ f.phase = p /\ f.ready = e.ready /\ f.out = e.out /\ f.round = e.round
      /\ ToCome(f) = ToCome(e)
      /\ Lined(f) /\ Alike(f) /\ f.round \subseteq Made
  BY <1>1, PhaseLine
<1> HIDE DEF f
<1>3. Staged(f) /\ Together(f)
  BY <1>2 DEF Staged, Together, AtGate
<1>4. ASSUME NEW c \in Call
      PROVE  Follows(f, c, ran[c], told[c])
  BY <1>2 DEF Rounds, Follows, Fits, AtGate
<1>5. QED
  BY <1>2, <1>3, <1>4 DEF Rounds, f

LEMMA SettledRounds ==
    ASSUME NEW e \in Engines, Rounds(e), e.phase \in AtGate,
           NEW o \in {"ready", "denied", "error"}
    PROVE  LET f == Settled(e, o)
           IN  /\ f \in Engines /\ Rounds(f) /\ f.phase \in {"run", "gate"}
               /\ f.ready \subseteq e.ready \cup {Current(e)}
               /\ o # "ready" => f.ready = e.ready
<1> DEFINE f == Settled(e, o)
           c == Current(e)
<1>1. e.at # 0 /\ Lined(e) /\ o \in Outcomes \cup {"ready"}
  BY DEF Rounds, Lined, Outcomes
<1>2. c \in ToCome(e) /\ c \in e.round /\ c \in Call
  BY <1>1, CurrentComes
<1>3. /\ f \in Engines /\ Lined(f)
      /\ f.phase \in {"run", "gate"} /\ ToCome(f) = ToCome(e) \ {c}
      /\ f.batch = e.batch /\ f.round = e.round
      /\ o = "ready" => f.ready = e.ready \cup {c} /\ f.out = e.out
      /\ o # "ready" => f.ready = e.ready /\ f.out = [e.out EXCEPT ![c] = o]
  BY <1>1, SettledLine
<1>4. e.out \in [Call -> Outcomes]
  BY DEF Engines
<1> HIDE DEF f, c
<1>5. \A d \in Call : Follows(e, d, ran[d], told[d])
  BY DEF Rounds
<1>6. e.out[c] = "none" /\ c \notin e.ready /\ ran[c] = "no"
  BY <1>2, <1>5 DEF Follows, Fits
<1>7. \A d \in e.ready : d \in Call /\ e.out[d] = "none" /\ ran[d] = "no"
  <2>1. \A d \in e.ready : d \in e.round
    BY <1>1 DEF Lined
  <2>2. QED
    BY <1>5, <2>1 DEF Follows, Fits, Engines, AtGate
<1>8. ASSUME NEW d \in Call
      PROVE  Follows(f, d, ran[d], told[d])
  <2>1. CASE d = c
    BY <1>2, <1>3, <1>4, <1>5, <1>6, <2>1 DEF Follows, Fits, AtGate
  <2>2. CASE d # c
    <3>1. /\ f.out[d] = e.out[d] /\ (d \in f.ready <=> d \in e.ready)
          /\ (d \in ToCome(f) <=> d \in ToCome(e)) /\ f.round = e.round
      BY <1>3, <1>4, <2>2
    <3>2. QED
      BY <1>3, <1>5, <1>7, <3>1 DEF Follows, Fits, AtGate
  <2>3. QED
    BY <2>1, <2>2
<1>9. Staged(f) /\ Alike(f) /\ f.round \subseteq Made
  BY <1>3 DEF Rounds, Staged, Alike
<1>10. Together(f)
  BY <1>3, <1>6, <1>7 DEF Together
<1>11. QED
  BY <1>3, <1>8, <1>9, <1>10 DEF Rounds, f, c

LEMMA NextBatchRounds ==
    ASSUME NEW e \in Engines, Rounds(e), e.phase = "batch", e.todo # <<>>
    PROVE  LET f == NextBatch(e)
           IN  f \in Engines /\ Rounds(f) /\ f.phase = "gate" /\ f.ready = {}
<1> DEFINE f == NextBatch(e)
<1>1. e.at = 0 /\ Lined(e)
  BY DEF Rounds, Lined, AtGate
<1>2. /\ f \in Engines /\ Lined(f) /\ Alike(f)
      /\ f.phase = "gate" /\ ToCome(f) = ToCome(e) /\ f.ready = {}
      /\ f.round = e.round /\ f.out = e.out
  BY <1>1, NextBatchLine
<1> HIDE DEF f
<1>3. Staged(f) /\ Together(f) /\ f.round \subseteq Made
  BY <1>2 DEF Rounds, Staged, Together
<1>4. ASSUME NEW c \in Call
      PROVE  Follows(f, c, ran[c], told[c])
  <2>1. Follows(e, c, ran[c], told[c]) /\ (c \in e.ready => e.out[c] # "none")
    BY DEF Rounds, Staged
  <2>2. QED
    BY <1>2, <2>1 DEF Follows, Fits, AtGate
<1>5. QED
  BY <1>2, <1>3, <1>4 DEF Rounds, f

LEMMA AbortedAtGateRounds ==
    ASSUME NEW e \in Engines, Rounds(e), e.phase \in AtGate
    PROVE  LET f == AbortedAtGate(e)
           IN  f \in Engines /\ Rounds(f) /\ f.phase = "over" /\ f.ready = {}
<1> DEFINE f == AbortedAtGate(e)
<1>1. /\ f \in Engines /\ Lined(f) /\ ToCome(f) = {} /\ f.ready = {} /\ f.batch = <<>>
      /\ f.round = e.round /\ f.phase = "over"
      /\ \A c \in Call : f.out[c] =
            IF c \in e.round /\ e.out[c] = "none" THEN "notRun" ELSE e.out[c]
  BY AbortedAtGateLine DEF Aborts
<1> HIDE DEF f
<1>2. Staged(f) /\ Together(f) /\ Alike(f) /\ f.round \subseteq Made
  BY <1>1, ElemsEmpty DEF Rounds, Staged, Together, Alike
<1>3. ASSUME NEW c \in Call
      PROVE  Follows(f, c, ran[c], told[c])
  <2>1. Follows(e, c, ran[c], told[c])
    BY DEF Rounds
  <2>2. QED
    BY <1>1, <2>1 DEF Follows, Fits, AtGate
<1>4. QED
  BY <1>1, <1>2, <1>3 DEF Rounds, f

-----------------------------------------------------------------------------
(***************************************************************************)
(* Steps of the engine                                                     *)
(***************************************************************************)

\* What the engine sends the UI in a step, if anything.
Sends == \/ events' = events
         \/ \E x \in Evs : /\ x.ev = "OpEnded" \/ GoodRequest(x)
                           /\ events' = Append(events, x)

LEMMA Ending == Event("OpEnded", 0, FALSE) \in Evs /\ Event("OpEnded", 0, FALSE).ev = "OpEnded"
BY DEF Event, Evs

\* A step of the engine that asks nothing.
LEMMA EngineStep ==
    ASSUME RInv, UNCHANGED <<calls, ops, ui, consented, acts>>, Sends,
           engine' \in Engines, Rounds(engine)',
           ran' \in [Call -> Deeds], told' \in [Call -> Outcomes]
    PROVE  /\ Typed' /\ Rounds(engine)' /\ Wired'
           /\ (\A c \in Call : ~WaitsOn(c)') => RInv'
<1>1. events' \in Seq(Evs) /\ \A x \in Elems(events') : x.ev = "OpEnded" \/ GoodRequest(x)
  <2>1. CASE events' = events
    BY <2>1 DEF RInv, Typed, Wired
  <2>2. CASE \E x \in Evs : /\ x.ev = "OpEnded" \/ GoodRequest(x)
                            /\ events' = Append(events, x)
    BY <2>2, ElemsAppend DEF RInv, Typed, Wired
  <2>3. QED
    BY <2>1, <2>2 DEF Sends
<1>2. Typed'
  BY <1>1 DEF RInv, Typed
<1>3. Wired'
  BY <1>1 DEF RInv, Wired, GoodOp, GoodRequest, Made, Kind
<1>4. QED
  BY <1>2, <1>3 DEF RInv, Posed

\* What the calls did and were told stays.
LEMMA RoundsMoved ==
    ASSUME NEW f, engine' = f, UNCHANGED <<calls, ran, told>>, Rounds(f)
    PROVE  Rounds(engine)'
BY DEF Rounds, Alike, Together, Follows, Kind, Made

LEMMA TurnOverEngine ==
    ASSUME NEW e \in Engines, Rounds(e), e.round = {}, ToCome(e) = {},
           e.phase \notin AtGate \cup {"draining"}, e.ready = {}
    PROVE  LET f == TurnOver(e)
           IN  f \in Engines /\ Rounds(f) /\ f.phase = "idle" /\ f.ready = {}
<1> DEFINE g == ModeApplied(e)
           h == [g EXCEPT !.phase = "idle"]
           f == TurnOver(e)
<1>1. Same(e, g)
  BY ModeAppliedSame
<1>2. /\ g \in Engines /\ Rounds(g) /\ ToCome(g) = {}
      /\ g.phase \notin AtGate \cup {"draining"} /\ g.round = {} /\ g.ready = {}
  BY <1>1, SameRounds DEF Same
<1>3. "idle" \in Phases /\ "idle" \notin AtGate
  BY DEF Phases, AtGate
<1> HIDE DEF g
<1>4. /\ h \in Engines /\ h.phase = "idle" /\ h.ready = {} /\ h.round = {}
      /\ h.out = g.out /\ ToCome(h) = {} /\ Lined(h) /\ Alike(h)
  BY <1>2, <1>3, PhaseLine
<1>5. f = [h EXCEPT !.aborted = FALSE]
  BY DEF TurnOver, g, Engines
<1> HIDE DEF h
<1>6. /\ Same(h, f) /\ f.phase = "idle" /\ f.ready = {}
  BY <1>4, <1>5 DEF Same, Engines
<1>7. Rounds(h)
  <2>1. Staged(h) /\ Together(h) /\ h.round \subseteq Made
    BY <1>4 DEF Staged, Together
  <2>2. ASSUME NEW c \in Call
        PROVE  Follows(h, c, ran[c], told[c])
    BY <1>2, <1>4 DEF Rounds, Follows, Fits, AtGate
  <2>3. QED
    BY <1>4, <2>1, <2>2 DEF Rounds
<1>8. f \in Engines /\ Rounds(f)
  BY <1>6, <1>7, SameRounds DEF Same
<1>9. QED
  BY <1>6, <1>8

\* Between rounds nothing is left of one.
LEMMA NoRound ==
    ASSUME NEW e \in Engines, Rounds(e), e.phase \in {"idle", "model"}
    PROVE  /\ e.round = {} /\ ToCome(e) = {} /\ e.ready = {} /\ e.at = 0
           /\ Elems(e.batch) = {}
BY DEF Rounds, Lined, Staged, ToCome, AtGate

LEMMA ReplyEndsInv ==
    ASSUME RInv, engine.phase = "model", engine' = TurnOver(engine),
           events' = Append(events, Event("OpEnded", 0, FALSE)),
           UNCHANGED <<calls, ran, told, ops, ui, consented, acts>>
    PROVE  RInv'
<1>1. engine \in Engines /\ Rounds(engine) /\ engine.phase \notin AtGate \cup {"draining"}
  BY DEF RInv, Typed, AtGate
<1>2. engine' \in Engines /\ Rounds(engine') /\ engine'.phase = "idle"
  BY <1>1, NoRound, TurnOverEngine
<1>3. Rounds(engine)' /\ ran' \in [Call -> Deeds] /\ told' \in [Call -> Outcomes]
  BY <1>2, RoundsMoved DEF RInv, Typed
<1>4. \A c \in Call : ~WaitsOn(c)'
  BY <1>2 DEF WaitsOn
<1>5. Sends
  BY Ending DEF Sends
<1>6. QED
  BY <1>2, <1>3, <1>4, <1>5, EngineStep

\* The calls of a reply are new.
LEMMA ReplyCallsInv ==
    ASSUME RInv, engine.phase = "model", NEW n \in 1 .. MaxRound,
           NEW made \in [1 .. n -> Kinds], Len(calls) + n <= MaxCalls,
           calls' = calls \o made,
           engine' = [engine EXCEPT !.phase = "batch",
                         !.todo = [i \in 1 .. n |-> Len(calls) + i],
                         !.round = {[i \in 1 .. n |-> Len(calls) + i][j] : j \in 1 .. n}],
           UNCHANGED <<events, ran, told, ops, ui, consented, acts>>
    PROVE  RInv'
<1> DEFINE m == Len(calls)
           ids == [i \in 1 .. n |-> m + i]
           new == m + 1 .. m + n
<1>1. /\ m \in Nat /\ n \in Nat /\ n >= 1 /\ calls \in Seq(Kinds)
      /\ engine \in Engines /\ Rounds(engine) /\ MaxCalls \in Nat
      /\ MaxRound \in Nat
  BY RoundAssumption DEF RInv, Typed
<1>2. /\ engine.round = {} /\ engine.ready = {} /\ engine.at = 0
      /\ Elems(engine.batch) = {} /\ ToCome(engine) = {}
  BY <1>1, NoRound
<1>3. /\ made \in Seq(Kinds) /\ Len(made) = n
      /\ calls' \in Seq(Kinds) /\ Len(calls') = m + n
      /\ \A c \in 1 .. m : calls'[c] = calls[c]
  <2>1. made \in Seq(Kinds) /\ Len(made) = n
    BY <1>1, SeqOfFunction
  <2>2. QED
    BY <1>1, <2>1, ConcatProperties
<1>4. \A i \in 1 .. n : ids[i] \in Call
  BY <1>1 DEF Call
<1>5. /\ ids \in Seq(Call) /\ Len(ids) = n /\ Distinct(ids)
      /\ Elems(ids) = new /\ {ids[j] : j \in 1 .. n} = new
      /\ new \subseteq Call /\ new \subseteq 1 .. m + n /\ new \cap 1 .. m = {}
  <2>1. ids \in Seq(Call) /\ Len(ids) = n
    BY <1>1, <1>4, SeqOfFunction
  <2>2. \A i \in 1 .. n : ids[i] = m + i
    OBVIOUS
  <2>3. new \subseteq Call /\ new \subseteq 1 .. m + n /\ new \cap 1 .. m = {}
    BY <1>1 DEF Call
  <2>4. {ids[j] : j \in 1 .. n} = new
    <3>1. \A x \in new : x - m \in 1 .. n /\ x = m + (x - m)
      BY <1>1
    <3>2. \A i \in 1 .. n : m + i \in new
      BY <1>1
    <3>3. QED
      BY <2>2, <3>1, <3>2
  <2>5. Distinct(ids)
    BY <1>1, <2>1, <2>2 DEF Distinct
  <2>6. QED
    BY <2>1, <2>3, <2>4, <2>5 DEF Elems
<1>6. engine' = [engine EXCEPT !.phase = "batch", !.todo = ids, !.round = new]
  BY <1>5
<1> HIDE DEF ids, new
<1>7. "batch" \in Phases /\ "batch" \notin AtGate
  BY DEF Phases, AtGate
<1>8. /\ engine' \in Engines /\ engine'.phase = "batch" /\ engine'.todo = ids
      /\ engine'.round = new /\ engine'.ready = {} /\ engine'.at = 0
      /\ engine'.batch = engine.batch /\ engine'.out = engine.out
  <2>1. engine' \in Engines
    BY <1>1, <1>5, <1>6, <1>7 DEF Engines
  <2>2. QED
    BY <1>1, <1>2, <1>6, <2>1 DEF Engines
<1>9. Made' = 1 .. m + n /\ Made = 1 .. m
  BY <1>3 DEF Made
<1>10. ToCome(engine') = new
  BY <1>5, <1>8 DEF ToCome
<1>11. Lined(engine') /\ Staged(engine')
  BY <1>1, <1>2, <1>5, <1>7, <1>8 DEF Rounds, Lined, Staged
<1>12. Alike(engine)' /\ Together(engine)'
  BY <1>2, <1>8 DEF Alike, Together
<1>13. ASSUME NEW c \in Call
       PROVE  Follows(engine, c, ran[c], told[c])'
  <2>1. Follows(engine, c, ran[c], told[c])
    BY <1>1 DEF Rounds
  <2>2. c \in Made' <=> c \in Made \/ c \in new
    BY <1>1, <1>9 DEF new, Call
  <2>3. /\ engine.out[c] = "none"
        /\ told[c] = "none" <=> c \notin Made
        /\ Fits(engine, c, told[c], ran[c])
    BY <1>2, <2>1 DEF Follows
  <2>4. c \in new => c \notin Made /\ told[c] = "none" /\ ran[c] = "no"
    BY <1>2, <1>5, <1>9, <2>3 DEF Fits
  <2>5. QED
    BY <1>2, <1>8, <1>10, <2>2, <2>3, <2>4 DEF Follows, Fits
<1>14. Rounds(engine)'
  BY <1>5, <1>8, <1>9, <1>11, <1>12, <1>13 DEF Rounds, Lined, Staged
<1>15. Typed'
  BY <1>3, <1>8 DEF RInv, Typed
<1>16. Wired'
  <2>1. \A c \in Made : c \in Made' /\ Kind(c)' = Kind(c)
    BY <1>1, <1>3, <1>9 DEF Kind
  <2>2. \A x \in Elems(ops) : GoodOp(x)'
    BY <2>1 DEF RInv, Wired, GoodOp
  <2>3. \A x : GoodRequest(x) => GoodRequest(x)'
    BY <2>1 DEF GoodRequest
  <2>4. QED
    BY <2>2, <2>3 DEF RInv, Wired
<1>17. Posed'
  BY <1>8 DEF Posed, WaitsOn
<1>18. QED
  BY <1>14, <1>15, <1>16, <1>17 DEF RInv

LEMMA ReplyInv == RInv /\ Reply => RInv'
<1>1. SUFFICES ASSUME RInv, Reply PROVE RInv'
  OBVIOUS
<1>2. engine.phase = "model" /\ UNCHANGED <<ops, ui, consented, acts, ran, told>>
  BY <1>1 DEF Reply, Raced, AtRest
<1>3. CASE /\ engine' = TurnOver(engine)
           /\ events' = Append(events, Event("OpEnded", 0, FALSE))
           /\ UNCHANGED calls
  BY <1>1, <1>2, <1>3, ReplyEndsInv
<1>4. CASE \E n \in 1 .. MaxRound : \E made \in [1 .. n -> Kinds] :
             LET ids == [i \in 1 .. n |-> Len(calls) + i]
             IN  /\ Len(calls) + n <= MaxCalls
                 /\ calls' = calls \o made
                 /\ engine' = [engine EXCEPT !.phase = "batch", !.todo = ids,
                                             !.round = {ids[i] : i \in 1 .. n}]
                 /\ UNCHANGED events
  BY <1>1, <1>2, <1>4, ReplyCallsInv
<1>5. QED
  BY <1>1, <1>3, <1>4 DEF Reply

LEMMA BatchInv == RInv /\ Batch => RInv'
<1>1. SUFFICES ASSUME RInv, Batch PROVE RInv'
  OBVIOUS
<1>2. /\ engine \in Engines /\ Rounds(engine) /\ engine.phase = "batch"
      /\ UNCHANGED <<calls, ran, told, events, ops, ui, consented, acts>>
      /\ ran \in [Call -> Deeds] /\ told \in [Call -> Outcomes]
  BY <1>1 DEF RInv, Typed, Batch, AtRest
<1>3. engine' \in Engines /\ Rounds(engine') /\ engine'.phase \in {"over", "gate"}
  <2>1. CASE engine.todo # <<>>
    BY <1>1, <1>2, <2>1, NextBatchRounds DEF Batch
  <2>2. CASE engine.todo = <<>>
    <3>1. engine' = [engine EXCEPT !.phase = "over"]
      BY <1>1, <2>2 DEF Batch
    <3>2. "over" \in Phases /\ "over" \notin AtGate /\ "batch" \notin AtGate
      BY DEF Phases, AtGate
    <3>3. /\ engine' \in Engines /\ engine'.phase = "over"
          /\ engine'.ready = engine.ready /\ engine'.out = engine.out
          /\ engine'.round = engine.round /\ ToCome(engine') = ToCome(engine)
          /\ Lined(engine') /\ Alike(engine') /\ engine'.round \subseteq Made
      BY <1>2, <3>1, <3>2, PhaseLine
    <3>4. ToCome(engine) = {}
      BY <1>2, <2>2, <3>2, ElemsEmpty DEF ToCome, Rounds, Lined
    <3>5. Staged(engine') /\ Together(engine')
      BY <1>2, <3>3, <3>4 DEF Rounds, Staged, Together
    <3>6. ASSUME NEW c \in Call
          PROVE  Follows(engine', c, ran[c], told[c])
      BY <1>2, <3>2, <3>3 DEF Rounds, Follows, Fits
    <3>7. QED
      BY <3>3, <3>5, <3>6 DEF Rounds
  <2>3. QED
    BY <2>1, <2>2
<1>4. Rounds(engine)' /\ Sends
  BY <1>2, <1>3, RoundsMoved DEF Sends
<1>5. \A c \in Call : ~WaitsOn(c)'
  BY <1>3 DEF WaitsOn
<1>6. QED
  BY <1>1, <1>2, <1>3, <1>4, <1>5, EngineStep

\* A call leaves the gate.
LEMMA PassesInv ==
    ASSUME RInv, NEW e, Same(engine, e), engine.phase \in AtGate,
           NEW o \in {"ready", "denied", "error"}, engine' = Settled(e, o),
           UNCHANGED <<calls, ran, told, events, ops, ui, consented, acts>>
    PROVE  /\ RInv'
           /\ engine'.ready \subseteq engine.ready \cup {Current(engine)}
           /\ o # "ready" => engine'.ready = engine.ready
<1>1. /\ e \in Engines /\ Rounds(e) /\ e.phase \in AtGate
      /\ e.ready = engine.ready /\ Current(e) = Current(engine)
      /\ ran \in [Call -> Deeds] /\ told \in [Call -> Outcomes]
  BY SameRounds DEF Same, RInv, Typed
<1>2. /\ engine' \in Engines /\ Rounds(engine') /\ engine'.phase \in {"run", "gate"}
      /\ engine'.ready \subseteq e.ready \cup {Current(e)}
      /\ o # "ready" => engine'.ready = e.ready
  BY <1>1, SettledRounds
<1>3. Rounds(engine)' /\ Sends /\ \A c \in Call : ~WaitsOn(c)'
  BY <1>2, RoundsMoved DEF Sends, WaitsOn
<1>4. QED
  BY <1>1, <1>2, <1>3, EngineStep

\* The engine asks the user about the call at the gate.
LEMMA AsksInv ==
    ASSUME RInv, NEW e, Same(engine, e), engine.phase \in AtGate, Asks(e),
           Kind(Current(e)) # "question",
           UNCHANGED <<calls, ran, told, ops, ui, consented, acts>>
    PROVE  RInv' /\ engine'.ready = engine.ready
<1> DEFINE c == Current(e)
           x == Event("ApprovalRequested", c, Grantable(Kind(c), e.policy, e.granted))
<1>1. /\ e \in Engines /\ Rounds(e) /\ e.phase \in AtGate
      /\ e.ready = engine.ready /\ c = Current(engine)
      /\ ran \in [Call -> Deeds] /\ told \in [Call -> Outcomes]
  BY SameRounds DEF Same, RInv, Typed
<1>2. c \in Call /\ c \in Made
  <2>1. Lined(e) /\ e.at # 0 /\ e.round \subseteq Made
    BY <1>1 DEF Rounds, Lined
  <2>2. QED
    BY <1>1, <2>1, CurrentComes
<1>3. engine' = [e EXCEPT !.phase = "approval"] /\ events' = Append(events, x)
  BY DEF Asks
<1>4. "approval" \in AtGate /\ "approval" \in Phases
  BY DEF AtGate, Phases
<1>5. /\ engine' \in Engines /\ engine'.phase = "approval" /\ Rounds(engine')
      /\ Current(engine') = c /\ engine'.ready = engine.ready
  BY <1>1, <1>3, <1>4, PhaseLine, AtGateRounds
<1>6. /\ x \in Evs /\ x.ev = "ApprovalRequested" /\ x.call = c /\ GoodRequest(x)
  <2>1. Grantable(Kind(c), e.policy, e.granted) \in BOOLEAN
    BY DEF Grantable
  <2>2. QED
    BY <1>2, <2>1 DEF Event, Evs, GoodRequest
<1> HIDE DEF x, c
<1>7. Sends /\ Rounds(engine)'
  BY <1>3, <1>5, <1>6, RoundsMoved DEF Sends
<1>8. Typed' /\ Rounds(engine)' /\ Wired'
  BY <1>1, <1>5, <1>7, EngineStep
<1>9. Posed'
  <2>1. x \in Elems(events')
    BY <1>3, <1>6, ElemsAppend DEF RInv, Typed
  <2>2. Pending(c)'
    BY <1>6, <2>1 DEF Pending
  <2>3. Kind(c)' # "question"
    BY DEF c, Kind
  <2>4. Current(engine)' = c
    BY <1>5 DEF Current
  <2>5. QED
    BY <1>5, <2>2, <2>3, <2>4 DEF Posed, WaitsOn
<1>10. QED
  BY <1>5, <1>8, <1>9 DEF RInv

\* The policy neither asks about a question nor leaves it to the classifier.
LEMMA QuestionsPass ==
    ASSUME NEW mode, NEW granted
    PROVE  Verdict("question", mode, granted) = "allow"
BY DEF Verdict, Writes

\* The call at the gate is settled, asked about, or meets the classifier; only
\* the policy lets it through.
GateStep ==
    /\ RInv' /\ engine'.ready \subseteq engine.ready \cup {Current(engine)}
    /\ engine'.ready # engine.ready =>
         Verdict(Kind(Current(engine)), LastMode, engine.granted) \in {"allow", "classify"}

LEMMA GateInv == RInv /\ Gate => GateStep
<1>1. SUFFICES ASSUME RInv, Gate PROVE GateStep
  OBVIOUS
<1>2. /\ engine.phase = "gate" /\ engine \in Engines /\ engine.phase \in AtGate
      /\ UNCHANGED <<calls, ran, told, ops, ui, consented, acts>>
      /\ ran \in [Call -> Deeds] /\ told \in [Call -> Outcomes] /\ Rounds(engine)
  BY <1>1 DEF Gate, RInv, Typed, AtGate, AtRest
<1>3. CASE Kind(Current(engine)) = "broken"
  <2>1. engine' = Settled(engine, "error") /\ UNCHANGED events
    BY <1>1, <1>3 DEF Gate, Passes
  <2>2. Same(engine, engine)
    BY <1>2 DEF Same
  <2>3. QED
    BY <1>1, <1>2, <2>1, <2>2, PassesInv DEF GateStep
<1>4. CASE Kind(Current(engine)) # "broken"
  <2> DEFINE e == ModeApplied(engine)
             v == Verdict(Kind(Current(e)), e.policy, e.granted)
  <2>1. /\ Same(engine, e) /\ e.granted = engine.granted /\ e.policy = LastMode
    BY <1>2, ModeAppliedSame DEF LastMode
  <2>2. Current(e) = Current(engine) /\ Rounds(e)
    BY <1>2, <2>1, SameRounds
  <2>3. Decide(e, engine' = [e EXCEPT !.phase = "classify"] /\ UNCHANGED events)
    BY <1>1, <1>4 DEF Gate
  <2> HIDE DEF e
  <2>4. CASE v = "allow" /\ Passes(e, "ready")
    BY <1>1, <1>2, <2>1, <2>2, <2>4, PassesInv DEF GateStep, Passes
  <2>5. CASE v = "deny" /\ Passes(e, "denied")
    BY <1>1, <1>2, <2>1, <2>2, <2>5, PassesInv DEF GateStep, Passes
  <2>6. CASE v = "ask" /\ Asks(e)
    <3>1. Kind(Current(e)) # "question"
      BY <2>6, QuestionsPass
    <3>2. QED
      BY <1>1, <1>2, <2>1, <2>6, <3>1, AsksInv DEF GateStep
  <2>7. CASE engine' = [e EXCEPT !.phase = "classify"] /\ UNCHANGED events
    <3>1. "classify" \in AtGate /\ "classify" \in Phases
      BY DEF AtGate, Phases
    <3>2. e \in Engines /\ e.phase \in AtGate /\ e.ready = engine.ready
      BY <1>2, <2>1 DEF Same
    <3>3. /\ engine' \in Engines /\ engine'.phase = "classify" /\ Rounds(engine')
          /\ engine'.ready = engine.ready
      BY <2>2, <2>7, <3>1, <3>2, PhaseLine, AtGateRounds
    <3>4. Rounds(engine)' /\ Sends /\ \A c \in Call : ~WaitsOn(c)'
      BY <1>2, <2>7, <3>3, RoundsMoved DEF Sends, WaitsOn
    <3>5. QED
      BY <1>1, <1>2, <3>3, <3>4, EngineStep DEF GateStep
  <2>8. QED
    BY <2>3, <2>4, <2>5, <2>6, <2>7 DEF Decide
<1>5. QED
  BY <1>3, <1>4

LEMMA ClassifiedInv == RInv /\ Classified => GateStep
<1>1. SUFFICES ASSUME RInv, Classified PROVE GateStep
  OBVIOUS
<1>2. /\ engine.phase = "classify" /\ engine \in Engines /\ engine.phase \in AtGate
      /\ UNCHANGED <<calls, ran, told, ops, ui, consented, acts>> /\ Rounds(engine)
  BY <1>1 DEF Classified, Raced, RInv, Typed, AtGate, AtRest
<1> DEFINE e == ModeApplied(engine)
           v == Verdict(Kind(Current(e)), e.policy, e.granted)
<1>3. /\ Same(engine, e) /\ e.granted = engine.granted /\ e.policy = LastMode
  BY <1>2, ModeAppliedSame DEF LastMode
<1>4. Current(e) = Current(engine)
  BY <1>2, <1>3, SameRounds
<1>5. Decide(e, Passes(e, "ready") \/ Asks(e))
  BY <1>1 DEF Classified
<1> HIDE DEF e
<1>6. CASE v \in {"allow", "classify"} /\ Passes(e, "ready")
  BY <1>1, <1>2, <1>3, <1>4, <1>6, PassesInv DEF GateStep, Passes
<1>7. CASE v = "deny" /\ Passes(e, "denied")
  BY <1>1, <1>2, <1>3, <1>4, <1>7, PassesInv DEF GateStep, Passes
<1>8. CASE v \in {"ask", "classify"} /\ Asks(e)
  <2>1. Kind(Current(e)) # "question"
    BY <1>8, QuestionsPass
  <2>2. QED
    BY <1>1, <1>2, <1>3, <1>8, <2>1, AsksInv DEF GateStep
<1>9. QED
  BY <1>5, <1>6, <1>7, <1>8 DEF Decide

-----------------------------------------------------------------------------
(***************************************************************************)
(* Calls that run, and the end of a round                                  *)
(***************************************************************************)

\* A step of a call moves `ran` of it alone.
LEMMA RanStep ==
    ASSUME RInv, UNCHANGED <<engine, calls, told, events, ops, ui, consented, acts>>,
           ran' \in [Call -> Deeds],
           \A c \in Call : Follows(engine, c, ran'[c], told[c]),
           engine.phase \in {"run", "question"} =>
               \/ \A c \in engine.ready : ran'[c] = "no"
               \/ \A c \in engine.ready : ran'[c] # "no"
    PROVE  RInv'
<1>1. Rounds(engine)'
  BY DEF RInv, Rounds, Alike, Together, Follows, Kind, Made
<1>2. Sends /\ engine' \in Engines /\ told' \in [Call -> Outcomes]
  BY DEF Sends, RInv, Typed
<1>3. Typed' /\ Wired'
  BY <1>1, <1>2, EngineStep
<1>4. Posed'
  BY DEF RInv, Posed, WaitsOn, Pending, Kind, Current
<1>5. QED
  BY <1>1, <1>3, <1>4 DEF RInv

LEMMA StartInv == RInv /\ Start => RInv'
<1>1. SUFFICES ASSUME RInv, Start PROVE RInv'
  OBVIOUS
<1>2. /\ engine.phase = "run" /\ engine \in Engines /\ Rounds(engine)
      /\ UNCHANGED <<engine, calls, told, events, ops, ui, consented, acts>>
      /\ ran' = [c \in Call |-> IF c \in engine.ready THEN "running" ELSE ran[c]]
      /\ engine.ready \subseteq Call /\ ran \in [Call -> Deeds]
  BY <1>1 DEF Start, Raced, AtRest, RInv, Typed, Engines
<1>3. \A c \in engine.ready : ran[c] = "no" /\ c \in engine.round
  BY <1>1, <1>2 DEF Start, Rounds, Together, Lined
<1>4. ran' \in [Call -> Deeds] /\ \A c \in engine.ready : ran'[c] # "no"
  BY <1>2 DEF Deeds
<1>5. ASSUME NEW c \in Call
      PROVE  Follows(engine, c, ran'[c], told[c])
  <2>1. Follows(engine, c, ran[c], told[c])
    BY <1>2 DEF Rounds
  <2>2. c \in engine.ready => ran'[c] = "running"
    BY <1>2
  <2>3. c \notin engine.ready => ran'[c] = ran[c]
    BY <1>2
  <2>4. QED
    BY <1>2, <1>3, <2>1, <2>2, <2>3 DEF Follows, Fits
<1>6. QED
  BY <1>1, <1>2, <1>4, <1>5, RanStep

\* A write starts or ends.
LEMMA DoesInv ==
    ASSUME RInv, NEW c \in Call, NEW from \in Deeds, NEW to \in Deeds, Does(c, from, to),
           UNCHANGED <<engine, calls, told, events, ops, ui, consented, acts>>,
           \/ from = "running" /\ to = "writing"
           \/ from = "writing" /\ to = "landed"
    PROVE  RInv' /\ engine.phase \in {"run", "question", "draining"}
<1>1. /\ Rounds(engine) /\ ran \in [Call -> Deeds] /\ ran[c] = from
      /\ ran' = [ran EXCEPT ![c] = to]
  BY DEF RInv, Typed, Does
<1>2. ran' \in [Call -> Deeds] /\ ran'[c] = to /\ \A d \in Call \ {c} : ran'[d] = ran[d]
  BY <1>1
<1>3. Follows(engine, c, ran[c], told[c])
  BY <1>1 DEF Rounds
<1>4. Follows(engine, c, ran'[c], told[c])
  BY <1>1, <1>2, <1>3 DEF Follows, Fits
<1>5. ASSUME NEW d \in Call
      PROVE  Follows(engine, d, ran'[d], told[d])
  BY <1>1, <1>2, <1>4 DEF Rounds
<1>6. engine.phase \in {"run", "question"} =>
               \/ \A d \in engine.ready : ran'[d] = "no"
               \/ \A d \in engine.ready : ran'[d] # "no"
  <2>1. engine.ready \subseteq Call
    BY DEF RInv, Typed, Engines
  <2>2. ran'[c] # "no" /\ ran[c] # "no"
    BY <1>1, <1>2
  <2>3. QED
    BY <1>1, <1>2, <2>1, <2>2 DEF Rounds, Together
<1>7. engine.phase \in {"run", "question", "draining"}
  <2> DEFINE o == IF c \in engine.round THEN engine.out[c] ELSE told[c]
  <2>1. o \in Outcomes
    BY DEF RInv, Typed, Engines
  <2>2. Fits(engine, c, o, ran[c])
    BY <1>3 DEF Follows
  <2> HIDE DEF o
  <2>3. CASE o = "none"
    BY <1>1, <2>2, <2>3 DEF Fits
  <2>4. CASE o = "interrupted"
    BY <1>1, <2>2, <2>4 DEF Fits
  <2>5. CASE o \in {"output", "notRun", "denied", "error"}
    BY <1>1, <2>2, <2>5 DEF Fits
  <2>6. QED
    BY <2>1, <2>3, <2>4, <2>5 DEF Outcomes
<1>8. QED
  BY <1>2, <1>5, <1>6, <1>7, RanStep

LEMMA FinishInv ==
    ASSUME RInv, NEW c \in Call, Finish(c)
    PROVE  RInv'
<1>1. /\ engine.phase = "run" /\ engine \in Engines /\ Rounds(engine)
      /\ c \in engine.ready /\ ran \in [Call -> Deeds] /\ ran[c] # "no"
      /\ ran' = [ran EXCEPT ![c] = "done"]
      /\ engine' = [engine EXCEPT !.out[c] = "output"]
      /\ UNCHANGED <<calls, told, events, ops, ui, consented, acts>>
      /\ told \in [Call -> Outcomes]
  BY DEF Finish, Does, Raced, AtRest, RInv, Typed
<1> DEFINE out == [engine.out EXCEPT ![c] = "output"]
<1>2. /\ out \in [Call -> Outcomes] /\ out[c] = "output"
      /\ \A d \in Call \ {c} : out[d] = engine.out[d]
  BY <1>1 DEF Engines, Outcomes
<1>3. engine' = [engine EXCEPT !.out = out]
  BY <1>1 DEF Engines
<1> HIDE DEF out
<1>4. /\ engine' \in Engines /\ engine'.out = out /\ engine'.phase = "run"
      /\ engine'.todo = engine.todo /\ engine'.batch = engine.batch
      /\ engine'.at = engine.at /\ engine'.ready = engine.ready
      /\ engine'.round = engine.round
  BY <1>1, <1>2, <1>3 DEF Engines
<1>5. ToCome(engine') = ToCome(engine)
  BY <1>4 DEF ToCome
<1>6. Lined(engine') /\ Staged(engine') /\ Alike(engine')
  BY <1>1, <1>4 DEF Rounds, Lined, Staged, Alike
<1>7. ran' \in [Call -> Deeds] /\ ran'[c] = "done"
      /\ \A d \in Call \ {c} : ran'[d] = ran[d]
  BY <1>1 DEF Deeds
<1>8. ASSUME NEW d \in Call
      PROVE  Follows(engine', d, ran'[d], told[d])
  <2>1. Follows(engine, d, ran[d], told[d]) /\ Follows(engine, c, ran[c], told[c])
    BY <1>1 DEF Rounds
  <2>2. c \in engine.round /\ c \notin ToCome(engine)
    BY <1>1, <2>1 DEF Rounds, Lined, Follows
  <2>3. CASE d = c
    BY <1>1, <1>2, <1>4, <1>5, <1>7, <2>1, <2>2, <2>3 DEF Follows, Fits, AtGate
  <2>4. CASE d # c
    BY <1>1, <1>2, <1>4, <1>5, <1>7, <2>1, <2>4 DEF Follows, Fits
  <2>5. QED
    BY <2>3, <2>4
<1>9. \A d \in engine'.ready : ran'[d] # "no"
  <2>1. \A d \in engine.ready : d \in Call /\ ran[d] # "no"
    BY <1>1 DEF Rounds, Together, Engines
  <2>2. QED
    BY <1>4, <1>7, <2>1
<1>10. Rounds(engine)'
  <2>1. Lined(engine)' /\ Staged(engine)' /\ Alike(engine)' /\ Together(engine)'
    BY <1>1, <1>6, <1>9 DEF Lined, Staged, Alike, Together, Kind, ToCome
  <2>2. \A d \in Call : Follows(engine, d, ran[d], told[d])'
    BY <1>1, <1>8 DEF Follows, Made
  <2>3. QED
    BY <1>1, <1>4, <2>1, <2>2 DEF Rounds, Made
<1>11. Sends /\ \A d \in Call : ~WaitsOn(d)'
  BY <1>1, <1>4 DEF Sends, WaitsOn
<1>12. QED
  BY <1>1, <1>4, <1>7, <1>10, <1>11, EngineStep

LEMMA AskQuestionInv ==
    ASSUME RInv, NEW c \in Call, AskQuestion(c)
    PROVE  RInv' /\ engine'.ready = engine.ready
<1> DEFINE x == Event("QuestionAsked", c, FALSE)
<1>1. /\ engine.phase = "run" /\ engine \in Engines /\ Rounds(engine)
      /\ c \in engine.ready /\ Kind(c) = "question"
      /\ engine' = [engine EXCEPT !.phase = "question"]
      /\ events' = Append(events, x)
      /\ UNCHANGED <<calls, ran, told, ops, ui, consented, acts>>
      /\ ran \in [Call -> Deeds] /\ told \in [Call -> Outcomes]
  BY DEF AskQuestion, Raced, AtRest, RInv, Typed
<1>2. "question" \in Phases /\ "question" \notin AtGate /\ "run" \notin AtGate
  BY DEF Phases, AtGate
<1>3. /\ engine' \in Engines /\ engine'.phase = "question"
      /\ engine'.ready = engine.ready /\ engine'.out = engine.out
      /\ engine'.round = engine.round /\ ToCome(engine') = ToCome(engine)
      /\ Lined(engine') /\ Alike(engine') /\ engine'.round \subseteq Made
  BY <1>1, <1>2, PhaseLine
<1>4. Staged(engine') /\ Together(engine')
  BY <1>1, <1>3 DEF Rounds, Staged, Together
<1>5. ASSUME NEW d \in Call
      PROVE  Follows(engine', d, ran[d], told[d])
  BY <1>1, <1>2, <1>3 DEF Rounds, Follows, Fits
<1>6. Rounds(engine')
  BY <1>3, <1>4, <1>5 DEF Rounds
<1>7. engine.ready = {c} /\ c \in Made
  <2>1. c \in Elems(engine.batch) /\ c \in engine.round /\ engine.round \subseteq Made
    BY <1>1 DEF Rounds, Lined
  <2>2. Elems(engine.batch) = {c}
    BY <1>1, <2>1 DEF Rounds, Alike, Parallel
  <2>3. QED
    BY <1>1, <2>1, <2>2 DEF Rounds, Lined
<1>8. x \in Evs /\ x.ev = "QuestionAsked" /\ x.call = c /\ GoodRequest(x)
  BY <1>1, <1>7 DEF Event, Evs, GoodRequest
<1> HIDE DEF x
<1>9. Rounds(engine)' /\ Sends
  BY <1>1, <1>6, <1>8, RoundsMoved DEF Sends
<1>10. Typed' /\ Wired'
  BY <1>1, <1>3, <1>9, EngineStep
<1>11. Posed'
  <2>1. x \in Elems(events')
    BY <1>1, <1>8, ElemsAppend DEF RInv, Typed
  <2>2. Pending(c)'
    BY <1>8, <2>1 DEF Pending
  <2>3. Kind(c)' = "question"
    BY <1>1 DEF Kind
  <2>4. QED
    BY <1>3, <1>7, <2>2, <2>3 DEF Posed, WaitsOn
<1>12. QED
  BY <1>3, <1>9, <1>10, <1>11 DEF RInv

\* The engine moves on once nothing of the phase is open.
LEMMA MovedOnInv ==
    ASSUME RInv, NEW p \in {"batch", "over"}, engine.phase \in {"run", "draining"},
           p = "batch" <=> engine.phase = "run",
           engine' = [engine EXCEPT !.phase = p],
           \A c \in engine.ready : engine.out[c] # "none",
           \A c \in Call : p = "over" => ran[c] # "writing",
           UNCHANGED <<calls, ran, told, events, ops, ui, consented, acts>>
    PROVE  RInv'
<1>1. /\ engine \in Engines /\ Rounds(engine)
      /\ ran \in [Call -> Deeds] /\ told \in [Call -> Outcomes]
  BY DEF RInv, Typed
<1>2. p \in Phases /\ p \notin AtGate /\ engine.phase \notin AtGate
  BY DEF Phases, AtGate
<1>3. /\ engine' \in Engines /\ engine'.phase = p
      /\ engine'.ready = engine.ready /\ engine'.out = engine.out
      /\ engine'.round = engine.round /\ ToCome(engine') = ToCome(engine)
      /\ Lined(engine') /\ Alike(engine') /\ engine'.round \subseteq Made
  BY <1>1, <1>2, PhaseLine
<1>4. Staged(engine') /\ Together(engine')
  BY <1>1, <1>3 DEF Rounds, Staged, Together
<1>5. ASSUME NEW c \in Call
      PROVE  Follows(engine', c, ran[c], told[c])
  <2>1. Follows(engine, c, ran[c], told[c])
    BY <1>1 DEF Rounds
  <2>2. QED
    BY <1>2, <1>3, <2>1 DEF Follows, Fits
<1>6. Rounds(engine)' /\ Sends /\ \A c \in Call : ~WaitsOn(c)'
  BY <1>3, <1>4, <1>5, RoundsMoved DEF Rounds, Sends, WaitsOn
<1>7. QED
  BY <1>1, <1>3, <1>6, EngineStep

LEMMA EndBatchInv == RInv /\ (EndBatch \/ Drained) => RInv'
<1>1. CASE RInv /\ EndBatch
  <2>1. \A c \in engine.ready : engine.out[c] # "none"
    BY <1>1 DEF EndBatch, Unfinished, Unanswered
  <2>2. QED
    BY <1>1, <2>1, MovedOnInv DEF EndBatch, AtRest
<1>2. CASE RInv /\ Drained
  <2>1. \A c \in engine.ready : engine.out[c] # "none"
    BY <1>2 DEF Drained, RInv, Rounds, Staged
  <2>2. QED
    BY <1>2, <2>1, MovedOnInv DEF Drained, AtRest
<1>3. QED
  BY <1>1, <1>2

LEMMA OverInv == RInv /\ Over => RInv'
<1>1. SUFFICES ASSUME RInv, Over PROVE RInv'
  OBVIOUS
<1> DEFINE a == ModeApplied(engine)
           no == [c \in Call |-> "none"]
           e == [a EXCEPT !.phase = "model", !.round = {}, !.ready = {},
                          !.batch = <<>>, !.at = 0, !.out = no]
<1>2. /\ engine.phase = "over" /\ engine \in Engines /\ Rounds(engine)
      /\ UNCHANGED <<calls, ran, ops, ui, consented, acts>>
      /\ told' = [c \in Call |-> IF c \in engine.round THEN engine.out[c] ELSE told[c]]
      /\ ran \in [Call -> Deeds] /\ told \in [Call -> Outcomes]
      /\ engine.out \in [Call -> Outcomes]
  BY <1>1 DEF Over, AtRest, RInv, Typed, Engines
<1>3. IF engine.aborted
        THEN engine' = TurnOver(e) /\ events' = Append(events, Event("OpEnded", 0, FALSE))
        ELSE engine' = e /\ UNCHANGED events
  BY <1>1 DEF Over
<1>4. Same(engine, a) /\ a \in Engines
  BY <1>2, ModeAppliedSame DEF Same
<1>5. ToCome(engine) = {} /\ Elems(engine.todo) = {}
  BY <1>2 DEF Rounds, Staged, ToCome
<1>6. /\ e \in Engines /\ e.phase = "model" /\ e.round = {} /\ e.ready = {}
      /\ e.batch = <<>> /\ e.at = 0 /\ e.out = no /\ e.todo = engine.todo
  <2>1. /\ "model" \in Phases /\ {} \in SUBSET Call /\ <<>> \in Seq(Call) /\ 0 \in Nat
        /\ no \in [Call -> Outcomes]
    BY DEF Phases, Outcomes
  <2> HIDE DEF a, no
  <2>2. e \in Engines
    BY <1>4, <2>1 DEF Engines
  <2>3. QED
    BY <1>4, <2>2 DEF Engines, Same
<1>7. no \in [Call -> Outcomes] /\ \A c \in Call : no[c] = "none"
  BY DEF Outcomes
<1> HIDE DEF a, no, e
<1>8. /\ engine' \in Engines /\ engine'.phase \in {"model", "idle"}
      /\ engine'.round = {} /\ engine'.ready = {} /\ engine'.batch = <<>>
      /\ engine'.at = 0 /\ engine'.out = no /\ engine'.todo = engine.todo
  <2>1. CASE engine' = e
    BY <1>6, <2>1
  <2>2. CASE engine' = TurnOver(e)
    <3> DEFINE g == ModeApplied(e)
    <3>1. Same(e, g)
      BY <1>6, ModeAppliedSame
    <3>2. engine' = [g EXCEPT !.phase = "idle", !.aborted = FALSE]
      BY <2>2 DEF TurnOver
    <3>3. "idle" \in Phases /\ FALSE \in BOOLEAN
      BY DEF Phases
    <3> HIDE DEF g
    <3>4. engine' \in Engines
      BY <3>1, <3>2, <3>3 DEF Same, Engines
    <3>5. QED
      BY <1>6, <3>1, <3>2, <3>4 DEF Same, Engines
  <2>3. QED
    BY <1>3, <2>1, <2>2
<1>9. /\ ToCome(engine') = {} /\ Elems(engine'.batch) = {}
      /\ Lined(engine') /\ Staged(engine') /\ Distinct(engine'.todo)
  BY <1>2, <1>5, <1>8, ElemsEmpty DEF ToCome, Lined, Staged, Rounds, AtGate
<1>10. told' \in [Call -> Outcomes]
  BY <1>2
<1>11. ASSUME NEW c \in Call
       PROVE  Follows(engine', c, ran[c], told'[c])
  <2>1. Follows(engine, c, ran[c], told[c]) /\ (c \in engine.ready => engine.out[c] # "none")
    BY <1>2 DEF Rounds, Staged
  <2>2. told'[c] = IF c \in engine.round THEN engine.out[c] ELSE told[c]
    BY <1>2
  <2>3. told'[c] = "none" <=> c \notin Made
    BY <1>2, <1>5, <2>1, <2>2 DEF Follows, Rounds
  <2>4. Fits(engine', c, told'[c], ran[c])
    BY <1>2, <1>8, <2>1, <2>2 DEF Follows, Fits
  <2>5. QED
    BY <1>7, <1>8, <1>9, <2>3, <2>4 DEF Follows
<1>12. Rounds(engine)'
  <2>1. Alike(engine)' /\ Together(engine)' /\ Lined(engine)' /\ Staged(engine)'
    BY <1>8, <1>9 DEF Alike, Together, Lined, Staged, ToCome
  <2>2. \A c \in Call : Follows(engine, c, ran[c], told[c])'
    BY <1>2, <1>11 DEF Follows, Made
  <2>3. QED
    BY <1>8, <2>1, <2>2 DEF Rounds
<1>13. Sends /\ \A c \in Call : ~WaitsOn(c)'
  BY <1>3, <1>8, Ending DEF Sends, WaitsOn
<1>14. QED
  BY <1>1, <1>2, <1>8, <1>10, <1>12, <1>13, EngineStep

-----------------------------------------------------------------------------
(***************************************************************************)
(* Ops                                                                     *)
(***************************************************************************)

\* The engine takes an op and sends the UI at most the turn's end.
LEMMA OpStep ==
    ASSUME RInv, ops # <<>>, Reads, Sends, engine' \in Engines, Rounds(engine)',
           ran' \in [Call -> Deeds]
    PROVE  /\ Typed' /\ Rounds(engine)' /\ Wired'
           /\ (\A c \in Call : ~WaitsOn(c)') => RInv'
<1>1. /\ ops' = Tail(ops) /\ UNCHANGED <<calls, told, ui, consented, acts>>
      /\ ops \in Seq(Ops) /\ Len(ops) <= OpCap /\ OpCap \in Nat
  BY RoundAssumption DEF Reads, RInv, Typed
<1>2. ops' \in Seq(Ops) /\ Len(ops') <= OpCap /\ Elems(ops') \subseteq Elems(ops)
  <2>1. /\ ops' \in Seq(Ops) /\ Len(ops') <= Len(ops)
        /\ Elems(ops) = Elems(ops') \cup {Head(ops)}
    BY <1>1, ElemsTail
  <2>2. Len(ops') \in Nat /\ Len(ops) \in Nat
    BY <1>1, <2>1
  <2>3. QED
    BY <1>1, <2>1, <2>2
<1>3. events' \in Seq(Evs) /\ \A x \in Elems(events') : x.ev = "OpEnded" \/ GoodRequest(x)
  <2>1. CASE events' = events
    BY <2>1 DEF RInv, Typed, Wired
  <2>2. CASE \E x \in Evs : /\ x.ev = "OpEnded" \/ GoodRequest(x)
                            /\ events' = Append(events, x)
    BY <2>2, ElemsAppend DEF RInv, Typed, Wired
  <2>3. QED
    BY <2>1, <2>2 DEF Sends
<1>4. Typed'
  BY <1>1, <1>2, <1>3 DEF RInv, Typed
<1>5. Wired'
  BY <1>1, <1>2, <1>3 DEF RInv, Wired, GoodOp, GoodRequest, Made, Kind
<1>6. QED
  BY <1>4, <1>5 DEF RInv, Posed

\* An op that asks nothing of the round leaves it as it is.
LEMMA KeptInv ==
    ASSUME RInv, ops # <<>>, Reads, Same(engine, engine'), UNCHANGED <<ran, events>>,
           \A c \in Call : WaitsOn(c) =>
              ~(Head(ops).op \in {"Resolve", "AnswerQuestion"} /\ Head(ops).call = c)
    PROVE  RInv'
<1>1. /\ Rounds(engine) /\ engine \in Engines /\ ops \in Seq(Ops)
      /\ UNCHANGED <<calls, told, ui>> /\ ops' = Tail(ops)
      /\ ran \in [Call -> Deeds]
  BY DEF RInv, Typed, Reads
<1>2. Rounds(engine') /\ Current(engine') = Current(engine)
  BY <1>1, SameRounds
<1>3. Rounds(engine)'
  BY <1>1, <1>2, RoundsMoved
<1>4. Typed' /\ Wired'
  BY <1>1, <1>3, OpStep DEF Same, Sends
<1>5. Elems(ops) = Elems(ops') \cup {Head(ops)}
  BY <1>1, ElemsTail
<1>6. ASSUME NEW c \in Call, WaitsOn(c)'
      PROVE  Pending(c)' /\ (Kind(c)' = "question" <=> engine'.phase = "question")
  <2>1. WaitsOn(c)
    BY <1>2, <1>6 DEF WaitsOn, Same, Current
  <2>2. Pending(c) /\ (Kind(c) = "question" <=> engine.phase = "question")
    BY <2>1 DEF RInv, Posed
  <2>3. Pending(c)'
    BY <1>1, <1>5, <2>1, <2>2 DEF Pending
  <2>4. QED
    BY <1>1, <2>2, <2>3 DEF Kind, Same
<1>7. Posed'
  BY <1>6 DEF Posed
<1>8. QED
  BY <1>3, <1>4, <1>7 DEF RInv

\* What taking in an op may do: a call passes the gate, or an answer reaches
\* its call, by what the user said; only running calls are touched.
OpTaken ==
    /\ RInv' /\ engine'.ready \subseteq engine.ready \cup consented
    /\ \A c \in Call : ran[c] # ran'[c] /\ ran'[c] = "answered" => c \in consented
    /\ ran' # ran => engine.phase \in {"run", "question"}

LEMMA AbortedRunningInv ==
    ASSUME RInv, ops # <<>>, Reads, engine.phase \in {"run", "question"},
           engine' = AbortedRunning(engine), CutShort, UNCHANGED events
    PROVE  OpTaken
<1> DEFINE e == engine
<1>1. /\ e \in Engines /\ Rounds(e) /\ ran \in [Call -> Deeds]
      /\ UNCHANGED <<calls, told>>
      /\ ran' = [c \in Call |-> IF ran[c] \in {"running", "answered"}
                                  THEN "cut" ELSE ran[c]]
  BY DEF RInv, Typed, Reads, CutShort
<1>2. ran' \in [Call -> Deeds]
  BY <1>1 DEF Deeds
<1>3. /\ engine' \in Engines /\ Lined(engine') /\ ToCome(engine') = {}
      /\ engine'.ready = {} /\ engine'.batch = <<>> /\ engine'.round = e.round
      /\ engine'.phase = "draining"
      /\ \A c \in Call : engine'.out[c] =
                     IF c \in e.ready /\ e.out[c] = "none" THEN "interrupted"
                     ELSE IF c \in e.round /\ e.out[c] = "none" THEN "notRun"
                     ELSE e.out[c]
  BY <1>1, AbortedRunningLine DEF Aborts
<1>4. Staged(engine') /\ Lined(engine)' /\ Staged(engine)' /\ Alike(engine)' /\ Together(engine)'
  BY <1>3, ElemsEmpty DEF Staged, Lined, Alike, Together, ToCome
<1>5. ASSUME NEW c \in Call
      PROVE  Follows(engine', c, ran'[c], told[c])
  <2>1. Follows(e, c, ran[c], told[c]) /\ (c \in e.ready => c \in e.round)
    BY <1>1 DEF Rounds, Lined
  <2>2. ran'[c] = IF ran[c] \in {"running", "answered"} THEN "cut" ELSE ran[c]
    BY <1>1
  <2>3. ran[c] \in Deeds
    BY <1>1
  <2>4. CASE c \notin e.round
    <3>1. Fits(e, c, told[c], ran[c]) /\ c \notin e.ready /\ e.out[c] = "none"
      BY <2>1, <2>4 DEF Follows
    <3>2. told[c] \in Outcomes
      BY DEF RInv, Typed
    <3>3. ran[c] \notin {"running", "answered"} /\ Fits(engine', c, told[c], ran[c])
      BY <1>3, <3>1, <3>2 DEF Fits, Outcomes
    <3>4. QED
      BY <1>3, <2>1, <2>2, <2>4, <3>1, <3>3 DEF Follows
  <2>5. CASE c \in e.round
    <3>1. Fits(e, c, e.out[c], ran[c]) /\ told[c] = "none"
      BY <2>1, <2>5 DEF Follows
    <3>2. e.out[c] \in Outcomes
      BY <1>1 DEF Engines
    <3>3. CASE e.out[c] = "none" /\ c \in e.ready
      <4>1. engine'.out[c] = "interrupted" /\ ran'[c] \in {"no", "cut", "writing", "landed"}
        BY <1>3, <2>2, <2>3, <3>1, <3>3 DEF Fits, Deeds
      <4>2. QED
        BY <1>3, <2>5, <3>1, <4>1 DEF Follows, Fits
    <3>4. CASE e.out[c] = "none" /\ c \notin e.ready
      <4>1. engine'.out[c] = "notRun" /\ ran'[c] = "no"
        BY <1>3, <2>2, <2>5, <3>1, <3>4 DEF Fits
      <4>2. QED
        BY <1>3, <2>5, <3>1, <4>1 DEF Follows, Fits
    <3>5. CASE e.out[c] # "none"
      <4>1. engine'.out[c] = e.out[c] /\ ran'[c] = ran[c]
        BY <1>3, <2>2, <3>1, <3>2, <3>5 DEF Fits, Outcomes
      <4>2. QED
        BY <1>3, <2>5, <3>1, <3>5, <4>1 DEF Follows, Fits
    <3>6. QED
      BY <3>3, <3>4, <3>5
  <2>6. QED
    BY <2>4, <2>5
<1>6. Rounds(engine)'
  <2>1. \A c \in Call : Follows(engine, c, ran[c], told[c])'
    BY <1>1, <1>5 DEF Follows, Made
  <2>2. engine'.round \subseteq Made'
    BY <1>1, <1>3 DEF Rounds, Made
  <2>3. QED
    BY <1>4, <2>1, <2>2 DEF Rounds
<1>7. RInv'
  BY <1>2, <1>3, <1>6, OpStep DEF Sends, WaitsOn
<1>8. \A c \in Call : ran[c] # ran'[c] => ran'[c] = "cut"
  BY <1>1
<1>9. QED
  BY <1>3, <1>7, <1>8 DEF OpTaken

LEMMA InterruptInv ==
    ASSUME RInv, ops # <<>>, Reads, Waiting, Interrupted
    PROVE  OpTaken
<1>1. /\ engine \in Engines /\ Rounds(engine) /\ ran \in [Call -> Deeds]
      /\ UNCHANGED <<calls, told>>
  BY DEF RInv, Typed, Reads
<1>2. CASE engine.phase = "model"
  <2>1. engine' = TurnOver(engine) /\ UNCHANGED ran
        /\ events' = Append(events, Event("OpEnded", 0, FALSE))
    BY <1>2 DEF Interrupted
  <2>2. engine.phase \notin AtGate \cup {"draining"}
    BY <1>2 DEF AtGate
  <2>3. /\ engine' \in Engines /\ Rounds(engine') /\ engine'.phase = "idle"
        /\ engine'.ready = {}
    BY <1>1, <1>2, <2>1, <2>2, NoRound, TurnOverEngine
  <2>4. Rounds(engine)' /\ Sends /\ \A c \in Call : ~WaitsOn(c)'
    BY <1>1, <2>1, <2>3, RoundsMoved, Ending DEF Sends, WaitsOn
  <2>5. RInv'
    BY <1>1, <2>1, <2>3, <2>4, OpStep
  <2>6. QED
    BY <2>1, <2>3, <2>5 DEF OpTaken
<1>3. CASE engine.phase \in {"classify", "approval"}
  <2>1. engine' = AbortedAtGate(engine) /\ UNCHANGED <<ran, events>>
    BY <1>3 DEF Interrupted
  <2>2. engine.phase \in AtGate
    BY <1>3 DEF AtGate
  <2>3. /\ engine' \in Engines /\ Rounds(engine') /\ engine'.phase = "over"
        /\ engine'.ready = {}
    BY <1>1, <2>1, <2>2, AbortedAtGateRounds
  <2>4. Rounds(engine)' /\ Sends /\ \A c \in Call : ~WaitsOn(c)'
    BY <1>1, <2>1, <2>3, RoundsMoved DEF Sends, WaitsOn
  <2>5. RInv'
    BY <1>1, <2>1, <2>3, <2>4, OpStep
  <2>6. QED
    BY <2>1, <2>3, <2>5 DEF OpTaken
<1>4. CASE engine.phase \in {"run", "question"}
  <2>1. engine' = AbortedRunning(engine) /\ CutShort /\ UNCHANGED events
    BY <1>4 DEF Interrupted
  <2>2. QED
    BY <1>4, <2>1, AbortedRunningInv
<1>5. QED
  BY <1>2, <1>3, <1>4 DEF Waiting, Unfinished

LEMMA ResolveInv ==
    ASSUME RInv, ops # <<>>, Reads, Head(ops).op = "Resolve", Awaited(Head(ops)),
           UNCHANGED <<ran, events>>, Decided(Head(ops).arg)
    PROVE  OpTaken
<1> DEFINE op == Head(ops)
           c == Current(engine)
<1>1. /\ engine \in Engines /\ Rounds(engine) /\ ran \in [Call -> Deeds]
      /\ UNCHANGED <<calls, told>>
  BY DEF RInv, Typed, Reads
<1>2. engine.phase = "approval" /\ engine.phase \in AtGate /\ op.call = c
  BY DEF Awaited, AtGate
<1>3. GoodOp(op)
  <2>1. ops \in Seq(Ops)
    BY DEF RInv, Typed
  <2>2. Head(ops) \in Elems(ops)
    BY <2>1, ElemsTail
  <2>3. QED
    BY <2>2 DEF RInv, Wired
<1>4. /\ op.arg \in {"approve", "session", "deny", "abort"} /\ c \in Made
      /\ op.arg \in {"approve", "session"} => c \in consented
  BY <1>2, <1>3 DEF GoodOp
<1>5. Decided(op.arg)
  OBVIOUS
<1> HIDE DEF op, c
<1>6. /\ engine' \in Engines /\ Rounds(engine')
      /\ engine'.phase \in {"run", "gate", "over"}
      /\ engine'.ready \subseteq engine.ready \cup consented
  <2>1. CASE op.arg = "approve"
    <3>1. engine' = Settled(engine, "ready")
      BY <1>5, <2>1 DEF Decided
    <3>2. QED
      BY <1>1, <1>2, <1>4, <2>1, <3>1, SettledRounds DEF c
  <2>2. CASE op.arg = "deny"
    <3>1. engine' = Settled(engine, "denied")
      BY <1>5, <2>2 DEF Decided
    <3>2. QED
      BY <1>1, <1>2, <3>1, SettledRounds
  <2>3. CASE op.arg = "abort"
    <3>1. engine' = AbortedAtGate(engine)
      BY <1>5, <2>3 DEF Decided
    <3>2. QED
      BY <1>1, <1>2, <3>1, AbortedAtGateRounds
  <2>4. CASE op.arg = "session"
    <3> DEFINE g == [engine EXCEPT !.granted = @ \cup {Kind(Current(engine))}]
    <3>1. engine' = Settled(g, "ready")
      BY <1>5, <2>4 DEF Decided
    <3>2. Kind(Current(engine)) \in Kinds
      <4>1. calls \in Seq(Kinds)
        BY DEF RInv, Typed
      <4>2. QED
        BY <1>4, <4>1 DEF Kind, Made, c
    <3>3. engine.granted \cup {Kind(Current(engine))} \in SUBSET Kinds
      BY <1>1, <3>2 DEF Engines
    <3>4. g \in Engines
      BY <1>1, <3>3 DEF Engines
    <3>5. Same(engine, g)
      BY <1>1, <3>4 DEF Same, Engines
    <3> HIDE DEF g
    <3>6. Rounds(g) /\ Current(g) = c /\ g.ready = engine.ready /\ g.phase \in AtGate
      BY <1>1, <1>2, <3>5, SameRounds DEF Same, c
    <3>7. QED
      BY <1>4, <2>4, <3>1, <3>4, <3>6, SettledRounds
  <2>5. QED
    BY <1>4, <2>1, <2>2, <2>3, <2>4
<1>7. Rounds(engine)' /\ Sends /\ \A d \in Call : ~WaitsOn(d)'
  BY <1>1, <1>6, RoundsMoved DEF Sends, WaitsOn
<1>8. RInv'
  BY <1>1, <1>6, <1>7, OpStep
<1>9. QED
  BY <1>6, <1>8 DEF OpTaken

LEMMA AnsweredInv ==
    ASSUME RInv, ops # <<>>, Reads, Head(ops).op = "AnswerQuestion", Awaited(Head(ops)),
           UNCHANGED events, engine' = [engine EXCEPT !.phase = "run"],
           Does(Head(ops).call, "running", "answered")
    PROVE  OpTaken
<1> DEFINE c == Head(ops).call
<1>1. /\ engine \in Engines /\ Rounds(engine) /\ ran \in [Call -> Deeds]
      /\ UNCHANGED <<calls, told>>
  BY DEF RInv, Typed, Reads
<1>2. engine.phase = "question" /\ c \in engine.ready /\ c \in Call
  BY <1>1 DEF Awaited, Engines
<1>3. c \in consented
  <2>1. ops \in Seq(Ops)
    BY DEF RInv, Typed
  <2>2. Head(ops) \in Elems(ops)
    BY <2>1, ElemsTail
  <2>3. QED
    BY <2>2 DEF RInv, Wired, GoodOp
<1>4. ran[c] = "running" /\ ran' = [ran EXCEPT ![c] = "answered"]
  BY DEF Does
<1> HIDE DEF c
<1>5. /\ ran' \in [Call -> Deeds] /\ ran'[c] = "answered"
      /\ \A d \in Call \ {c} : ran'[d] = ran[d]
  BY <1>1, <1>2, <1>4 DEF Deeds
<1>6. "run" \in Phases /\ "run" \notin AtGate /\ "question" \notin AtGate
  BY DEF Phases, AtGate
<1>7. /\ engine' \in Engines /\ engine'.phase = "run"
      /\ engine'.ready = engine.ready /\ engine'.out = engine.out
      /\ engine'.round = engine.round /\ ToCome(engine') = ToCome(engine)
      /\ Lined(engine') /\ Alike(engine') /\ engine'.round \subseteq Made
  BY <1>1, <1>2, <1>6, PhaseLine
<1>8. ASSUME NEW d \in Call
      PROVE  Follows(engine', d, ran'[d], told[d])
  <2>1. Follows(engine, d, ran[d], told[d])
    BY <1>1 DEF Rounds
  <2>2. ran[d] # ran'[d] => ran[d] = "running" /\ ran'[d] = "answered"
    BY <1>4, <1>5
  <2>3. QED
    BY <1>2, <1>6, <1>7, <2>1, <2>2 DEF Follows, Fits
<1>9. \A d \in engine'.ready : ran'[d] # "no"
  <2>1. \A d \in engine.ready : ran[d] # "no" /\ d \in Call
    BY <1>1, <1>2, <1>4 DEF Rounds, Together, Engines
  <2>2. QED
    BY <1>5, <1>7, <2>1
<1>10. Rounds(engine)'
  <2>1. Lined(engine)' /\ Staged(engine)' /\ Alike(engine)' /\ Together(engine)'
    BY <1>1, <1>7, <1>9 DEF Lined, Staged, Alike, Together, Kind, ToCome
  <2>2. \A d \in Call : Follows(engine, d, ran[d], told[d])'
    BY <1>1, <1>8 DEF Follows, Made
  <2>3. QED
    BY <1>1, <1>7, <2>1, <2>2 DEF Rounds, Made
<1>11. RInv'
  BY <1>5, <1>7, <1>10, OpStep DEF Sends, WaitsOn
<1>12. QED
  BY <1>2, <1>3, <1>5, <1>7, <1>11 DEF OpTaken

LEMMA AbsorbInv == RInv /\ Absorb => OpTaken
<1>1. SUFFICES ASSUME RInv, Absorb PROVE OpTaken
  OBVIOUS
<1> DEFINE op == Head(ops)
<1>2. Waiting /\ ops # <<>> /\ Reads
  BY <1>1 DEF Absorb
<1>3. ops \in Seq(Ops) /\ GoodOp(op)
  <2>1. ops \in Seq(Ops)
    BY <1>1 DEF RInv, Typed
  <2>2. Head(ops) \in Elems(ops)
    BY <1>2, <2>1, ElemsTail
  <2>3. QED
    BY <1>1, <2>1, <2>2 DEF RInv, Wired
<1>4. engine \in Engines /\ Rounds(engine)
  BY <1>1 DEF RInv, Typed
<1>5. CASE op.op = "Interrupt" /\ Interrupted
  BY <1>1, <1>2, <1>5, InterruptInv
<1>6. CASE /\ op.op = "SetMode" /\ UNCHANGED <<ran, events>>
           /\ engine' = [engine EXCEPT !.kept = op.arg]
  <2>1. op.arg \in Modes
    BY <1>3, <1>6 DEF GoodOp
  <2> HIDE DEF op
  <2>2. engine' \in Engines
    BY <1>4, <1>6, <2>1 DEF Engines
  <2>3. Same(engine, engine')
    BY <1>4, <1>6, <2>2 DEF Same, Engines
  <2>4. RInv'
    BY <1>1, <1>2, <1>6, <2>3, KeptInv DEF op
  <2>5. QED
    BY <1>6, <2>3, <2>4 DEF OpTaken, Same
<1>7. CASE op.op = "Resolve" /\ Awaited(op) /\ UNCHANGED <<ran, events>> /\ Decided(op.arg)
  BY <1>1, <1>2, <1>7, ResolveInv
<1>8. CASE /\ op.op = "AnswerQuestion" /\ Awaited(op) /\ UNCHANGED events
           /\ engine' = [engine EXCEPT !.phase = "run"]
           /\ Does(op.call, "running", "answered")
  BY <1>1, <1>2, <1>8, AnsweredInv
<1>9. CASE /\ op.op \in {"Resolve", "AnswerQuestion"} /\ ~Awaited(op)
           /\ UNCHANGED <<engine, ran, events>>
  <2> HIDE DEF op
  <2>1. ASSUME NEW c \in Call, WaitsOn(c)
        PROVE  ~(op.op \in {"Resolve", "AnswerQuestion"} /\ op.call = c)
    <3>1. Kind(c) = "question" <=> engine.phase = "question"
      BY <1>1, <2>1 DEF RInv, Posed
    <3>2. CASE op.op = "Resolve"
      BY <1>3, <1>9, <2>1, <3>1, <3>2 DEF GoodOp, Awaited, WaitsOn
    <3>3. CASE op.op = "AnswerQuestion"
      BY <1>3, <1>9, <2>1, <3>1, <3>3 DEF GoodOp, Awaited, WaitsOn
    <3>4. QED
      BY <1>9, <3>2, <3>3
  <2>2. Same(engine, engine')
    BY <1>4, <1>9 DEF Same
  <2>3. RInv'
    BY <1>1, <1>2, <1>9, <2>1, <2>2, KeptInv DEF op
  <2>4. QED
    BY <1>9, <2>3 DEF OpTaken
<1>10. QED
  BY <1>1, <1>5, <1>6, <1>7, <1>8, <1>9 DEF Absorb

LEMMA ServeInv == RInv /\ Serve => RInv' /\ engine'.ready = engine.ready
<1>1. SUFFICES ASSUME RInv, Serve PROVE RInv' /\ engine'.ready = engine.ready
  OBVIOUS
<1> DEFINE op == Head(ops)
<1>2. /\ engine.phase = "idle" /\ ops # <<>> /\ Reads /\ UNCHANGED <<ran, events>>
      /\ engine' = CASE op.op = "Prompt"  -> [engine EXCEPT !.phase = "model"]
                     [] op.op = "SetMode" -> [engine EXCEPT !.policy = op.arg]
                     [] OTHER             -> engine
  BY <1>1 DEF Serve
<1>3. GoodOp(op)
  <2>1. ops \in Seq(Ops)
    BY <1>1 DEF RInv, Typed
  <2>2. Head(ops) \in Elems(ops)
    BY <1>2, <2>1, ElemsTail
  <2>3. QED
    BY <1>1, <2>2 DEF RInv, Wired
<1>4. /\ engine \in Engines /\ Rounds(engine) /\ ran \in [Call -> Deeds]
      /\ UNCHANGED <<calls, told>>
  BY <1>1, <1>2 DEF RInv, Typed, Reads
<1> HIDE DEF op
<1>5. /\ engine' \in Engines /\ Rounds(engine') /\ engine'.ready = engine.ready
      /\ engine'.phase \in {"idle", "model"}
  <2>1. CASE op.op = "Prompt"
    <3>1. engine' = [engine EXCEPT !.phase = "model"]
      BY <1>2, <2>1
    <3>2. "model" \in Phases /\ "model" \notin AtGate /\ engine.phase \notin AtGate
      BY <1>2 DEF Phases, AtGate
    <3>3. /\ engine' \in Engines /\ engine'.phase = "model"
          /\ engine'.ready = engine.ready /\ engine'.out = engine.out
          /\ engine'.round = engine.round /\ ToCome(engine') = ToCome(engine)
          /\ Lined(engine') /\ Alike(engine') /\ engine'.round \subseteq Made
      BY <1>4, <3>1, <3>2, PhaseLine
    <3>4. Staged(engine') /\ Together(engine')
      BY <1>2, <1>4, <3>3 DEF Rounds, Staged, Together
    <3>5. ASSUME NEW c \in Call
          PROVE  Follows(engine', c, ran[c], told[c])
      BY <1>2, <1>4, <3>2, <3>3 DEF Rounds, Follows, Fits
    <3>6. QED
      BY <3>3, <3>4, <3>5 DEF Rounds
  <2>2. CASE op.op = "SetMode"
    <3>1. engine' = [engine EXCEPT !.policy = op.arg] /\ op.arg \in Modes
      BY <1>2, <1>3, <2>2 DEF GoodOp
    <3>2. engine' \in Engines
      BY <1>4, <3>1 DEF Engines
    <3>3. Same(engine, engine')
      BY <1>4, <3>1, <3>2 DEF Same, Engines
    <3>4. QED
      BY <1>2, <1>4, <3>2, <3>3, SameRounds DEF Same
  <2>3. CASE op.op \notin {"Prompt", "SetMode"}
    <3>1. engine' = engine
      BY <1>2, <2>3
    <3>2. QED
      BY <1>2, <1>4, <3>1
  <2>4. QED
    BY <2>1, <2>2, <2>3
<1>6. Rounds(engine)' /\ Sends /\ \A c \in Call : ~WaitsOn(c)'
  BY <1>2, <1>4, <1>5, RoundsMoved DEF Sends, WaitsOn
<1>7. RInv'
  BY <1>1, <1>2, <1>4, <1>5, <1>6, OpStep
<1>8. QED
  BY <1>5, <1>7

-----------------------------------------------------------------------------
(***************************************************************************)
(* The terminal UI                                                         *)
(***************************************************************************)

\* A step of the UI loses no request and no reply the engine waits for.
LEMMA UIStep ==
    ASSUME RInv, UISide, ops' \in Seq(Ops), Len(ops') <= OpCap, ui' \in UIs,
           events' \in Seq(Evs), Elems(events') \subseteq Elems(events),
           consented' \in SUBSET Call, consented \subseteq consented',
           acts' \in 0 .. MaxActs,
           \A x \in Elems(ops') : x \in Elems(ops) \/ GoodOp(x)',
           \A x \in Elems(ui.modals)' :
              x \in Elems(ui.modals) \/ x = Picker \/ GoodRequest(x),
           \A c \in Call : Pending(c) => Pending(c)'
    PROVE  RInv'
<1>1. UNCHANGED <<engine, calls, ran, told>>
  BY DEF UISide
<1>2. Typed'
  BY <1>1 DEF RInv, Typed
<1>3. Rounds(engine)'
  BY <1>1, RoundsMoved DEF RInv
<1>4. Wired'
  <2>1. \A x : (GoodOp(x) => GoodOp(x)') /\ (GoodRequest(x) => GoodRequest(x)')
    BY <1>1 DEF GoodOp, GoodRequest, Made, Kind
  <2>2. QED
    BY <1>1, <2>1 DEF RInv, Wired
<1>5. Posed'
  BY <1>1 DEF RInv, Posed, WaitsOn, Kind, Current
<1>6. QED
  BY <1>2, <1>3, <1>4, <1>5 DEF RInv

\* The UI sends an op and keeps its modals.
LEMMA SendInv ==
    ASSUME RInv, UISide, Room, NEW x \in Ops, x.op \notin {"Resolve", "AnswerQuestion"},
           x.op = "SetMode" => x.arg \in Modes, ops' = Append(ops, x),
           ui' \in UIs, ui'.modals = ui.modals, ui'.lost = ui.lost,
           UNCHANGED <<events, consented>>, acts' \in 0 .. MaxActs
    PROVE  RInv'
<1>1. /\ ops \in Seq(Ops) /\ Len(ops) < OpCap /\ OpCap \in Nat
      /\ events \in Seq(Evs) /\ consented \in SUBSET Call
  BY RoundAssumption DEF RInv, Typed, Room
<1>2. /\ ops' \in Seq(Ops) /\ Len(ops') = Len(ops) + 1
      /\ Elems(ops') = Elems(ops) \cup {x}
  BY <1>1, ElemsAppend
<1>3. Len(ops') <= OpCap
  BY <1>1, <1>2
<1>4. GoodOp(x)'
  BY DEF GoodOp
<1>5. \A c \in Call : Pending(c) => Pending(c)'
  BY <1>2 DEF Pending
<1>6. QED
  BY <1>1, <1>2, <1>3, <1>4, <1>5, UIStep

LEMMA KeysInv == RInv /\ (Submit \/ PressInterrupt \/ CycleMode) => RInv'
<1>1. SUFFICES ASSUME RInv, Submit \/ PressInterrupt \/ CycleMode PROVE RInv'
  OBVIOUS
<1>2. ui \in UIs /\ acts \in 0 .. MaxActs
  BY <1>1 DEF RInv, Typed
<1>3. CASE Submit
  <2>1. Op("Prompt", 0, "none") \in Ops
    BY DEF Op, Ops
  <2>2. ui' \in UIs /\ ui'.modals = ui.modals /\ ui'.lost = ui.lost
    BY <1>2, <1>3 DEF Submit, UIs
  <2>3. Op("Prompt", 0, "none").op = "Prompt"
    BY DEF Op
  <2>4. QED
    BY <1>1, <1>2, <1>3, <2>1, <2>2, <2>3, SendInv DEF Submit
<1>4. CASE PressInterrupt
  <2>1. Op("Interrupt", 0, "none") \in Ops
    BY DEF Op, Ops
  <2>2. Op("Interrupt", 0, "none").op = "Interrupt"
    BY DEF Op
  <2>3. QED
    BY <1>1, <1>2, <1>4, <2>1, <2>2, SendInv DEF PressInterrupt
<1>5. CASE CycleMode
  <2>1. PICK m \in Modes : ops' = Append(ops, Op("SetMode", 0, m))
    BY <1>5 DEF CycleMode
  <2>2. Op("SetMode", 0, m) \in Ops
    BY DEF Op, Ops
  <2>3. Op("SetMode", 0, m).op = "SetMode" /\ Op("SetMode", 0, m).arg = m
    BY DEF Op
  <2>4. acts' \in 0 .. MaxActs
    BY <1>2, <1>5, RoundAssumption DEF CycleMode
  <2>5. QED
    BY <1>1, <1>2, <1>5, <2>1, <2>2, <2>3, <2>4, SendInv DEF CycleMode
<1>6. QED
  BY <1>1, <1>3, <1>4, <1>5

\* The UI's own modals open and close.
LEMMA PickerInv == RInv /\ (OpenPicker \/ ClosePicker) => RInv'
<1>1. SUFFICES ASSUME RInv, OpenPicker \/ ClosePicker PROVE RInv'
  OBVIOUS
<1>2. /\ ui \in UIs /\ acts \in 0 .. MaxActs /\ ops \in Seq(Ops) /\ Len(ops) <= OpCap
      /\ events \in Seq(Evs) /\ consented \in SUBSET Call /\ ui.modals \in Seq(Evs)
  BY <1>1 DEF RInv, Typed, UIs
<1>3. Picker \in Evs /\ Picker.call = 0 /\ 0 \notin Call
  BY RoundAssumption DEF Picker, Event, Evs, Call
<1>4. \A x \in Elems(ops) : GoodOp(x)
  BY <1>1 DEF RInv, Wired
<1>5. CASE OpenPicker
  <2>1. /\ ui.modals = <<>> /\ ui' = [ui EXCEPT !.modals = <<Picker>>] /\ UISide
        /\ UNCHANGED <<ops, events, consented>>
    BY <1>5 DEF OpenPicker, NoModal
  <2>2. acts' \in 0 .. MaxActs
    BY <1>2, <1>5, RoundAssumption DEF OpenPicker
  <2>3. <<Picker>> \in Seq(Evs) /\ Elems(<<Picker>>) = {Picker}
    BY <1>3 DEF Elems
  <2>4. ui' \in UIs /\ ui'.modals = <<Picker>> /\ ui'.lost = ui.lost
    BY <1>2, <2>1, <2>3 DEF UIs
  <2>5. \A c \in Call : Pending(c) => Pending(c)'
    BY <1>3, <2>1, <2>3, <2>4, ElemsEmpty DEF Pending
  <2>6. QED
    BY <1>1, <1>2, <2>1, <2>2, <2>3, <2>4, <2>5, UIStep
<1>6. CASE ClosePicker
  <2>1. /\ ui.modals # <<>> /\ Head(ui.modals) = Picker
        /\ ui' = [ui EXCEPT !.modals = Tail(ui.modals)] /\ UISide
        /\ UNCHANGED <<ops, events, consented, acts>>
    BY <1>6 DEF ClosePicker, NoModal
  <2>2. /\ Tail(ui.modals) \in Seq(Evs)
        /\ Elems(ui.modals) = Elems(Tail(ui.modals)) \cup {Picker}
    BY <1>2, <2>1, ElemsTail
  <2>3. ui' \in UIs /\ ui'.modals = Tail(ui.modals) /\ ui'.lost = ui.lost
    BY <1>2, <2>1, <2>2 DEF UIs
  <2>4. \A c \in Call : Pending(c) => Pending(c)'
    BY <1>3, <2>1, <2>2, <2>3 DEF Pending
  <2>5. QED
    BY <1>1, <1>2, <2>1, <2>2, <2>3, <2>4, UIStep
<1>7. QED
  BY <1>1, <1>5, <1>6

\* A reply the user gives is about the request it answers.
LEMMA RepliesFit ==
    ASSUME NEW m \in Evs, m = Picker \/ GoodRequest(m), NEW reply \in Replies(m), RInv
    PROVE  /\ reply \in Ops /\ reply.op \in {"Resolve", "AnswerQuestion"}
           /\ reply.call = m.call /\ reply.call \in Made
           /\ reply.op = "Resolve" => Kind(m.call) # "question"
           /\ reply.op = "AnswerQuestion" => Kind(m.call) = "question"
           /\ reply.op = "Resolve" => reply.arg \in {"approve", "session", "deny", "abort"}
           /\ reply.op = "AnswerQuestion" => reply.arg = "answer"
<1>1. Picker.ev = "picker"
  BY DEF Picker, Event
<1>2. m # Picker
  <2>1. SUFFICES ASSUME m = Picker PROVE FALSE
    OBVIOUS
  <2>2. m.ev = "picker"
    BY <1>1, <2>1
  <2>3. Replies(m) = {}
    BY <2>1, <2>2 DEF Replies
  <2>4. QED
    BY <2>3
<1>3. GoodRequest(m)
  BY <1>2
<1>4. m.call \in Made /\ Made \subseteq Call
  BY <1>3, RoundAssumption DEF GoodRequest, RInv, Typed, Made, Call
<1>5. CASE m.ev = "QuestionAsked"
  <2>1. reply = Op("AnswerQuestion", m.call, "answer")
    BY <1>5 DEF Replies
  <2>2. QED
    BY <1>3, <1>4, <1>5, <2>1 DEF GoodRequest, Op, Ops
<1>6. CASE m.ev = "ApprovalRequested"
  <2>1. Replies(m) = {Op("Resolve", m.call, d) : d \in {"approve", "deny", "abort"}
                         \cup (IF m.grant THEN {"session"} ELSE {})}
    BY <1>6 DEF Replies
  <2>2. PICK d \in {"approve", "session", "deny", "abort"} : reply = Op("Resolve", m.call, d)
    BY <2>1
  <2>3. QED
    BY <1>3, <1>4, <1>6, <2>2 DEF GoodRequest, Op, Ops
<1>7. QED
  BY <1>3, <1>5, <1>6 DEF GoodRequest

LEMMA AnswerInv == RInv /\ Answer => RInv'
<1>1. SUFFICES ASSUME RInv, Answer PROVE RInv'
  OBVIOUS
<1> DEFINE m == Head(ui.modals)
<1>2. /\ ui.modals # <<>> /\ UISide /\ UNCHANGED <<events, acts>>
      /\ ui \in UIs /\ acts \in 0 .. MaxActs /\ ops \in Seq(Ops) /\ Len(ops) <= OpCap
      /\ events \in Seq(Evs) /\ consented \in SUBSET Call /\ ui.modals \in Seq(Evs)
      /\ OpCap \in Nat
  BY <1>1, RoundAssumption DEF Answer, NoModal, RInv, Typed, UIs
<1>3. /\ Tail(ui.modals) \in Seq(Evs) /\ m \in Evs
      /\ Elems(ui.modals) = Elems(Tail(ui.modals)) \cup {m}
  BY <1>2, ElemsTail
<1>4. m = Picker \/ GoodRequest(m)
  BY <1>1, <1>3 DEF RInv, Wired
<1>5. PICK reply \in Replies(m) :
          /\ ui' = [ui EXCEPT !.modals = Tail(@),
                              !.lost = IF Room THEN @ ELSE @ \cup {reply.call}]
          /\ ops' = IF Room THEN Append(ops, reply) ELSE ops
          /\ consented' = IF Room /\ reply.arg \in {"approve", "session", "answer"}
                            THEN consented \cup {reply.call} ELSE consented
  BY <1>1 DEF Answer
<1> HIDE DEF m
<1>6. /\ reply \in Ops /\ reply.op \in {"Resolve", "AnswerQuestion"}
      /\ reply.call = m.call /\ reply.call \in Made
      /\ reply.op = "Resolve" => Kind(m.call) # "question"
      /\ reply.op = "AnswerQuestion" => Kind(m.call) = "question"
      /\ reply.op = "Resolve" => reply.arg \in {"approve", "session", "deny", "abort"}
      /\ reply.op = "AnswerQuestion" => reply.arg = "answer"
  BY <1>1, <1>3, <1>4, RepliesFit
<1>7. reply.call \in Call
  BY <1>1, <1>6, RoundAssumption DEF RInv, Typed, Made, Call
<1>8. ui' \in UIs /\ ui'.modals = Tail(ui.modals)
      /\ ui'.lost = IF Room THEN ui.lost ELSE ui.lost \cup {reply.call}
  BY <1>2, <1>3, <1>5, <1>7 DEF UIs
<1>9. /\ consented' \in SUBSET Call /\ consented \subseteq consented'
      /\ Room /\ reply.arg \in {"approve", "session", "answer"} => reply.call \in consented'
  BY <1>2, <1>5, <1>7
<1>10. /\ ops' \in Seq(Ops) /\ Len(ops') <= OpCap
       /\ Elems(ops') = IF Room THEN Elems(ops) \cup {reply} ELSE Elems(ops)
  <2>1. CASE Room
    <3>1. /\ Append(ops, reply) \in Seq(Ops) /\ Len(Append(ops, reply)) = Len(ops) + 1
          /\ Elems(Append(ops, reply)) = Elems(ops) \cup {reply}
      BY <1>2, <1>6, ElemsAppend
    <3>2. Len(ops) + 1 <= OpCap
      BY <1>2, <2>1 DEF Room
    <3>3. QED
      BY <1>5, <2>1, <3>1, <3>2
  <2>2. CASE ~Room
    BY <1>2, <1>5, <2>2
  <2>3. QED
    BY <2>1, <2>2
<1>11. Room => GoodOp(reply)'
  <2>1. calls' = calls
    BY <1>2 DEF UISide
  <2>2. QED
    BY <1>6, <1>9, <2>1 DEF GoodOp, Made, Kind
<1>12. ASSUME NEW c \in Call, Pending(c)
       PROVE  Pending(c)'
  <2>1. CASE \E x \in Elems(events) : x.ev # "OpEnded" /\ x.call = c
    BY <1>2, <2>1 DEF Pending
  <2>2. CASE \E x \in Elems(ops) : x.op \in {"Resolve", "AnswerQuestion"} /\ x.call = c
    BY <1>10, <2>2 DEF Pending
  <2>3. CASE c \in ui.lost
    BY <1>8, <2>3 DEF Pending
  <2>4. CASE m.call = c
    BY <1>6, <1>8, <1>10, <2>4 DEF Pending
  <2>5. CASE \E x \in Elems(Tail(ui.modals)) : x.call = c
    BY <1>8, <2>5 DEF Pending
  <2>6. QED
    BY <1>3, <1>12, <2>1, <2>2, <2>3, <2>4, <2>5 DEF Pending
<1>13. \A x \in Elems(ui.modals)' :
              x \in Elems(ui.modals) \/ x = Picker \/ GoodRequest(x)
  BY <1>3, <1>8
<1>14. \A x \in Elems(ops') : x \in Elems(ops) \/ GoodOp(x)'
  BY <1>10, <1>11
<1>15. Elems(events') \subseteq Elems(events) /\ events' \in Seq(Evs) /\ acts' \in 0 .. MaxActs
  BY <1>2
<1>16. QED
  BY <1>1, <1>2, <1>8, <1>9, <1>10, <1>12, <1>13, <1>14, <1>15, UIStep

LEMMA HandleEventInv == RInv /\ HandleEvent => RInv'
<1>1. SUFFICES ASSUME RInv, HandleEvent PROVE RInv'
  OBVIOUS
<1> DEFINE x == Head(events)
<1>2. /\ events # <<>> /\ events' = Tail(events) /\ UISide
      /\ UNCHANGED <<ops, consented, acts>>
      /\ ui' = IF x.ev = "OpEnded" THEN [ui EXCEPT !.busy = FALSE]
               ELSE [ui EXCEPT !.modals = <<x>> \o ui.modals]
      /\ ui \in UIs /\ acts \in 0 .. MaxActs /\ ops \in Seq(Ops) /\ Len(ops) <= OpCap
      /\ events \in Seq(Evs) /\ consented \in SUBSET Call /\ ui.modals \in Seq(Evs)
  BY <1>1 DEF HandleEvent, RInv, Typed, UIs
<1>3. /\ Tail(events) \in Seq(Evs) /\ x \in Evs
      /\ Elems(events) = Elems(Tail(events)) \cup {x}
  BY <1>2, ElemsTail
<1>4. x.ev = "OpEnded" \/ GoodRequest(x)
  BY <1>1, <1>3 DEF RInv, Wired
<1> HIDE DEF x
<1>5. /\ <<x>> \o ui.modals \in Seq(Evs)
      /\ Elems(<<x>> \o ui.modals) = Elems(ui.modals) \cup {x}
  BY <1>2, <1>3, ElemsPush
<1>6. /\ ui' \in UIs /\ ui'.lost = ui.lost
      /\ Elems(ui.modals)' = IF x.ev = "OpEnded" THEN Elems(ui.modals)
                             ELSE Elems(ui.modals) \cup {x}
  <2>1. CASE x.ev = "OpEnded"
    <3>1. ui' = [ui EXCEPT !.busy = FALSE]
      BY <1>2, <2>1
    <3>2. ui' \in UIs /\ ui'.lost = ui.lost /\ ui'.modals = ui.modals
      BY <1>2, <3>1 DEF UIs
    <3>3. QED
      BY <2>1, <3>2
  <2>2. CASE x.ev # "OpEnded"
    <3>1. ui' = [ui EXCEPT !.modals = <<x>> \o ui.modals]
      BY <1>2, <2>2
    <3>2. ui' \in UIs /\ ui'.lost = ui.lost /\ ui'.modals = <<x>> \o ui.modals
      BY <1>2, <1>5, <3>1 DEF UIs
    <3>3. QED
      BY <1>5, <2>2, <3>2
  <2>3. QED
    BY <2>1, <2>2
<1>7. \A c \in Call : Pending(c) => Pending(c)'
  BY <1>2, <1>3, <1>6 DEF Pending
<1>8. \A y \in Elems(ui.modals)' :
              y \in Elems(ui.modals) \/ y = Picker \/ GoodRequest(y)
  BY <1>4, <1>6
<1>9. /\ Elems(events') \subseteq Elems(events) /\ events' \in Seq(Evs)
      /\ ops' \in Seq(Ops) /\ Len(ops') <= OpCap /\ acts' \in 0 .. MaxActs
      /\ consented' \in SUBSET Call /\ consented \subseteq consented'
      /\ \A y \in Elems(ops') : y \in Elems(ops) \/ GoodOp(y)'
  BY <1>2, <1>3
<1>10. QED
  BY <1>1, <1>2, <1>6, <1>7, <1>8, <1>9, UIStep

-----------------------------------------------------------------------------
(***************************************************************************)
(* The theorems                                                            *)
(***************************************************************************)
LEMMA OverReady == RInv /\ Over => engine'.ready = {}
<1>1. SUFFICES ASSUME RInv, Over PROVE engine'.ready = {}
  OBVIOUS
<1> DEFINE a == ModeApplied(engine)
           e == [a EXCEPT !.phase = "model", !.round = {}, !.ready = {},
                          !.batch = <<>>, !.at = 0, !.out = [c \in Call |-> "none"]]
           g == ModeApplied(e)
<1>2. a \in Engines
  BY <1>1, ModeAppliedSame DEF RInv, Typed, Same
<1>3. engine' = TurnOver(e) \/ engine' = e
  BY <1>1 DEF Over
<1> HIDE DEF a
<1>4. e.ready = {}
  BY <1>2 DEF Engines
<1> HIDE DEF e
<1>5. g.ready = {}
  BY <1>4 DEF ModeApplied
<1>6. TurnOver(e).ready = {}
  BY <1>5 DEF TurnOver
<1>7. QED
  BY <1>3, <1>4, <1>6

LEMMA InitInv == RInit => RInv
<1>1. SUFFICES ASSUME RInit PROVE RInv
  OBVIOUS
<1> DEFINE no == [c \in Call |-> "none"]
<1>2. PICK m \in Modes :
          engine = [phase |-> "idle", policy |-> m, kept |-> NoMode, todo |-> <<>>,
                    batch |-> <<>>, at |-> 0, ready |-> {}, out |-> no, round |-> {},
                    aborted |-> FALSE, granted |-> {}]
  BY <1>1 DEF RInit
<1>3. /\ calls = <<>> /\ ops = <<>> /\ events = <<>>
      /\ ran = [c \in Call |-> "no"] /\ told = no
      /\ ui = [busy |-> FALSE, modals |-> <<>>, lost |-> {}]
      /\ consented = {} /\ acts = 0
  BY <1>1 DEF RInit
<1>4. no \in [Call -> Outcomes] /\ \A c \in Call : no[c] = "none"
  BY DEF Outcomes
<1> HIDE DEF no
<1>5. /\ engine.phase = "idle" /\ engine.todo = <<>> /\ engine.batch = <<>>
      /\ engine.at = 0 /\ engine.ready = {} /\ engine.out = no /\ engine.round = {}
  BY <1>2
<1>6. Typed
  <2>1. "idle" \in Phases /\ <<>> \in Seq(Call) /\ {} \in SUBSET Call /\ {} \in SUBSET Kinds
    BY DEF Phases
  <2>2. engine \in Engines
    BY <1>2, <1>4, <2>1 DEF Engines
  <2>3. calls \in Seq(Kinds) /\ Len(calls) <= MaxCalls /\ ops \in Seq(Ops)
        /\ Len(ops) <= OpCap /\ events \in Seq(Evs) /\ acts \in 0 .. MaxActs
    BY <1>3, RoundAssumption
  <2>4. ui \in UIs /\ consented \in SUBSET Call
    BY <1>3 DEF UIs
  <2>5. ran \in [Call -> Deeds]
    BY <1>3 DEF Deeds
  <2>6. QED
    BY <1>3, <1>4, <2>2, <2>3, <2>4, <2>5 DEF Typed
<1>7. ToCome(engine) = {} /\ Lined(engine) /\ Staged(engine)
  BY <1>5, ElemsEmpty DEF ToCome, Lined, Staged, AtGate
<1>8. Alike(engine) /\ Together(engine) /\ Made = {}
  BY <1>3, <1>5, ElemsEmpty DEF Alike, Together, Made
<1>9. ASSUME NEW c \in Call
      PROVE  Follows(engine, c, ran[c], told[c])
  BY <1>3, <1>4, <1>5, <1>7, <1>8 DEF Follows, Fits
<1>10. Wired
  BY <1>3, ElemsEmpty DEF Wired
<1>11. Posed
  BY <1>5 DEF Posed, WaitsOn
<1>12. QED
  BY <1>5, <1>6, <1>7, <1>8, <1>9, <1>10, <1>11 DEF RInv, Rounds

\* What OwnConsent and EffectsInRound say of one step.
ConsentStep ==
    /\ \A c \in engine'.ready \ engine.ready :
          \/ c \in consented
          \/ Verdict(Kind(c), LastMode, engine.granted) \in {"allow", "classify"}
    /\ \A c \in Call : ran[c] # ran'[c] /\ ran'[c] = "answered" => c \in consented
EffectStep == ran' # ran => engine.phase \in {"run", "question", "draining"}

LEMMA StepInv == RInv /\ [RNext]_rvars => RInv' /\ ConsentStep /\ EffectStep
<1>1. SUFFICES ASSUME RInv, [RNext]_rvars PROVE RInv' /\ ConsentStep /\ EffectStep
  OBVIOUS
<1>2. engine \in Engines /\ ran \in [Call -> Deeds]
  BY <1>1 DEF RInv, Typed
<1>3. ASSUME RInv', engine'.ready \subseteq engine.ready, UNCHANGED ran
      PROVE  ConsentStep /\ EffectStep
  BY <1>3 DEF ConsentStep, EffectStep
<1>4. ASSUME RInv', engine'.phase \in {"idle", "model"}
      PROVE  engine'.ready \subseteq engine.ready
  BY <1>4 DEF RInv, Rounds, Lined, Staged
<1>5. CASE Reply
  <2>1. RInv' /\ UNCHANGED ran
    BY <1>1, <1>5, ReplyInv DEF Reply
  <2>2. CASE engine' = TurnOver(engine)
    <3>1. engine'.phase = "idle"
      <4>1. Same(engine, ModeApplied(engine)) /\ "idle" \in Phases
        BY <1>2, ModeAppliedSame DEF Phases
      <4>2. ModeApplied(engine) \in Engines
        BY <4>1 DEF Same
      <4>3. QED
        BY <2>2, <4>2 DEF TurnOver, Engines
    <3>2. QED
      BY <1>3, <1>4, <2>1, <3>1
  <2>3. CASE \E t, r : engine' = [engine EXCEPT !.phase = "batch", !.todo = t, !.round = r]
    BY <1>2, <1>3, <2>1, <2>3 DEF Engines
  <2>4. QED
    BY <1>5, <2>2, <2>3 DEF Reply
<1>6. CASE Batch
  <2>1. RInv' /\ UNCHANGED ran
    BY <1>1, <1>6, BatchInv DEF Batch
  <2>2. engine'.ready \subseteq engine.ready
    BY <1>2, <1>6 DEF Batch, NextBatch, Engines
  <2>3. QED
    BY <1>3, <2>1, <2>2
<1>7. CASE Gate \/ Classified
  <2>1. GateStep /\ UNCHANGED ran
    BY <1>1, <1>7, GateInv, ClassifiedInv DEF Gate, Classified
  <2>2. QED
    BY <2>1 DEF GateStep, ConsentStep, EffectStep
<1>8. CASE Start
  <2>1. RInv' /\ UNCHANGED engine /\ engine.phase = "run"
    BY <1>1, <1>8, StartInv DEF Start, Raced
  <2>2. \A c \in Call : ran[c] # ran'[c] => ran'[c] = "running"
    BY <1>8 DEF Start
  <2>3. QED
    BY <2>1, <2>2 DEF ConsentStep, EffectStep
<1>9. CASE EndBatch \/ Drained
  <2>1. RInv' /\ UNCHANGED ran
    BY <1>1, <1>9, EndBatchInv DEF EndBatch, Drained
  <2>2. engine'.ready \subseteq engine.ready
    BY <1>2, <1>9 DEF EndBatch, Drained, Engines
  <2>3. QED
    BY <1>3, <2>1, <2>2
<1>10. CASE Over
  <2>1. RInv' /\ UNCHANGED ran
    BY <1>1, <1>10, OverInv DEF Over
  <2>2. engine'.ready = {}
    BY <1>1, <1>10, OverReady
  <2>3. QED
    BY <1>3, <2>1, <2>2
<1>11. ASSUME NEW c \in Call, Write(c) \/ Land(c)
       PROVE  RInv' /\ ConsentStep /\ EffectStep
  <2>1. UNCHANGED <<engine, calls, told, events, ops, ui, consented, acts>>
    BY <1>11 DEF Write, Land, AtRest
  <2>2. PICK to \in {"writing", "landed"} : \E from \in {"running", "writing"} :
            /\ Does(c, from, to)
            /\ \/ from = "running" /\ to = "writing"
               \/ from = "writing" /\ to = "landed"
    BY <1>11 DEF Write, Land
  <2>3. "running" \in Deeds /\ "writing" \in Deeds /\ "landed" \in Deeds
    BY DEF Deeds
  <2>4. RInv' /\ engine.phase \in {"run", "question", "draining"}
    BY <1>1, <2>1, <2>2, <2>3, DoesInv
  <2>5. \A d \in Call : ran[d] # ran'[d] => ran'[d] # "answered"
    BY <1>2, <2>2 DEF Does
  <2>6. QED
    BY <2>1, <2>4, <2>5 DEF ConsentStep, EffectStep
<1>12. ASSUME NEW c \in Call, Finish(c)
       PROVE  RInv' /\ ConsentStep /\ EffectStep
  <2>1. RInv' /\ engine.phase = "run"
    BY <1>1, <1>12, FinishInv DEF Finish, Raced
  <2>2. engine'.ready = engine.ready
    BY <1>2, <1>12 DEF Finish, Engines
  <2>3. \A d \in Call : ran[d] # ran'[d] => ran'[d] # "answered"
    BY <1>2, <1>12 DEF Finish, Does
  <2>4. QED
    BY <2>1, <2>2, <2>3 DEF ConsentStep, EffectStep
<1>13. ASSUME NEW c \in Call, AskQuestion(c)
       PROVE  RInv' /\ ConsentStep /\ EffectStep
  <2>1. RInv' /\ engine'.ready = engine.ready /\ UNCHANGED ran
    BY <1>1, <1>13, AskQuestionInv DEF AskQuestion
  <2>2. QED
    BY <1>3, <2>1
<1>14. CASE Absorb
  <2>1. OpTaken
    BY <1>1, <1>14, AbsorbInv
  <2>2. QED
    BY <2>1 DEF OpTaken, ConsentStep, EffectStep
<1>15. CASE Serve
  <2>1. RInv' /\ engine'.ready = engine.ready /\ UNCHANGED ran
    BY <1>1, <1>15, ServeInv DEF Serve
  <2>2. QED
    BY <1>3, <2>1
<1>16. CASE \/ Submit \/ PressInterrupt \/ CycleMode \/ Answer \/ HandleEvent
            \/ OpenPicker \/ ClosePicker
  <2>1. RInv'
    BY <1>1, <1>16, KeysInv, PickerInv, AnswerInv, HandleEventInv
  <2>2. UISide
    BY <1>16 DEF Submit, PressInterrupt, CycleMode, Answer, HandleEvent, OpenPicker,
                 ClosePicker
  <2>3. QED
    BY <1>3, <2>1, <2>2 DEF UISide
<1>17. CASE UNCHANGED rvars
  <2>1. Rounds(engine)'
    BY <1>1, <1>17, RoundsMoved DEF rvars, RInv
  <2>2. Typed' /\ Posed'
    BY <1>1, <1>17 DEF rvars, RInv, Typed, Posed, WaitsOn, Pending, Kind, Current
  <2>3. Wired'
    BY <1>1, <1>17 DEF rvars, RInv, Wired, GoodOp, GoodRequest, Made, Kind
  <2>4. RInv'
    BY <2>1, <2>2, <2>3 DEF RInv
  <2>5. QED
    BY <1>3, <1>17, <2>4 DEF rvars
<1>18. QED
  BY <1>1, <1>5, <1>6, <1>7, <1>8, <1>9, <1>10, <1>11, <1>12, <1>13, <1>14, <1>15,
     <1>16, <1>17 DEF RNext

LEMMA InvAlways == RSpec => []RInv
<1>1. RInit => RInv
  BY InitInv
<1>2. RInv /\ [RNext]_rvars => RInv'
  BY StepInv
<1>3. QED
  BY <1>1, <1>2, PTL DEF RSpec

LEMMA PendingAnswerable == RInv => Answerable
<1>1. SUFFICES ASSUME RInv, NEW c \in Call, WaitsOn(c)
      PROVE  \/ \E i \in 1 .. Len(events) : events[i].ev # "OpEnded" /\ events[i].call = c
             \/ \E i \in 1 .. Len(ui.modals) : ui.modals[i].call = c
             \/ \E i \in 1 .. Len(ops) : ops[i].op \in {"Resolve", "AnswerQuestion"}
                                         /\ ops[i].call = c
             \/ c \in ui.lost
  BY DEF Answerable, WaitsOn
<1>2. Pending(c)
  BY <1>1 DEF RInv, Posed
<1>3. QED
  BY <1>2 DEF Pending, Elems

\* A call whose round is behind has the result that tells what it did.
LEMMA ToldFits ==
    ASSUME RInv, NEW c \in Made, told[c] # "none"
    PROVE  /\ told[c] \in {"notRun", "denied", "error"} => ran[c] = "no"
           /\ told[c] = "output" => ran[c] = "done"
           /\ told[c] = "interrupted" => ran[c] \in {"no", "cut", "landed"}
<1>1. c \in Call
  BY RoundAssumption DEF RInv, Typed, Made, Call
<1>2. Follows(engine, c, ran[c], told[c])
  BY <1>1 DEF RInv, Rounds
<1>3. QED
  BY <1>2 DEF Follows, Fits

\* A round neither loses a call nor waits for an answer nobody can give, and
\* what it tells the model of a call is what the call did (run_tool_round,
\* await_approval).
THEOREM RoundsAlwaysSound == RSpec => []RoundSound
<1>1. RInv => RoundSound
  <2>1. SUFFICES ASSUME RInv PROVE RoundSound
    OBVIOUS
  <2>2. engine \in Engines /\ Rounds(engine) /\ Lined(engine) /\ ui \in UIs
    BY <2>1 DEF RInv, Typed, Rounds
  <2>3. Held(engine) = Elems(engine.batch)
    BY <2>2, HeldElems
  <2>4. engine.phase \in AtGate => engine.at \in 1 .. Len(engine.batch)
    BY <2>2, CurrentComes DEF Lined
  <2>5. RoundTypeOK
    BY <2>1, <2>2, <2>3, <2>4 DEF RoundTypeOK, RInv, Typed, Engines, UIs, Lined, AtGate
  <2>6. ASSUME engine.phase \in {"idle", "model"}, NEW c \in Made
        PROVE  told[c] # "none"
    <3>1. c \in Call
      BY <2>1, RoundAssumption DEF RInv, Typed, Made, Call
    <3>2. engine.round = {} /\ Follows(engine, c, ran[c], told[c])
      BY <2>2, <2>6, <3>1 DEF Rounds, Staged
    <3>3. QED
      BY <3>2 DEF Follows
  <2>7. EveryCallAnswered
    BY <2>6 DEF EveryCallAnswered, Made
  <2>8. ResultsTruthful
    BY <2>1, ToldFits DEF ResultsTruthful, Made
  <2>9. QED
    BY <2>1, <2>5, <2>7, <2>8, PendingAnswerable DEF RoundSound
<1>2. QED
  BY <1>1, InvAlways, PTL

\* A call passes the gate by the user's reply to that very call, or unasked
\* under the last mode the turn has taken in and the rules granted so far; a
\* question takes the answer given to it (check_permission, await_approval,
\* answer_question).
THEOREM ConsentAlwaysOwn == RSpec => OwnConsent
<1>1. RInv /\ [RNext]_rvars => [ConsentStep]_rvars
  BY StepInv
<1>2. RSpec => [][ConsentStep]_rvars
  BY <1>1, InvAlways, PTL DEF RSpec
<1>3. QED
  BY <1>2 DEF OwnConsent, ConsentStep

\* No call takes effect outside the round that ran it: a turn that ended, or
\* the conversation's next request, leaves no write in flight (drain_writes).
THEOREM EffectsStayInRound == RSpec => EffectsInRound
<1>1. RInv /\ [RNext]_rvars => [EffectStep]_rvars
  BY StepInv
<1>2. RSpec => [][EffectStep]_rvars
  BY <1>1, InvAlways, PTL DEF RSpec
<1>3. QED
  BY <1>2 DEF EffectsInRound, EffectStep

-----------------------------------------------------------------------------
(***************************************************************************)
(* Numbers and sequences                                                   *)
(***************************************************************************)
\* What holds of 0 and passes from each number to the next holds of all.
LEMMA Climb ==
    ASSUME NEW T, 0 \in T, \A n \in Nat : n \in T => n + 1 \in T
    PROVE  \A n \in Nat : n \in T
<1> DEFINE R == {ss \in Nat \X Nat : ss[1] < ss[2]}
           Bad == Nat \ T
<1>1. IsWellFoundedOn(R, Nat)
  BY NatLessThanWellFounded DEF OpToRel
<1> HIDE DEF R
<1>2. SUFFICES ASSUME Bad # {}
               PROVE  FALSE
  OBVIOUS
<1>3. PICK x \in Bad : \A y \in Bad : ~ (<<y, x>> \in R)
  BY <1>1, <1>2, WFMin
<1>4. x - 1 \in Nat /\ x - 1 < x
  OBVIOUS
<1>5. x - 1 \notin Bad
  BY <1>3, <1>4 DEF R
<1>6. QED
  BY <1>4, <1>5

\* What holds of the empty sequence and survives every Append holds of all.
LEMMA Grows ==
    ASSUME NEW S, NEW T, <<>> \in T,
           \A s \in Seq(S) : s \in T => \A m \in S : Append(s, m) \in T
    PROVE  \A s \in Seq(S) : s \in T
<1> DEFINE N == {n \in Nat : \A s \in Seq(S) : Len(s) = n => s \in T}
<1>1. 0 \in N
  <2>1. \A s \in Seq(S) : Len(s) = 0 => s = <<>>
    OBVIOUS
  <2>2. QED
    BY <2>1
<1>2. ASSUME NEW n \in Nat, n \in N
      PROVE  n + 1 \in N
  <2>1. SUFFICES ASSUME NEW s \in Seq(S), Len(s) = n + 1
                 PROVE  s \in T
    OBVIOUS
  <2>2. s # <<>>
    BY <2>1
  <2>3. PICK r \in Seq(S), m \in S : s = Append(r, m)
    BY <2>2, SequenceEmptyOrAppend
  <2>4. Len(r) = n
    BY <2>1, <2>3
  <2>5. QED
    BY <1>2, <2>3, <2>4
<1> HIDE DEF N
<1>3. \A n \in Nat : n \in N
  BY <1>1, <1>2, Climb
<1>4. QED
  BY <1>3 DEF N

-----------------------------------------------------------------------------
(***************************************************************************)
(* The messages of a sequence that are among some                          *)
(***************************************************************************)
\* `f` is what Those computes of the first `n` messages.
Filters(s, some, n, f) ==
    f = [i \in 0 .. n |->
            IF i = 0 THEN <<>>
            ELSE IF s[i] \in some THEN Append(f[i - 1], s[i]) ELSE f[i - 1]]

LEMMA FilterExists ==
    ASSUME NEW s, NEW some
    PROVE  \A n \in Nat : \E f : Filters(s, some, n, f)
<1> DEFINE T == {n \in Nat : \E f : Filters(s, some, n, f)}
<1>1. 0 \in T
  <2>1. Filters(s, some, 0, [i \in 0 .. 0 |-> <<>>])
    BY DEF Filters
  <2>2. QED
    BY <2>1
<1>2. ASSUME NEW n \in Nat, n \in T
      PROVE  n + 1 \in T
  <2>1. PICK f : Filters(s, some, n, f)
    BY <1>2
  <2> DEFINE g == [i \in 0 .. n + 1 |->
                      IF i <= n THEN f[i]
                      ELSE IF s[i] \in some THEN Append(f[n], s[i]) ELSE f[n]]
             h == [i \in 0 .. n + 1 |->
                      IF i = 0 THEN <<>>
                      ELSE IF s[i] \in some THEN Append(g[i - 1], s[i]) ELSE g[i - 1]]
  <2>2. ASSUME NEW i \in 0 .. n
        PROVE  f[i] = IF i = 0 THEN <<>>
                      ELSE IF s[i] \in some THEN Append(f[i - 1], s[i]) ELSE f[i - 1]
    BY <2>1, Zenon DEF Filters
  <2>3. ASSUME NEW i \in 0 .. n + 1
        PROVE  g[i] = IF i = 0 THEN <<>>
                      ELSE IF s[i] \in some THEN Append(g[i - 1], s[i]) ELSE g[i - 1]
    <3>1. CASE i <= n
      <4>1. i \in 0 .. n
        BY <3>1
      <4>2. g[i] = f[i]
        BY <3>1
      <4>3. i # 0 => i - 1 \in 0 .. n + 1 /\ i - 1 <= n
        BY <3>1
      <4>4. i # 0 => g[i - 1] = f[i - 1]
        BY <4>3
      <4> HIDE DEF g
      <4>5. QED
        BY <2>2, <4>1, <4>2, <4>4
    <3>2. CASE i = n + 1
      <4>1. i # 0 /\ i - 1 = n /\ n \in 0 .. n + 1
        BY <3>2
      <4>2. g[n] = f[n]
        BY <4>1
      <4>3. ~ (i <= n)
        BY <3>2
      <4>4. g[i] = IF s[i] \in some THEN Append(f[n], s[i]) ELSE f[n]
        BY <4>3
      <4> HIDE DEF g
      <4>5. QED
        BY <4>1, <4>2, <4>4
    <3>3. QED
      BY <3>1, <3>2
  <2>4. g = h
    <3>1. \A i \in 0 .. n + 1 : g[i] = h[i]
      BY <2>3
    <3>2. QED
      BY <3>1
  <2>5. Filters(s, some, n + 1, g)
    BY <2>4 DEF Filters
  <2>6. QED
    BY <2>5
<1> HIDE DEF T
<1>3. \A n \in Nat : n \in T
  BY <1>1, <1>2, Climb
<1>4. QED
  BY <1>3 DEF T

\* The values of a filter, step by step.
Steps(s, some, n, f) ==
    /\ f[0] = <<>>
    /\ \A i \in 1 .. n :
          f[i] = IF s[i] \in some THEN Append(f[i - 1], s[i]) ELSE f[i - 1]

LEMMA FilterSteps ==
    ASSUME NEW s, NEW some, NEW n \in Nat, NEW f, Filters(s, some, n, f)
    PROVE  Steps(s, some, n, f)
<1>1. ASSUME NEW i \in 0 .. n
      PROVE  f[i] = IF i = 0 THEN <<>>
                    ELSE IF s[i] \in some THEN Append(f[i - 1], s[i]) ELSE f[i - 1]
  BY Zenon DEF Filters
<1>2. 0 \in 0 .. n /\ \A i \in 1 .. n : i \in 0 .. n /\ i # 0
  OBVIOUS
<1>3. QED
  BY <1>1, <1>2 DEF Steps

LEMMA ThoseSteps ==
    ASSUME NEW S, NEW s \in Seq(S), NEW some
    PROVE  \E f : Steps(s, some, Len(s), f) /\ Those(s, some) = f[Len(s)]
<1> DEFINE c == CHOOSE f : Filters(s, some, Len(s), f)
<1>1. Len(s) \in Nat
  OBVIOUS
<1>2. \E f : Filters(s, some, Len(s), f)
  BY <1>1, FilterExists
<1>3. Filters(s, some, Len(s), c)
  BY <1>2
<1>4. Those(s, some) = c[Len(s)]
  BY DEF Those, Filters
<1> HIDE DEF c
<1>5. Steps(s, some, Len(s), c)
  BY <1>1, <1>3, FilterSteps
<1>6. QED
  BY <1>4, <1>5

\* Two filters agree as far as their sequences do.
LEMMA StepsAgree ==
    ASSUME NEW s, NEW t, NEW some, NEW n \in Nat, NEW f, NEW g,
           Steps(s, some, n, f), Steps(t, some, n, g), \A i \in 1 .. n : s[i] = t[i]
    PROVE  \A i \in 0 .. n : f[i] = g[i]
<1> DEFINE T == {i \in Nat : i <= n => f[i] = g[i]}
<1>1. 0 \in T
  BY DEF Steps
<1>2. ASSUME NEW i \in Nat, i \in T
      PROVE  i + 1 \in T
  <2>1. SUFFICES ASSUME i + 1 <= n
                 PROVE  f[i + 1] = g[i + 1]
    OBVIOUS
  <2>2. i + 1 \in 1 .. n /\ i <= n /\ (i + 1) - 1 = i
    BY <2>1
  <2>3. f[i] = g[i] /\ s[i + 1] = t[i + 1]
    BY <1>2, <2>2
  <2>4. f[i + 1] = IF s[i + 1] \in some THEN Append(f[(i + 1) - 1], s[i + 1]) ELSE f[(i + 1) - 1]
    BY <2>2 DEF Steps
  <2>5. g[i + 1] = IF t[i + 1] \in some THEN Append(g[(i + 1) - 1], t[i + 1]) ELSE g[(i + 1) - 1]
    BY <2>2 DEF Steps
  <2>6. QED
    BY <2>2, <2>3, <2>4, <2>5
<1> HIDE DEF T
<1>3. \A i \in Nat : i \in T
  BY <1>1, <1>2, Climb
<1>4. QED
  BY <1>3 DEF T

LEMMA ThoseEmpty == \A some : Those(<<>>, some) = <<>>
<1>1. SUFFICES ASSUME NEW some
               PROVE  Those(<<>>, some) = <<>>
  OBVIOUS
<1>2. <<>> \in Seq(Message) /\ Len(<<>>) = 0
  OBVIOUS
<1>3. PICK f : Steps(<<>>, some, 0, f) /\ Those(<<>>, some) = f[0]
  BY <1>2, ThoseSteps
<1>4. QED
  BY <1>3 DEF Steps

LEMMA ThoseAppend ==
    ASSUME NEW S, NEW s \in Seq(S), NEW m \in S, NEW some
    PROVE  Those(Append(s, m), some) =
               IF m \in some THEN Append(Those(s, some), m) ELSE Those(s, some)
<1> DEFINE t == Append(s, m)
           n == Len(s)
<1>1. t \in Seq(S) /\ Len(t) = n + 1 /\ n \in Nat /\ t[n + 1] = m
  OBVIOUS
<1>2. \A i \in 1 .. n : s[i] = t[i]
  OBVIOUS
<1> HIDE DEF t
<1>3. PICK f : Steps(s, some, n, f) /\ Those(s, some) = f[n]
  BY ThoseSteps
<1>4. PICK g : Steps(t, some, n + 1, g) /\ Those(t, some) = g[n + 1]
  BY <1>1, ThoseSteps
<1> HIDE DEF n
<1>5. f[n] = g[n]
  <2>1. n \in 0 .. n /\ n \in Nat /\ \A i \in 1 .. n : i \in 1 .. n + 1
    BY <1>1
  <2>2. Steps(t, some, n, g)
    BY <1>4, <2>1 DEF Steps
  <2>3. \A i \in 0 .. n : f[i] = g[i]
    BY <1>2, <1>3, <2>1, <2>2, StepsAgree
  <2>4. QED
    BY <2>1, <2>3
<1>6. g[n + 1] = IF t[n + 1] \in some THEN Append(g[(n + 1) - 1], t[n + 1]) ELSE g[(n + 1) - 1]
  <2>1. n + 1 \in Nat /\ n + 1 \in 1 .. n + 1
    BY <1>1
  <2>2. QED
    BY <1>4, <2>1 DEF Steps
<1>7. (n + 1) - 1 = n
  BY <1>1
<1>8. Those(t, some) = IF m \in some THEN Append(Those(s, some), m) ELSE Those(s, some)
  BY <1>1, <1>3, <1>4, <1>5, <1>6, <1>7
<1>9. QED
  BY <1>8 DEF t

LEMMA ThoseType ==
    ASSUME NEW S, NEW some
    PROVE  \A s \in Seq(S) : Those(s, some) \in Seq(S)
<1> DEFINE T == {s \in Seq(S) : Those(s, some) \in Seq(S)}
<1>1. <<>> \in T
  <2>1. Those(<<>>, some) = <<>>
    BY ThoseEmpty
  <2>2. <<>> \in Seq(S)
    OBVIOUS
  <2>3. QED
    BY <2>1, <2>2, Zenon
<1>2. ASSUME NEW s \in Seq(S), s \in T, NEW m \in S
      PROVE  Append(s, m) \in T
  <2>1. Append(s, m) \in Seq(S)
    OBVIOUS
  <2>2. Those(Append(s, m), some) = IF m \in some THEN Append(Those(s, some), m) ELSE Those(s, some)
    BY ThoseAppend
  <2>3. Those(s, some) \in Seq(S)
    BY <1>2
  <2>4. QED
    BY <2>1, <2>2, <2>3
<1> HIDE DEF T
<1>3. \A s \in Seq(S) : s \in T
  BY <1>1, <1>2, Grows
<1>4. QED
  BY <1>3 DEF T

LEMMA AppendConcat ==
    ASSUME NEW S, NEW x \in Seq(S), NEW y \in Seq(S), NEW m \in S
    PROVE  x \o Append(y, m) = Append(x \o y, m)
<1>1. x \o y \in Seq(S) /\ <<m>> \in Seq(S)
  BY ConcatProperties
<1>2. Append(x \o y, m) = (x \o y) \o <<m>> /\ Append(y, m) = y \o <<m>>
  BY <1>1, AppendIsConcat
<1>3. (x \o y) \o <<m>> = x \o (y \o <<m>>)
  BY <1>1, ConcatAssociative
<1>4. QED
  BY <1>2, <1>3

LEMMA ThoseConcat ==
    ASSUME NEW S, NEW some, NEW a \in Seq(S)
    PROVE  \A b \in Seq(S) : Those(a \o b, some) = Those(a, some) \o Those(b, some)
<1> DEFINE T == {b \in Seq(S) : Those(a \o b, some) = Those(a, some) \o Those(b, some)}
<1>0. Those(a, some) \in Seq(S)
  BY ThoseType
<1>1. <<>> \in T
  <2>1. a \o <<>> = a /\ Those(a, some) \o <<>> = Those(a, some)
    BY <1>0, ConcatEmptySeq
  <2>2. Those(<<>>, some) = <<>> /\ <<>> \in Seq(S)
    BY ThoseEmpty
  <2>3. QED
    BY <2>1, <2>2, Zenon
<1>2. ASSUME NEW b \in Seq(S), b \in T, NEW m \in S
      PROVE  Append(b, m) \in T
  <2>1. Append(b, m) \in Seq(S) /\ a \o b \in Seq(S) /\ Those(b, some) \in Seq(S)
    BY ThoseType, ConcatProperties
  <2>2. a \o Append(b, m) = Append(a \o b, m)
    BY AppendConcat
  <2>3. Those(Append(a \o b, m), some) =
            IF m \in some THEN Append(Those(a \o b, some), m) ELSE Those(a \o b, some)
    BY <2>1, ThoseAppend
  <2>4. Those(Append(b, m), some) = IF m \in some THEN Append(Those(b, some), m) ELSE Those(b, some)
    BY ThoseAppend
  <2>5. Those(a \o b, some) = Those(a, some) \o Those(b, some)
    BY <1>2
  <2>6. Append(Those(a, some) \o Those(b, some), m) = Those(a, some) \o Append(Those(b, some), m)
    <3>1. Those(b, some) \in Seq(S)
      BY <2>1
    <3> DEFINE x == Those(a, some)
               y == Those(b, some)
    <3> HIDE DEF x, y
    <3>2. x \in Seq(S) /\ y \in Seq(S)
      BY <1>0, <3>1 DEF x, y
    <3>3. x \o Append(y, m) = Append(x \o y, m)
      BY <3>2, AppendConcat
    <3>4. QED
      BY <3>3 DEF x, y
  <2>7. Those(a \o Append(b, m), some) = Those(a, some) \o Those(Append(b, m), some)
    <3>1. CASE m \in some
      BY <2>2, <2>3, <2>4, <2>5, <2>6, <3>1, Zenon
    <3>2. CASE m \notin some
      BY <2>2, <2>3, <2>4, <2>5, <3>2, Zenon
    <3>3. QED
      BY <3>1, <3>2
  <2>8. QED
    BY <2>1, <2>7, Zenon
<1> HIDE DEF T
<1>3. \A b \in Seq(S) : b \in T
  BY <1>1, <1>2, Grows
<1>4. QED
  BY <1>3 DEF T

LEMMA ThoseAll ==
    ASSUME NEW S, NEW some, S \subseteq some
    PROVE  \A s \in Seq(S) : Those(s, some) = s
<1> DEFINE T == {s \in Seq(S) : Those(s, some) = s}
<1>1. <<>> \in T
  BY ThoseEmpty
<1>2. ASSUME NEW s \in Seq(S), s \in T, NEW m \in S
      PROVE  Append(s, m) \in T
  <2>1. Append(s, m) \in Seq(S)
    OBVIOUS
  <2>2. Those(Append(s, m), some) = IF m \in some THEN Append(Those(s, some), m) ELSE Those(s, some)
    BY ThoseAppend
  <2>3. QED
    BY <1>2, <2>1, <2>2
<1> HIDE DEF T
<1>3. \A s \in Seq(S) : s \in T
  BY <1>1, <1>2, Grows
<1>4. QED
  BY <1>3 DEF T

\* `h` says where the messages of `t` are in `s`: all those among some, in order.
Embeds(h, t, s, some) ==
    /\ h \in [1 .. Len(t) -> 1 .. Len(s)]
    /\ \A k \in 1 .. Len(t) : t[k] = s[h[k]] /\ s[h[k]] \in some
    /\ \A k, l \in 1 .. Len(t) : k < l => h[k] < h[l]
    /\ \A i \in 1 .. Len(s) : s[i] \in some => \E k \in 1 .. Len(t) : h[k] = i

LEMMA EmbedsMore ==
    ASSUME NEW S, NEW some, NEW s \in Seq(S), NEW t \in Seq(S), NEW h, Embeds(h, t, s, some),
           NEW m \in S
    PROVE  IF m \in some THEN \E g : Embeds(g, Append(t, m), Append(s, m), some)
           ELSE Embeds(h, t, Append(s, m), some)
<1> DEFINE s2 == Append(s, m)
<1>1. s2 \in Seq(S) /\ Len(s2) = Len(s) + 1 /\ s2[Len(s) + 1] = m
  OBVIOUS
<1>2. \A i \in 1 .. Len(s) : s2[i] = s[i]
  OBVIOUS
<1> HIDE DEF s2
<1>3. CASE m \notin some
  <2>1. h \in [1 .. Len(t) -> 1 .. Len(s2)]
    BY <1>1 DEF Embeds
  <2>2. \A k \in 1 .. Len(t) : h[k] \in 1 .. Len(s) /\ t[k] = s2[h[k]] /\ s2[h[k]] \in some
    BY <1>2 DEF Embeds
  <2>3. \A i \in 1 .. Len(s2) : s2[i] \in some => i \in 1 .. Len(s)
    BY <1>1, <1>3
  <2>4. \A i \in 1 .. Len(s2) : s2[i] \in some => \E k \in 1 .. Len(t) : h[k] = i
    BY <1>2, <2>3 DEF Embeds
  <2>5. Embeds(h, t, s2, some)
    BY <2>1, <2>2, <2>4 DEF Embeds
  <2>6. QED
    BY <1>3, <2>5 DEF s2
<1>4. CASE m \in some
  <2>0. \A k \in 1 .. Len(t) : h[k] \in 1 .. Len(s)
    BY DEF Embeds
  <2> DEFINE t2 == Append(t, m)
             g == [k \in 1 .. Len(t) + 1 |-> IF k <= Len(t) THEN h[k] ELSE Len(s) + 1]
  <2>1. t2 \in Seq(S) /\ Len(t2) = Len(t) + 1 /\ t2[Len(t) + 1] = m
    OBVIOUS
  <2>2. \A k \in 1 .. Len(t) : t2[k] = t[k]
    OBVIOUS
  <2>3. \A k \in 1 .. Len(t) : g[k] = h[k] /\ h[k] \in 1 .. Len(s)
    <3>1. Len(t) \in Nat
      BY LenProperties
    <3>2. \A k \in 1 .. Len(t) : k \in 1 .. Len(t) + 1 /\ k <= Len(t)
      BY <3>1
    <3>3. QED
      BY <2>0, <3>2
  <2>4. g[Len(t) + 1] = Len(s) + 1
    OBVIOUS
  <2>5. \A k \in 1 .. Len(t2) : k \in 1 .. Len(t) \/ k = Len(t) + 1
    BY <2>1
  <2>6. g \in [1 .. Len(t2) -> 1 .. Len(s2)]
    <3>0. Len(t) \in Nat /\ Len(s) \in Nat
      OBVIOUS
    <3>1. g \in [1 .. Len(t) + 1 -> 1 .. Len(s) + 1]
      <4>1. ASSUME NEW k \in 1 .. Len(t) + 1
            PROVE  (IF k <= Len(t) THEN h[k] ELSE Len(s) + 1) \in 1 .. Len(s) + 1
        <5>1. k <= Len(t) => k \in 1 .. Len(t)
          BY <3>0
        <5>2. k <= Len(t) => h[k] \in 1 .. Len(s)
          BY <2>0, <5>1
        <5>3. \A j \in 1 .. Len(s) : j \in 1 .. Len(s) + 1
          BY <3>0
        <5>4. Len(s) + 1 \in 1 .. Len(s) + 1
          BY <3>0
        <5>5. QED
          BY <5>2, <5>3, <5>4
      <4>2. QED
        BY <4>1
    <3>2. QED
      BY <3>1, <1>1, <2>1
  <2> HIDE DEF g, t2
  <2>7. \A k \in 1 .. Len(t2) : t2[k] = s2[g[k]] /\ s2[g[k]] \in some
    BY <1>1, <1>2, <1>4, <2>1, <2>2, <2>3, <2>4, <2>5 DEF Embeds
  <2>8. \A k, l \in 1 .. Len(t2) : k < l => g[k] < g[l]
    <3>1. SUFFICES ASSUME NEW k \in 1 .. Len(t2), NEW l \in 1 .. Len(t2), k < l
                   PROVE  g[k] < g[l]
      OBVIOUS
    <3>2. k \in 1 .. Len(t)
      BY <2>1, <3>1
    <3>3. CASE l \in 1 .. Len(t)
      BY <2>3, <3>1, <3>2, <3>3 DEF Embeds
    <3>4. CASE l = Len(t) + 1
      BY <2>3, <2>4, <3>2, <3>4
    <3>5. QED
      BY <2>5, <3>3, <3>4
  <2>9. \A i \in 1 .. Len(s2) : s2[i] \in some => \E k \in 1 .. Len(t2) : g[k] = i
    <3>1. SUFFICES ASSUME NEW i \in 1 .. Len(s2), s2[i] \in some
                   PROVE  \E k \in 1 .. Len(t2) : g[k] = i
      OBVIOUS
    <3>2. CASE i \in 1 .. Len(s)
      <4>1. PICK k \in 1 .. Len(t) : h[k] = i
        BY <1>2, <3>1, <3>2 DEF Embeds
      <4>2. k \in 1 .. Len(t2) /\ g[k] = i
        BY <2>1, <2>3, <4>1
      <4>3. QED
        BY <4>2
    <3>3. CASE i = Len(s) + 1
      BY <2>1, <2>4, <3>3
    <3>4. QED
      BY <1>1, <3>2, <3>3
  <2>10. Embeds(g, t2, s2, some)
    BY <2>6, <2>7, <2>8, <2>9 DEF Embeds
  <2>11. QED
    BY <1>4, <2>10 DEF s2, t2
<1>5. QED
  BY <1>3, <1>4

LEMMA ThoseEmbed ==
    ASSUME NEW S, NEW some
    PROVE  \A s \in Seq(S) : \E h : Embeds(h, Those(s, some), s, some)
<1> DEFINE T == {s \in Seq(S) : \E h : Embeds(h, Those(s, some), s, some)}
<1>1. <<>> \in T
  <2>1. Embeds(<<>>, <<>>, <<>>, some)
    BY DEF Embeds
  <2>2. QED
    BY <2>1, ThoseEmpty
<1>2. ASSUME NEW s \in Seq(S), s \in T, NEW m \in S
      PROVE  Append(s, m) \in T
  <2>1. Append(s, m) \in Seq(S) /\ Those(s, some) \in Seq(S)
    BY ThoseType
  <2>2. Those(Append(s, m), some) = IF m \in some THEN Append(Those(s, some), m) ELSE Those(s, some)
    BY ThoseAppend
  <2>3. PICK h : Embeds(h, Those(s, some), s, some)
    BY <1>2
  <2>4. IF m \in some THEN \E g : Embeds(g, Append(Those(s, some), m), Append(s, m), some)
        ELSE Embeds(h, Those(s, some), Append(s, m), some)
    BY <2>1, <2>3, EmbedsMore
  <2>5. \E g : Embeds(g, Those(Append(s, m), some), Append(s, m), some)
    BY <2>2, <2>4
  <2>6. QED
    BY <2>1, <2>5
<1> HIDE DEF T
<1>3. \A s \in Seq(S) : s \in T
  BY <1>1, <1>2, Grows
<1>4. QED
  BY <1>3 DEF T

-----------------------------------------------------------------------------
(***************************************************************************)
(* Calls and results                                                       *)
(***************************************************************************)
\* Every call is answered, and every result is of a call.
Matched(s) ==
    \A i \in 1 .. Len(s) :
        /\ Has(s[i], "call") => \E j \in 1 .. Len(s) : Answers(s, i, j)
        /\ Has(s[i], "result") => \E j \in 1 .. Len(s) : Answers(s, j, i)

\* The messages that are not empty.
Full == {m \in Message : m.parts # {}}

Plain(m) == ~ Has(m, "call") /\ ~ Has(m, "result")

\* `s` is `a` and then `b`.
Joined(s, a, b) ==
    /\ Len(a) \in Nat /\ Len(b) \in Nat /\ Len(s) = Len(a) + Len(b)
    /\ \A i \in 1 .. Len(a) : s[i] = a[i]
    /\ \A i \in 1 .. Len(b) : s[Len(a) + i] = b[i]

LEMMA ConcatJoins ==
    ASSUME NEW S, NEW a \in Seq(S), NEW b \in Seq(S)
    PROVE  a \o b \in Seq(S) /\ Joined(a \o b, a, b)
  BY DEF Joined

LEMMA AnswersLeft ==
    ASSUME NEW s, NEW a, NEW b, Joined(s, a, b),
           NEW i \in 1 .. Len(a), NEW j \in 1 .. Len(a), Answers(a, i, j)
    PROVE  i \in 1 .. Len(s) /\ j \in 1 .. Len(s) /\ Answers(s, i, j)
<1>1. \A k \in 1 .. Len(a) : s[k] = a[k]
  BY DEF Joined
<1>2. \A k \in (i + 1) .. j : k \in 1 .. Len(a)
  BY DEF Joined
<1>3. \A k \in (i + 1) .. j : s[k].role = "user"
  BY <1>1, <1>2 DEF Answers
<1>4. s[i] = a[i] /\ s[j] = a[j]
  BY <1>1
<1>5. Answers(s, i, j)
  BY <1>3, <1>4 DEF Answers
<1>6. i \in 1 .. Len(s) /\ j \in 1 .. Len(s)
  BY DEF Joined
<1>7. QED
  BY <1>5, <1>6

LEMMA AnswersRight ==
    ASSUME NEW s, NEW a, NEW b, Joined(s, a, b),
           NEW i \in 1 .. Len(b), NEW j \in 1 .. Len(b), Answers(b, i, j)
    PROVE  /\ Len(a) + i \in 1 .. Len(s) /\ Len(a) + j \in 1 .. Len(s)
           /\ Answers(s, Len(a) + i, Len(a) + j)
<1>0. Len(a) \in Nat /\ Len(b) \in Nat /\ Len(s) = Len(a) + Len(b)
  BY DEF Joined
<1>1. \A k \in 1 .. Len(b) : s[Len(a) + k] = b[k]
  BY DEF Joined
<1>2. ASSUME NEW k \in (Len(a) + i + 1) .. (Len(a) + j)
      PROVE  s[k].role = "user"
  <2>1. k - Len(a) \in (i + 1) .. j /\ k - Len(a) \in 1 .. Len(b) /\ Len(a) + (k - Len(a)) = k
    BY <1>0
  <2>2. b[k - Len(a)].role = "user"
    BY <2>1 DEF Answers
  <2>3. s[Len(a) + (k - Len(a))] = b[k - Len(a)]
    BY <1>1, <2>1
  <2>4. QED
    BY <2>1, <2>2, <2>3
<1>3. s[Len(a) + i] = b[i] /\ s[Len(a) + j] = b[j]
  BY <1>1
<1>4. Len(a) + i < Len(a) + j
  BY <1>0 DEF Answers
<1>5. Answers(s, Len(a) + i, Len(a) + j)
  BY <1>2, <1>3, <1>4 DEF Answers
<1>6. QED
  BY <1>0, <1>5

\* A place in a joined sequence is one of its parts'.
LEMMA JoinedPlaces ==
    ASSUME NEW s, NEW a, NEW b, Joined(s, a, b), NEW i \in 1 .. Len(s)
    PROVE  \/ i \in 1 .. Len(a) /\ s[i] = a[i]
           \/ \E k \in 1 .. Len(b) : i = Len(a) + k /\ s[i] = b[k]
<1>0. Len(a) \in Nat /\ Len(b) \in Nat /\ Len(s) = Len(a) + Len(b)
  BY DEF Joined
<1>1. CASE i <= Len(a)
  <2>1. i \in 1 .. Len(a)
    BY <1>0, <1>1
  <2>2. QED
    BY <2>1 DEF Joined
<1>2. CASE ~ (i <= Len(a))
  <2>1. i - Len(a) \in 1 .. Len(b) /\ i = Len(a) + (i - Len(a))
    BY <1>0, <1>2
  <2>2. s[Len(a) + (i - Len(a))] = b[i - Len(a)]
    BY <2>1 DEF Joined
  <2>3. QED
    BY <2>1, <2>2
<1>3. QED
  BY <1>1, <1>2

LEMMA MatchedJoined ==
    ASSUME NEW s, NEW a, NEW b, Joined(s, a, b), Matched(a), Matched(b)
    PROVE  Matched(s)
<1>1. SUFFICES ASSUME NEW i \in 1 .. Len(s)
               PROVE  /\ Has(s[i], "call") => \E j \in 1 .. Len(s) : Answers(s, i, j)
                      /\ Has(s[i], "result") => \E j \in 1 .. Len(s) : Answers(s, j, i)
  BY DEF Matched
<1>2. CASE i \in 1 .. Len(a) /\ s[i] = a[i]
  <2>1. ASSUME Has(s[i], "call")
        PROVE  \E j \in 1 .. Len(s) : Answers(s, i, j)
    <3>1. PICK j \in 1 .. Len(a) : Answers(a, i, j)
      BY <1>2, <2>1 DEF Matched
    <3>2. QED
      BY <1>2, <3>1, AnswersLeft
  <2>2. ASSUME Has(s[i], "result")
        PROVE  \E j \in 1 .. Len(s) : Answers(s, j, i)
    <3>1. PICK j \in 1 .. Len(a) : Answers(a, j, i)
      BY <1>2, <2>2 DEF Matched
    <3>2. QED
      BY <1>2, <3>1, AnswersLeft
  <2>3. QED
    BY <2>1, <2>2
<1>3. CASE \E k \in 1 .. Len(b) : i = Len(a) + k /\ s[i] = b[k]
  <2>0. PICK k \in 1 .. Len(b) : i = Len(a) + k /\ s[i] = b[k]
    BY <1>3
  <2>1. ASSUME Has(s[i], "call")
        PROVE  \E j \in 1 .. Len(s) : Answers(s, i, j)
    <3>1. PICK j \in 1 .. Len(b) : Answers(b, k, j)
      BY <2>0, <2>1 DEF Matched
    <3>2. QED
      BY <2>0, <3>1, AnswersRight
  <2>2. ASSUME Has(s[i], "result")
        PROVE  \E j \in 1 .. Len(s) : Answers(s, j, i)
    <3>1. PICK j \in 1 .. Len(b) : Answers(b, j, k)
      BY <2>0, <2>2 DEF Matched
    <3>2. QED
      BY <2>0, <3>1, AnswersRight
  <2>3. QED
    BY <2>1, <2>2
<1>4. QED
  BY <1>2, <1>3, JoinedPlaces

LEMMA MatchedConcat ==
    ASSUME NEW a \in Seq(Message), NEW b \in Seq(Message), Matched(a), Matched(b)
    PROVE  Matched(a \o b)
<1>1. Joined(a \o b, a, b)
  BY ConcatJoins
<1>2. QED
  BY <1>1, MatchedJoined

LEMMA MatchedPlain ==
    ASSUME NEW s, \A i \in 1 .. Len(s) : Plain(s[i])
    PROVE  Matched(s)
  BY DEF Matched, Plain

\* Leaving out messages without calls and results leaves the others matched.
LEMMA MatchedThose ==
    ASSUME NEW s \in Seq(Message), NEW some, Matched(s),
           \A i \in 1 .. Len(s) : s[i] \in some \/ Plain(s[i])
    PROVE  Matched(Those(s, some))
<1> DEFINE t == Those(s, some)
<1>1. PICK h : Embeds(h, t, s, some)
  BY ThoseEmbed
<1>2. t \in Seq(Message)
  BY ThoseType
<1> HIDE DEF t
<1>3. ASSUME NEW k \in 1 .. Len(t), NEW l \in 1 .. Len(t), Answers(s, h[k], h[l])
      PROVE  Answers(t, k, l)
  <2>1. h[k] \in 1 .. Len(s) /\ h[l] \in 1 .. Len(s) /\ h[k] < h[l] /\ t[k] = s[h[k]] /\ t[l] = s[h[l]]
    BY <1>1, <1>3 DEF Embeds, Answers
  <2>2. k < l
    <3>1. ~ (l < k) /\ k # l
      BY <1>1, <2>1 DEF Embeds
    <3>2. QED
      BY <3>1
  <2>3. ASSUME NEW x \in (k + 1) .. l
        PROVE  t[x].role = "user"
    <3>1. x \in 1 .. Len(t) /\ k < x /\ (x < l \/ x = l)
      BY <1>2
    <3>2. h[x] \in 1 .. Len(s) /\ h[k] < h[x] /\ h[x] <= h[l] /\ t[x] = s[h[x]]
      BY <1>1, <2>1, <3>1 DEF Embeds
    <3>3. h[x] \in (h[k] + 1) .. h[l]
      BY <2>1, <3>2
    <3>4. QED
      BY <1>3, <3>2, <3>3 DEF Answers
  <2>4. QED
    BY <1>3, <2>1, <2>2, <2>3 DEF Answers
<1>4. ASSUME NEW i \in 1 .. Len(s), ~ Plain(s[i])
      PROVE  \E k \in 1 .. Len(t) : h[k] = i
  BY <1>1, <1>4 DEF Embeds
<1>5. SUFFICES ASSUME NEW k \in 1 .. Len(t)
               PROVE  /\ Has(t[k], "call") => \E l \in 1 .. Len(t) : Answers(t, k, l)
                      /\ Has(t[k], "result") => \E l \in 1 .. Len(t) : Answers(t, l, k)
  BY DEF Matched, t
<1>6. h[k] \in 1 .. Len(s) /\ t[k] = s[h[k]]
  BY <1>1 DEF Embeds
<1>7. ASSUME Has(t[k], "call")
      PROVE  \E l \in 1 .. Len(t) : Answers(t, k, l)
  <2>1. PICK j \in 1 .. Len(s) : Answers(s, h[k], j)
    BY <1>6, <1>7 DEF Matched
  <2>2. ~ Plain(s[j])
    BY <2>1 DEF Answers, Plain
  <2>3. PICK l \in 1 .. Len(t) : h[l] = j
    BY <1>4, <2>2
  <2>4. QED
    BY <1>3, <2>1, <2>3
<1>8. ASSUME Has(t[k], "result")
      PROVE  \E l \in 1 .. Len(t) : Answers(t, l, k)
  <2>1. PICK j \in 1 .. Len(s) : Answers(s, j, h[k])
    BY <1>6, <1>8 DEF Matched
  <2>2. ~ Plain(s[j])
    BY <2>1 DEF Answers, Plain
  <2>3. PICK l \in 1 .. Len(t) : h[l] = j
    BY <1>4, <2>2
  <2>4. QED
    BY <1>3, <2>1, <2>3
<1>9. QED
  BY <1>7, <1>8

\* What the API accepts, by the parts of it that the proofs keep.
LEMMA AcceptedParts ==
    ASSUME NEW s \in Seq(Message)
    PROVE  Accepted(s) <=> s # <<>> /\ s[1].role = "user" /\ Matched(s) /\ s \in Seq(Full)
<1>1. DOMAIN s = 1 .. Len(s) /\ \A i \in 1 .. Len(s) : s[i] \in Message
  OBVIOUS
<1>2. s \in Seq(Full) <=> \A i \in 1 .. Len(s) : s[i].parts # {}
  <2>1. ASSUME s \in Seq(Full)
        PROVE  \A i \in 1 .. Len(s) : s[i].parts # {}
    BY <2>1 DEF Full
  <2>2. ASSUME \A i \in 1 .. Len(s) : s[i].parts # {}
        PROVE  s \in Seq(Full)
    <3>1. \A i \in 1 .. Len(s) : s[i] \in Full
      BY <1>1, <2>2 DEF Full
    <3>2. QED
      BY <3>1
  <2>3. QED
    BY <2>1, <2>2
<1>3. QED
  BY <1>1, <1>2 DEF Accepted, Matched

-----------------------------------------------------------------------------
(***************************************************************************)
(* Repair                                                                  *)
(***************************************************************************)
LEMMA WithoutFacts ==
    ASSUME NEW m \in Message, NEW part
    PROVE  /\ Without(m, part) \in Message
           /\ Without(m, part).role = m.role /\ Without(m, part).id = m.id
           /\ Without(m, part).parts = m.parts \ {part}
           /\ ~ Has(m, part) => Without(m, part) = m
  BY DEF Without, Message, Has

\* `r` is `s` without the calls that no result has the id of.
Resolves(s, r) ==
    /\ r \in Seq(Message) /\ Len(r) = Len(s)
    /\ \A i \in 1 .. Len(s) :
          /\ r[i].role = s[i].role /\ r[i].id = s[i].id
          /\ Has(r[i], "result") <=> Has(s[i], "result")
          /\ Has(r[i], "call") <=>
                Has(s[i], "call") /\ \E j \in 1 .. Len(s) : Has(s[j], "result") /\ s[j].id = s[i].id

\* `q` is `r` without the results that no call has the id of.
Parents(r, q) ==
    /\ q \in Seq(Message) /\ Len(q) = Len(r)
    /\ \A i \in 1 .. Len(r) :
          /\ q[i].role = r[i].role /\ q[i].id = r[i].id
          /\ Has(q[i], "call") <=> Has(r[i], "call")
          /\ Has(q[i], "result") <=>
                Has(r[i], "result") /\ \E j \in 1 .. Len(r) : Has(r[j], "call") /\ r[j].id = r[i].id

Unparented(s) ==
    [i \in DOMAIN s |-> IF s[i].id \in Ids(s, "call") THEN s[i] ELSE Without(s[i], "result")]

LEMMA ResolvedIs ==
    ASSUME NEW s \in Seq(Message)
    PROVE  Resolves(s, Resolved(s))
<1> DEFINE r == Resolved(s)
<1>1. DOMAIN s = 1 .. Len(s) /\ Len(s) \in Nat
  OBVIOUS
<1>2. \A i \in 1 .. Len(s) : s[i] \in Message
  OBVIOUS
<1>3. \A i \in 1 .. Len(s) :
         r[i] = IF s[i].id \in Ids(s, "result") THEN s[i] ELSE Without(s[i], "call")
  BY <1>1 DEF Resolved
<1>4. r = [i \in 1 .. Len(s) |-> r[i]]
  BY <1>1 DEF Resolved
<1> HIDE DEF r
<1>5. \A i \in 1 .. Len(s) : r[i] \in Message
  BY <1>2, <1>3, WithoutFacts
<1>6. r \in Seq(Message) /\ Len(r) = Len(s)
  BY <1>1, <1>4, <1>5
<1>7. ASSUME NEW i \in 1 .. Len(s)
      PROVE  s[i].id \in Ids(s, "result") <=>
                \E j \in 1 .. Len(s) : Has(s[j], "result") /\ s[j].id = s[i].id
  BY <1>1 DEF Ids
<1>8. ASSUME NEW i \in 1 .. Len(s)
      PROVE  /\ r[i].role = s[i].role /\ r[i].id = s[i].id
             /\ Has(r[i], "result") <=> Has(s[i], "result")
             /\ Has(r[i], "call") <=> Has(s[i], "call") /\ s[i].id \in Ids(s, "result")
  BY <1>2, <1>3, WithoutFacts DEF Has
<1>9. QED
  BY <1>6, <1>7, <1>8 DEF Resolves, r

LEMMA UnparentedIs ==
    ASSUME NEW s \in Seq(Message)
    PROVE  Parents(s, Unparented(s))
<1> DEFINE r == Unparented(s)
<1>1. DOMAIN s = 1 .. Len(s) /\ Len(s) \in Nat
  OBVIOUS
<1>2. \A i \in 1 .. Len(s) : s[i] \in Message
  OBVIOUS
<1>3. \A i \in 1 .. Len(s) :
         r[i] = IF s[i].id \in Ids(s, "call") THEN s[i] ELSE Without(s[i], "result")
  BY <1>1 DEF Unparented
<1>4. r = [i \in 1 .. Len(s) |-> r[i]]
  BY <1>1 DEF Unparented
<1> HIDE DEF r
<1>5. \A i \in 1 .. Len(s) : r[i] \in Message
  BY <1>2, <1>3, WithoutFacts
<1>6. r \in Seq(Message) /\ Len(r) = Len(s)
  BY <1>1, <1>4, <1>5
<1>7. ASSUME NEW i \in 1 .. Len(s)
      PROVE  s[i].id \in Ids(s, "call") <=>
                \E j \in 1 .. Len(s) : Has(s[j], "call") /\ s[j].id = s[i].id
  BY <1>1 DEF Ids
<1>8. ASSUME NEW i \in 1 .. Len(s)
      PROVE  /\ r[i].role = s[i].role /\ r[i].id = s[i].id
             /\ Has(r[i], "call") <=> Has(s[i], "call")
             /\ Has(r[i], "result") <=> Has(s[i], "result") /\ s[i].id \in Ids(s, "call")
  BY <1>2, <1>3, WithoutFacts DEF Has
<1>9. QED
  BY <1>6, <1>7, <1>8 DEF Parents, r

\* What is left of ordered calls and results is matched.
LEMMA RepairMatches ==
    ASSUME NEW s \in Seq(Message), NEW r, NEW q,
           Ordered(s), Resolves(s, r), Parents(r, q)
    PROVE  Matched(q)
<1>1. Len(q) = Len(s) /\ Len(r) = Len(s) /\ DOMAIN s = 1 .. Len(s)
  BY DEF Resolves, Parents
<1>2. ASSUME NEW i \in 1 .. Len(s), NEW j \in 1 .. Len(s), Has(r[i], "call"), Has(r[j], "result"),
             s[i].id = s[j].id
      PROVE  Answers(q, i, j)
  <2>1. Has(s[i], "call") /\ Has(s[j], "result")
    BY <1>2 DEF Resolves
  <2>2. Answers(s, i, j)
    BY <1>1, <1>2, <2>1 DEF Ordered
  <2>3. Has(q[i], "call") /\ Has(q[j], "result") /\ q[i].id = q[j].id
    <3>1. r[i].id = r[j].id
      BY <1>2 DEF Resolves
    <3>2. QED
      BY <1>1, <1>2, <3>1 DEF Parents
  <2>4. ASSUME NEW k \in (i + 1) .. j
        PROVE  q[k].role = "user"
    <3>1. k \in 1 .. Len(s)
      OBVIOUS
    <3>2. q[k].role = s[k].role
      BY <1>1, <3>1 DEF Parents, Resolves
    <3>3. QED
      BY <2>2, <3>2 DEF Answers
  <2>5. QED
    BY <2>2, <2>3, <2>4 DEF Answers
<1>3. ASSUME NEW i \in 1 .. Len(s), Has(q[i], "call")
      PROVE  \E j \in 1 .. Len(s) : Answers(q, i, j)
  <2>1. Has(r[i], "call")
    BY <1>1, <1>3 DEF Parents
  <2>2. PICK j \in 1 .. Len(s) : Has(s[j], "result") /\ s[j].id = s[i].id
    BY <2>1 DEF Resolves
  <2>3. Has(r[j], "result")
    BY <2>2 DEF Resolves
  <2>4. QED
    BY <1>2, <2>1, <2>2, <2>3
<1>4. ASSUME NEW i \in 1 .. Len(s), Has(q[i], "result")
      PROVE  \E j \in 1 .. Len(s) : Answers(q, j, i)
  <2>1. Has(r[i], "result") /\ \E j \in 1 .. Len(s) : Has(r[j], "call") /\ r[j].id = r[i].id
    BY <1>1, <1>4 DEF Parents
  <2>2. PICK j \in 1 .. Len(s) : Has(r[j], "call") /\ r[j].id = r[i].id
    BY <2>1
  <2>3. s[j].id = s[i].id
    BY <2>2 DEF Resolves
  <2>4. QED
    BY <1>2, <2>1, <2>2, <2>3
<1>5. QED
  BY <1>1, <1>3, <1>4 DEF Matched

LEMMA NonEmptyFacts ==
    ASSUME NEW s \in Seq(Message)
    PROVE  /\ NonEmpty(s) \in Seq(Full)
           /\ Matched(s) => Matched(NonEmpty(s))
<1>1. NonEmpty(s) = Those(s, Full)
  BY DEF NonEmpty, Full
<1>2. NonEmpty(s) \in Seq(Message)
  BY <1>1, ThoseType
<1>3. PICK h : Embeds(h, NonEmpty(s), s, Full)
  BY <1>1, ThoseEmbed
<1>4. \A k \in 1 .. Len(NonEmpty(s)) : NonEmpty(s)[k] \in Full
  BY <1>3 DEF Embeds
<1>5. NonEmpty(s) \in Seq(Full)
  BY <1>2, <1>4
<1>6. \A i \in 1 .. Len(s) : s[i] \in Full \/ Plain(s[i])
  <2>1. \A i \in 1 .. Len(s) : s[i] \in Message
    OBVIOUS
  <2>2. QED
    BY <2>1 DEF Full, Plain, Has
<1>7. Matched(s) => Matched(NonEmpty(s))
  BY <1>1, <1>6, MatchedThose
<1>8. QED
  BY <1>5, <1>7

LEMMA ParentedIs ==
    ASSUME NEW s
    PROVE  Parented(s) = NonEmpty(Unparented(s))
  BY DEF Parented, Unparented

Stub(role) == [role |-> role, parts |-> {"stub"}, id |-> 0]

LEMMA StubFacts ==
    ASSUME NEW role \in {"user", "assistant"}
    PROVE  Stub(role) \in Full /\ Plain(Stub(role)) /\ Has(Stub(role), "stub")
<1>1. MaxMessages \in Nat
  BY TranscriptAssumption
<1>2. 0 \in 0 .. MaxMessages
  BY <1>1
<1>3. Stub(role) \in Message
  BY <1>2 DEF Stub, Message, Parts
<1>4. QED
  BY <1>3 DEF Stub, Full, Plain, Has

LEMMA HeadedFacts ==
    ASSUME NEW s \in Seq(Full), Matched(s)
    PROVE  /\ Headed(s) \in Seq(Full) /\ Matched(Headed(s))
           /\ (s = <<>>) <=> (Headed(s) = <<>>)
           /\ Headed(s) # <<>> => Headed(s)[1].role = "user"
<1>0. User({"stub"}) = Stub("user")
  BY DEF User, Stub
<1>1. CASE s # <<>> /\ s[1].role = "assistant"
  <2>1. Headed(s) = <<Stub("user")>> \o s
    BY <1>0, <1>1 DEF Headed
  <2>2. <<Stub("user")>> \in Seq(Full) /\ Len(<<Stub("user")>>) = 1 /\ <<Stub("user")>>[1] = Stub("user")
    BY StubFacts
  <2>3. Matched(<<Stub("user")>>)
    BY <2>2, StubFacts, MatchedPlain
  <2>4. Headed(s) \in Seq(Full) /\ Joined(Headed(s), <<Stub("user")>>, s)
    BY <2>1, <2>2, ConcatJoins
  <2>5. Matched(Headed(s))
    BY <2>3, <2>4, MatchedJoined
  <2>6. Headed(s)[1] = Stub("user") /\ Len(Headed(s)) >= 1
    BY <2>2, <2>4 DEF Joined
  <2>7. Headed(s) # <<>> /\ Headed(s)[1].role = "user"
    BY <2>6 DEF Stub
  <2>8. QED
    BY <1>1, <2>4, <2>5, <2>7
<1>2. CASE ~ (s # <<>> /\ s[1].role = "assistant")
  <2>1. Headed(s) = s
    BY <1>2 DEF Headed
  <2>2. s # <<>> => s[1] \in Message
    <3>1. s # <<>> => 1 \in 1 .. Len(s)
      OBVIOUS
    <3>2. QED
      BY <3>1 DEF Full
  <2>3. s # <<>> => s[1].role = "user"
    BY <1>2, <2>2 DEF Message
  <2>4. QED
    BY <2>1, <2>3
<1>3. QED
  BY <1>1, <1>2

LEMMA TailedFacts ==
    ASSUME NEW s \in Seq(Full), Matched(s), s # <<>> => s[1].role = "user"
    PROVE  /\ Tailed(s) \in Seq(Full) /\ Matched(Tailed(s))
           /\ (s = <<>>) <=> (Tailed(s) = <<>>)
           /\ Tailed(s) # <<>> => Tailed(s)[1].role = "user"
<1>0. Assistant({"stub"}) = Stub("assistant")
  BY DEF Assistant, Stub
<1>1. CASE s # <<>> /\ s[Len(s)].role = "user" /\ s[Len(s)].parts = {"result"}
  <2>1. Tailed(s) = Append(s, Stub("assistant"))
    BY <1>0, <1>1 DEF Tailed
  <2>2. <<Stub("assistant")>> \in Seq(Full) /\ Len(<<Stub("assistant")>>) = 1
        /\ <<Stub("assistant")>>[1] = Stub("assistant")
    BY StubFacts
  <2>3. Matched(<<Stub("assistant")>>)
    BY <2>2, StubFacts, MatchedPlain
  <2>4. Stub("assistant") \in Full
    BY StubFacts
  <2>5. Tailed(s) = s \o <<Stub("assistant")>>
    BY <2>1, <2>4, AppendIsConcat
  <2>6. Tailed(s) \in Seq(Full) /\ Joined(Tailed(s), s, <<Stub("assistant")>>)
    BY <2>2, <2>5, ConcatJoins
  <2>7. Matched(Tailed(s))
    BY <2>3, <2>6, MatchedJoined
  <2>8. 1 \in 1 .. Len(s)
    BY <1>1
  <2>9. Tailed(s)[1] = s[1] /\ Len(Tailed(s)) >= 1
    BY <2>2, <2>6, <2>8 DEF Joined
  <2>10. Tailed(s) # <<>>
    BY <2>9
  <2>11. QED
    BY <1>1, <2>6, <2>7, <2>9, <2>10
<1>2. CASE ~ (s # <<>> /\ s[Len(s)].role = "user" /\ s[Len(s)].parts = {"result"})
  BY <1>2 DEF Tailed
<1>3. QED
  BY <1>1, <1>2

\* What a resume shows of an ordered transcript is a valid one, or nothing.
LEMMA RepairedFacts ==
    ASSUME NEW s \in Seq(Message), Ordered(s)
    PROVE  /\ Repaired(s) \in Seq(Full) /\ Matched(Repaired(s))
           /\ Repaired(s) # <<>> => Repaired(s)[1].role = "user"
           /\ (Repaired(s) = <<>>) <=> (Parented(Resolved(s)) = <<>>)
           /\ Parented(Resolved(s)) \in Seq(Full)
<1> DEFINE r == Resolved(s)
           p == Parented(r)
<1>1. Resolves(s, r)
  BY ResolvedIs
<1>2. r \in Seq(Message)
  BY <1>1 DEF Resolves
<1>3. Parents(r, Unparented(r))
  BY <1>2, UnparentedIs
<1>4. Matched(Unparented(r)) /\ Unparented(r) \in Seq(Message)
  BY <1>1, <1>3, RepairMatches DEF Parents
<1>5. p \in Seq(Full) /\ Matched(p)
  BY <1>4, ParentedIs, NonEmptyFacts
<1>6. Repaired(s) = Tailed(Headed(p))
  BY DEF Repaired
<1> HIDE DEF p, r
<1>7. /\ Headed(p) \in Seq(Full) /\ Matched(Headed(p))
      /\ (p = <<>>) <=> (Headed(p) = <<>>)
      /\ Headed(p) # <<>> => Headed(p)[1].role = "user"
  BY <1>5, HeadedFacts
<1>8. /\ Tailed(Headed(p)) \in Seq(Full) /\ Matched(Tailed(Headed(p)))
      /\ (Headed(p) = <<>>) <=> (Tailed(Headed(p)) = <<>>)
      /\ Tailed(Headed(p)) # <<>> => Tailed(Headed(p))[1].role = "user"
  BY <1>7, TailedFacts
<1>9. QED
  BY <1>5, <1>6, <1>7, <1>8 DEF p, r

-----------------------------------------------------------------------------
(***************************************************************************)
(* Repair of a transcript that went on after an earlier repair             *)
(***************************************************************************)
\* The rounds of `new` are none of those of `base`.
Apart(base, new) ==
    \A i \in 1 .. Len(base), j \in 1 .. Len(new) :
        ~ Plain(base[i]) /\ ~ Plain(new[j]) => base[i].id # new[j].id

LEMMA SameSequence ==
    ASSUME NEW S, NEW s \in Seq(S), NEW a \in Seq(S), NEW b \in Seq(S), Joined(s, a, b)
    PROVE  s = a \o b
<1>1. a \o b \in Seq(S) /\ Joined(a \o b, a, b)
  BY ConcatJoins
<1>2. Len(s) = Len(a \o b)
  BY <1>1 DEF Joined
<1>3. ASSUME NEW i \in 1 .. Len(s)
      PROVE  s[i] = (a \o b)[i]
  <2>1. CASE i \in 1 .. Len(a) /\ s[i] = a[i]
    BY <1>1, <2>1 DEF Joined
  <2>2. CASE \E k \in 1 .. Len(b) : i = Len(a) + k /\ s[i] = b[k]
    BY <1>1, <2>2 DEF Joined
  <2>3. \/ i \in 1 .. Len(a) /\ s[i] = a[i]
        \/ \E k \in 1 .. Len(b) : i = Len(a) + k /\ s[i] = b[k]
    BY JoinedPlaces
  <2>4. QED
    BY <2>1, <2>2, <2>3, Zenon
<1>4. QED
  BY <1>1, <1>2, <1>3, SeqEqual

\* Among `s` there is a message with the part and the ID.
Bears(s, part, id) == \E j \in 1 .. Len(s) : Has(s[j], part) /\ s[j].id = id

LEMMA IdsBears ==
    ASSUME NEW s \in Seq(Message), NEW part, NEW id
    PROVE  id \in Ids(s, part) <=> Bears(s, part, id)
<1>1. DOMAIN s = 1 .. Len(s)
  OBVIOUS
<1>2. QED
  BY <1>1 DEF Ids, Bears

LEMMA BearsJoined ==
    ASSUME NEW s, NEW a, NEW b, Joined(s, a, b), NEW part, NEW id
    PROVE  Bears(s, part, id) <=> Bears(a, part, id) \/ Bears(b, part, id)
<1>0. Len(a) \in Nat /\ Len(b) \in Nat /\ Len(s) = Len(a) + Len(b)
  BY DEF Joined
<1>1. ASSUME Bears(s, part, id)
      PROVE  Bears(a, part, id) \/ Bears(b, part, id)
  <2>1. PICK j \in 1 .. Len(s) : Has(s[j], part) /\ s[j].id = id
    BY <1>1 DEF Bears
  <2>2. \/ j \in 1 .. Len(a) /\ s[j] = a[j]
        \/ \E k \in 1 .. Len(b) : j = Len(a) + k /\ s[j] = b[k]
    BY JoinedPlaces
  <2>3. QED
    BY <2>1, <2>2 DEF Bears
<1>2. ASSUME Bears(a, part, id)
      PROVE  Bears(s, part, id)
  <2>1. PICK j \in 1 .. Len(a) : Has(a[j], part) /\ a[j].id = id
    BY <1>2 DEF Bears
  <2>2. j \in 1 .. Len(s) /\ s[j] = a[j]
    BY <1>0 DEF Joined
  <2>3. QED
    BY <2>1, <2>2 DEF Bears
<1>3. ASSUME Bears(b, part, id)
      PROVE  Bears(s, part, id)
  <2>1. PICK j \in 1 .. Len(b) : Has(b[j], part) /\ b[j].id = id
    BY <1>3 DEF Bears
  <2>2. Len(a) + j \in 1 .. Len(s) /\ s[Len(a) + j] = b[j]
    BY <1>0 DEF Joined
  <2>3. QED
    BY <2>1, <2>2 DEF Bears
<1>4. QED
  BY <1>1, <1>2, <1>3

LEMMA ApartBears ==
    ASSUME NEW a, NEW b, Apart(a, b), NEW i \in 1 .. Len(a), ~ Plain(a[i]),
           NEW part \in {"call", "result"}
    PROVE  ~ Bears(b, part, a[i].id)
  BY DEF Apart, Bears, Plain

LEMMA MatchedBears ==
    ASSUME NEW b, Matched(b), NEW i \in 1 .. Len(b)
    PROVE  /\ Has(b[i], "call") => Bears(b, "result", b[i].id)
           /\ Has(b[i], "result") => Bears(b, "call", b[i].id)
  BY DEF Matched, Answers, Bears

LEMMA ResolvedGrows ==
    ASSUME NEW base \in Seq(Message), NEW new \in Seq(Message), Matched(new), Apart(base, new)
    PROVE  Resolved(base \o new) = Resolved(base) \o new
<1> DEFINE s == base \o new
           r == Resolved(base)
           w == Resolved(s)
<1>1. s \in Seq(Message) /\ Joined(s, base, new)
  BY ConcatJoins
<1> HIDE DEF s
<1>2. /\ r \in Seq(Message) /\ Len(r) = Len(base)
      /\ w \in Seq(Message) /\ Len(w) = Len(s)
  BY <1>1, ResolvedIs DEF Resolves
<1>3. /\ \A i \in 1 .. Len(base) :
            r[i] = IF Bears(base, "result", base[i].id) THEN base[i] ELSE Without(base[i], "call")
      /\ \A i \in 1 .. Len(s) :
            w[i] = IF Bears(s, "result", s[i].id) THEN s[i] ELSE Without(s[i], "call")
  <2>1. DOMAIN base = 1 .. Len(base) /\ DOMAIN s = 1 .. Len(s)
    BY <1>1
  <2>2. /\ \A i \in 1 .. Len(base) :
              r[i] = IF base[i].id \in Ids(base, "result") THEN base[i] ELSE Without(base[i], "call")
        /\ \A i \in 1 .. Len(s) :
              w[i] = IF s[i].id \in Ids(s, "result") THEN s[i] ELSE Without(s[i], "call")
    BY <2>1 DEF Resolved
  <2>3. QED
    BY <1>1, <2>2, IdsBears
<1>4. /\ \A i \in 1 .. Len(base) : base[i] \in Message
      /\ \A i \in 1 .. Len(new) : new[i] \in Message
  OBVIOUS
<1> HIDE DEF r, w
<1>5. ASSUME NEW i \in 1 .. Len(base)
      PROVE  w[i] = r[i]
  <2>1. s[i] = base[i] /\ i \in 1 .. Len(s)
    BY <1>1 DEF Joined
  <2>2. CASE Has(base[i], "call")
    <3>1. ~ Plain(base[i])
      BY <2>2 DEF Plain
    <3>2. ~ Bears(new, "result", base[i].id)
      BY <3>1, ApartBears
    <3>3. Bears(s, "result", base[i].id) <=> Bears(base, "result", base[i].id)
      BY <1>1, <3>2, BearsJoined
    <3>4. QED
      BY <1>3, <2>1, <3>3
  <2>3. CASE ~ Has(base[i], "call")
    <3>1. Without(base[i], "call") = base[i]
      BY <1>4, <2>3, WithoutFacts
    <3>2. QED
      BY <1>3, <2>1, <3>1
  <2>4. QED
    BY <2>2, <2>3
<1>6. ASSUME NEW k \in 1 .. Len(new)
      PROVE  w[Len(base) + k] = new[k]
  <2>1. s[Len(base) + k] = new[k] /\ Len(base) + k \in 1 .. Len(s)
    BY <1>1 DEF Joined
  <2>2. CASE Has(new[k], "call")
    <3>1. Bears(new, "result", new[k].id)
      BY <2>2, MatchedBears
    <3>2. Bears(s, "result", new[k].id)
      BY <1>1, <3>1, BearsJoined
    <3>3. QED
      BY <1>3, <2>1, <3>2
  <2>3. CASE ~ Has(new[k], "call")
    <3>1. Without(new[k], "call") = new[k]
      BY <1>4, <2>3, WithoutFacts
    <3>2. QED
      BY <1>3, <2>1, <3>1
  <2>4. QED
    BY <2>2, <2>3
<1>7. Joined(w, r, new)
  BY <1>1, <1>2, <1>5, <1>6 DEF Joined
<1>8. w = r \o new
  BY <1>2, <1>7, SameSequence
<1>9. QED
  BY <1>8 DEF w, r, s

LEMMA UnparentedGrows ==
    ASSUME NEW base \in Seq(Message), NEW new \in Seq(Message), Matched(new), Apart(base, new)
    PROVE  Unparented(base \o new) = Unparented(base) \o new
<1> DEFINE s == base \o new
           r == Unparented(base)
           w == Unparented(s)
<1>1. s \in Seq(Message) /\ Joined(s, base, new)
  BY ConcatJoins
<1> HIDE DEF s
<1>2. /\ r \in Seq(Message) /\ Len(r) = Len(base)
      /\ w \in Seq(Message) /\ Len(w) = Len(s)
  BY <1>1, UnparentedIs DEF Parents
<1>3. /\ \A i \in 1 .. Len(base) :
            r[i] = IF Bears(base, "call", base[i].id) THEN base[i] ELSE Without(base[i], "result")
      /\ \A i \in 1 .. Len(s) :
            w[i] = IF Bears(s, "call", s[i].id) THEN s[i] ELSE Without(s[i], "result")
  <2>1. DOMAIN base = 1 .. Len(base) /\ DOMAIN s = 1 .. Len(s)
    BY <1>1
  <2>2. /\ \A i \in 1 .. Len(base) :
              r[i] = IF base[i].id \in Ids(base, "call") THEN base[i] ELSE Without(base[i], "result")
        /\ \A i \in 1 .. Len(s) :
              w[i] = IF s[i].id \in Ids(s, "call") THEN s[i] ELSE Without(s[i], "result")
    BY <2>1 DEF Unparented
  <2>3. QED
    BY <1>1, <2>2, IdsBears
<1>4. /\ \A i \in 1 .. Len(base) : base[i] \in Message
      /\ \A i \in 1 .. Len(new) : new[i] \in Message
  OBVIOUS
<1> HIDE DEF r, w
<1>5. ASSUME NEW i \in 1 .. Len(base)
      PROVE  w[i] = r[i]
  <2>1. s[i] = base[i] /\ i \in 1 .. Len(s)
    BY <1>1 DEF Joined
  <2>2. CASE Has(base[i], "result")
    <3>1. ~ Plain(base[i])
      BY <2>2 DEF Plain
    <3>2. ~ Bears(new, "call", base[i].id)
      BY <3>1, ApartBears
    <3>3. Bears(s, "call", base[i].id) <=> Bears(base, "call", base[i].id)
      BY <1>1, <3>2, BearsJoined
    <3>4. QED
      BY <1>3, <2>1, <3>3
  <2>3. CASE ~ Has(base[i], "result")
    <3>1. Without(base[i], "result") = base[i]
      BY <1>4, <2>3, WithoutFacts
    <3>2. QED
      BY <1>3, <2>1, <3>1
  <2>4. QED
    BY <2>2, <2>3
<1>6. ASSUME NEW k \in 1 .. Len(new)
      PROVE  w[Len(base) + k] = new[k]
  <2>1. s[Len(base) + k] = new[k] /\ Len(base) + k \in 1 .. Len(s)
    BY <1>1 DEF Joined
  <2>2. CASE Has(new[k], "result")
    <3>1. Bears(new, "call", new[k].id)
      BY <2>2, MatchedBears
    <3>2. Bears(s, "call", new[k].id)
      BY <1>1, <3>1, BearsJoined
    <3>3. QED
      BY <1>3, <2>1, <3>2
  <2>3. CASE ~ Has(new[k], "result")
    <3>1. Without(new[k], "result") = new[k]
      BY <1>4, <2>3, WithoutFacts
    <3>2. QED
      BY <1>3, <2>1, <3>1
  <2>4. QED
    BY <2>2, <2>3
<1>7. Joined(w, r, new)
  BY <1>1, <1>2, <1>5, <1>6 DEF Joined
<1>8. w = r \o new
  BY <1>2, <1>7, SameSequence
<1>9. QED
  BY <1>8 DEF w, r, s

\* The repair of the whole is that of the base with the rest after it.
LEMMA ParentedGrows ==
    ASSUME NEW base \in Seq(Message), NEW new \in Seq(Full), Matched(new), Apart(base, new)
    PROVE  Parented(Resolved(base \o new)) = Parented(Resolved(base)) \o new
<1> DEFINE r == Resolved(base)
           u == Unparented(r)
<1>0. new \in Seq(Message)
  BY DEF Full
<1>1. Resolves(base, r)
  BY ResolvedIs
<1>2. Apart(r, new)
  BY <1>1 DEF Apart, Resolves, Plain
<1>3. r \in Seq(Message)
  BY <1>1 DEF Resolves
<1>4. Resolved(base \o new) = r \o new
  BY <1>0, ResolvedGrows
<1> HIDE DEF r
<1>5. Unparented(r \o new) = u \o new
  BY <1>0, <1>2, <1>3, UnparentedGrows
<1>6. u \in Seq(Message)
  BY <1>3, UnparentedIs DEF Parents
<1> HIDE DEF u
<1>7. Those(u \o new, Full) = Those(u, Full) \o Those(new, Full)
  BY <1>0, <1>6, ThoseConcat
<1>8. Those(new, Full) = new
  BY ThoseAll
<1>9. Parented(r \o new) = Those(u \o new, Full) /\ Parented(r) = Those(u, Full)
  BY <1>5, ParentedIs DEF NonEmpty, Full, u
<1>10. QED
  BY <1>4, <1>7, <1>8, <1>9 DEF r

Shown == {m \in Message : ~ Has(m, "stub")}

LEMMA StubsLeft ==
    ASSUME NEW s \in Seq(Full)
    PROVE  NoStubs(Headed(s)) = NoStubs(s) /\ NoStubs(Tailed(s)) = NoStubs(s)
<1>0. User({"stub"}) = Stub("user") /\ Assistant({"stub"}) = Stub("assistant")
  BY DEF User, Assistant, Stub
<1>1. ASSUME NEW role \in {"user", "assistant"}
      PROVE  Those(<<Stub(role)>>, Shown) = <<>>
  <2>1. <<>> \in Seq(Full) /\ Append(<<>>, Stub(role)) = <<Stub(role)>>
    OBVIOUS
  <2>2. Stub(role) \notin Shown /\ Stub(role) \in Full
    BY StubFacts DEF Shown
  <2>3. Those(Append(<<>>, Stub(role)), Shown) = Those(<<>>, Shown)
    BY <2>1, <2>2, ThoseAppend
  <2>4. QED
    BY <2>1, <2>3, ThoseEmpty
<1>2. NoStubs(s) = Those(s, Shown) /\ Those(s, Shown) \in Seq(Full)
  BY ThoseType DEF NoStubs, Shown
<1>3. Those(<<Stub("user")>> \o s, Shown) = Those(s, Shown)
  <2>1. <<Stub("user")>> \in Seq(Full)
    BY StubFacts
  <2>2. Those(<<Stub("user")>> \o s, Shown) = Those(<<Stub("user")>>, Shown) \o Those(s, Shown)
    BY <2>1, ThoseConcat
  <2>3. <<>> \o Those(s, Shown) = Those(s, Shown)
    BY <1>2, ConcatEmptySeq
  <2>4. QED
    BY <1>1, <2>2, <2>3
<1>4. Those(Append(s, Stub("assistant")), Shown) = Those(s, Shown)
  <2>1. Stub("assistant") \in Full /\ Stub("assistant") \notin Shown
    BY StubFacts DEF Shown
  <2>2. QED
    BY <2>1, ThoseAppend
<1>5. Headed(s) = s \/ Headed(s) = <<Stub("user")>> \o s
  BY <1>0 DEF Headed
<1>6. Tailed(s) = s \/ Tailed(s) = Append(s, Stub("assistant"))
  BY <1>0 DEF Tailed
<1>7. NoStubs(Headed(s)) = Those(Headed(s), Shown) /\ NoStubs(Tailed(s)) = Those(Tailed(s), Shown)
  BY DEF NoStubs, Shown
<1>8. QED
  BY <1>2, <1>3, <1>4, <1>5, <1>6, <1>7

LEMMA RepairedShown ==
    ASSUME NEW s \in Seq(Message), Ordered(s)
    PROVE  NoStubs(Repaired(s)) = NoStubs(Parented(Resolved(s)))
<1> DEFINE p == Parented(Resolved(s))
<1>1. p \in Seq(Full) /\ Matched(p)
  <2>1. Resolves(s, Resolved(s))
    BY ResolvedIs
  <2>2. Parents(Resolved(s), Unparented(Resolved(s)))
    BY <2>1, UnparentedIs DEF Resolves
  <2>3. Matched(Unparented(Resolved(s))) /\ Unparented(Resolved(s)) \in Seq(Message)
    BY <2>1, <2>2, RepairMatches DEF Parents
  <2>4. QED
    BY <2>3, ParentedIs, NonEmptyFacts
<1>2. Repaired(s) = Tailed(Headed(p))
  BY DEF Repaired
<1> HIDE DEF p
<1>3. Headed(p) \in Seq(Full)
  BY <1>1, HeadedFacts
<1>4. QED
  BY <1>1, <1>2, <1>3, StubsLeft DEF p

\* The model is shown the same before and after the next repair.
LEMMA ShownGrows ==
    ASSUME NEW base \in Seq(Message), Ordered(base), NEW new \in Seq(Full), Matched(new),
           Apart(base, new), Ordered(base \o new)
    PROVE  NoStubs(Repaired(base \o new)) = NoStubs(Repaired(base) \o new)
<1> DEFINE p == Parented(Resolved(base))
<1>1. new \in Seq(Message) /\ base \o new \in Seq(Message)
  BY ConcatProperties DEF Full
<1>2. NoStubs(Repaired(base \o new)) = NoStubs(p \o new)
  BY <1>1, RepairedShown, ParentedGrows
<1>3. p \in Seq(Full) /\ Repaired(base) \in Seq(Full)
  BY RepairedFacts
<1>4. NoStubs(Repaired(base)) = NoStubs(p)
  BY RepairedShown
<1> HIDE DEF p
<1>5. Those(p \o new, Shown) = Those(p, Shown) \o Those(new, Shown)
  BY <1>3, ThoseConcat
<1>6. Those(Repaired(base) \o new, Shown) = Those(Repaired(base), Shown) \o Those(new, Shown)
  BY <1>3, ThoseConcat
<1>7. \A t : NoStubs(t) = Those(t, Shown)
  BY DEF NoStubs, Shown
<1>8. QED
  BY <1>2, <1>4, <1>5, <1>6, <1>7

-----------------------------------------------------------------------------
(***************************************************************************)
(* Order                                                                   *)
(***************************************************************************)
LEMMA OrderedJoined ==
    ASSUME NEW a \in Seq(Message), NEW b \in Seq(Message), Ordered(a), Ordered(b), Apart(a, b)
    PROVE  Ordered(a \o b)
<1> DEFINE s == a \o b
<1>1. Joined(s, a, b) /\ s \in Seq(Message)
  BY ConcatJoins
<1> HIDE DEF s
<1>2. DOMAIN s = 1 .. Len(s) /\ DOMAIN a = 1 .. Len(a) /\ DOMAIN b = 1 .. Len(b)
  BY <1>1
<1>3. SUFFICES ASSUME NEW i \in 1 .. Len(s), NEW j \in 1 .. Len(s),
                      Has(s[i], "call"), Has(s[j], "result"), s[i].id = s[j].id
               PROVE  Answers(s, i, j)
  BY <1>2 DEF Ordered, s
<1>4. ASSUME NEW x \in 1 .. Len(s)
      PROVE  \/ x \in 1 .. Len(a) /\ s[x] = a[x]
             \/ \E k \in 1 .. Len(b) : x = Len(a) + k /\ s[x] = b[k]
  BY <1>1, JoinedPlaces
<1>5. CASE i \in 1 .. Len(a) /\ s[i] = a[i] /\ j \in 1 .. Len(a) /\ s[j] = a[j]
  <2>1. Answers(a, i, j)
    BY <1>2, <1>3, <1>5 DEF Ordered
  <2>2. QED
    BY <1>1, <1>5, <2>1, AnswersLeft
<1>6. CASE /\ \E k \in 1 .. Len(b) : i = Len(a) + k /\ s[i] = b[k]
           /\ \E k \in 1 .. Len(b) : j = Len(a) + k /\ s[j] = b[k]
  <2>1. PICK k \in 1 .. Len(b) : i = Len(a) + k /\ s[i] = b[k]
    BY <1>6
  <2>2. PICK l \in 1 .. Len(b) : j = Len(a) + l /\ s[j] = b[l]
    BY <1>6
  <2>3. Answers(b, k, l)
    BY <1>2, <1>3, <2>1, <2>2 DEF Ordered
  <2>4. QED
    BY <1>1, <2>1, <2>2, <2>3, AnswersRight
<1>7. CASE i \in 1 .. Len(a) /\ s[i] = a[i] /\ \E k \in 1 .. Len(b) : j = Len(a) + k /\ s[j] = b[k]
  BY <1>3, <1>7 DEF Apart, Plain
<1>8. CASE j \in 1 .. Len(a) /\ s[j] = a[j] /\ \E k \in 1 .. Len(b) : i = Len(a) + k /\ s[i] = b[k]
  BY <1>3, <1>8 DEF Apart, Plain
<1>9. QED
  BY <1>4, <1>5, <1>6, <1>7, <1>8

LEMMA OrderedPrefix ==
    ASSUME NEW s \in Seq(Message), Ordered(s), NEW n \in 0 .. Len(s)
    PROVE  Ordered(SubSeq(s, 1, n)) /\ SubSeq(s, 1, n) \in Seq(Message)
<1> DEFINE t == SubSeq(s, 1, n)
<1>1. t \in Seq(Message) /\ Len(t) = n /\ \A i \in 1 .. n : t[i] = s[i] /\ i \in 1 .. Len(s)
  OBVIOUS
<1> HIDE DEF t
<1>2. DOMAIN t = 1 .. n /\ DOMAIN s = 1 .. Len(s)
  BY <1>1
<1>3. SUFFICES ASSUME NEW i \in 1 .. n, NEW j \in 1 .. n,
                      Has(t[i], "call"), Has(t[j], "result"), t[i].id = t[j].id
               PROVE  Answers(t, i, j)
  BY <1>1, <1>2 DEF Ordered, t
<1>4. Answers(s, i, j)
  BY <1>1, <1>2, <1>3 DEF Ordered
<1>5. \A k \in (i + 1) .. j : k \in 1 .. n
  OBVIOUS
<1>6. QED
  BY <1>1, <1>3, <1>4, <1>5 DEF Answers

\* Messages without calls and results disturb nothing.
LEMMA PlainFacts ==
    ASSUME NEW m \in Seq(Message), \A i \in 1 .. Len(m) : Plain(m[i])
    PROVE  Matched(m) /\ Ordered(m) /\ \A s : Apart(s, m)
<1>1. DOMAIN m = 1 .. Len(m)
  OBVIOUS
<1>2. QED
  BY <1>1 DEF Matched, Ordered, Apart, Plain

-----------------------------------------------------------------------------
(***************************************************************************)
(* Requests                                                                *)
(***************************************************************************)
\* A transcript the API takes, in the parts the proofs keep.
Valid(s) == s \in Seq(Full) /\ s # <<>> /\ s[1].role = "user" /\ Matched(s)

LEMMA ValidAccepted ==
    ASSUME NEW s, Valid(s)
    PROVE  Accepted(s) /\ s \in Seq(Message)
<1>1. s \in Seq(Message)
  BY DEF Valid, Full
<1>2. QED
  BY <1>1, AcceptedParts DEF Valid

\* A message that says something and neither calls nor answers.
Speaks(m) == m \in Full /\ Plain(m)

LEMMA SpokenFacts == Speaks(Text) /\ Speaks(Marker) /\ Speaks(Assistant({"text"}))
                     /\ Text.role = "user" /\ Marker.role = "user"
                     /\ Assistant({"text"}).role = "assistant"
<1>1. MaxMessages \in Nat
  BY TranscriptAssumption
<1>2. 0 \in 0 .. MaxMessages
  BY <1>1
<1>3. Text = [role |-> "user", parts |-> {"text"}, id |-> 0]
  BY DEF Text, User
<1>4. Marker = [role |-> "user", parts |-> {"marker"}, id |-> 0]
  BY DEF Marker, User
<1>5. Assistant({"text"}) = [role |-> "assistant", parts |-> {"text"}, id |-> 0]
  BY DEF Assistant
<1>6. {"text"} \in SUBSET Parts /\ {"marker"} \in SUBSET Parts
  BY DEF Parts
<1>7. Speaks(Text) /\ Text.role = "user"
  BY <1>2, <1>3, <1>6 DEF Speaks, Full, Message, Plain, Has
<1>8. Speaks(Marker) /\ Marker.role = "user"
  BY <1>2, <1>4, <1>6 DEF Speaks, Full, Message, Plain, Has
<1>9. Speaks(Assistant({"text"})) /\ Assistant({"text"}).role = "assistant"
  BY <1>2, <1>5, <1>6 DEF Speaks, Full, Message, Plain, Has
<1>10. QED
  BY <1>7, <1>8, <1>9

LEMMA ValidAppend ==
    ASSUME NEW s, Valid(s), NEW m, Speaks(m)
    PROVE  /\ Valid(Append(s, m))
           /\ Len(Append(s, m)) = Len(s) + 1 /\ Append(s, m)[Len(s) + 1] = m
           /\ \A i \in 1 .. Len(s) : Append(s, m)[i] = s[i]
<1>1. s \in Seq(Full) /\ m \in Full /\ s # <<>>
  BY DEF Valid, Speaks
<1>2. <<m>> \in Seq(Full) /\ Len(<<m>>) = 1 /\ <<m>>[1] = m
  BY <1>1
<1>3. Matched(<<m>>)
  BY <1>2, MatchedPlain DEF Speaks
<1>4. Append(s, m) = s \o <<m>>
  BY <1>1, AppendIsConcat
<1>5. Append(s, m) \in Seq(Full) /\ Joined(Append(s, m), s, <<m>>)
  BY <1>1, <1>2, <1>4, ConcatJoins
<1>6. Matched(Append(s, m))
  BY <1>3, <1>5, MatchedJoined DEF Valid
<1>7. 1 \in 1 .. Len(s)
  BY <1>1
<1>8. /\ Len(Append(s, m)) = Len(s) + 1 /\ Append(s, m)[Len(s) + 1] = m
      /\ \A i \in 1 .. Len(s) : Append(s, m)[i] = s[i]
  BY <1>1
<1>9. Append(s, m) # <<>> /\ Append(s, m)[1].role = "user"
  BY <1>1, <1>7, <1>8 DEF Valid
<1>10. QED
  BY <1>5, <1>6, <1>8, <1>9 DEF Valid

\* The retry of a request closes its open turn and is valid.
LEMMA RetryValid ==
    ASSUME NEW s, Valid(s)
    PROVE  Valid(RetryRequest(s)) /\ ~ OpenTurn(RetryRequest(s))
<1>1. s \in Seq(Full) /\ Len(s) \in Nat
  BY DEF Valid
<1>2. CASE OpenTurn(s)
  <2> DEFINE a == Append(s, Assistant({"text"}))
             b == Append(a, Text)
  <2>1. RetryRequest(s) = b
    BY <1>2 DEF RetryRequest
  <2>2. Valid(a) /\ Len(a) = Len(s) + 1 /\ a[Len(s) + 1] = Assistant({"text"})
    BY SpokenFacts, ValidAppend
  <2> HIDE DEF a
  <2>3. /\ Valid(b) /\ Len(b) = Len(a) + 1 /\ b[Len(a) + 1] = Text
        /\ \A i \in 1 .. Len(a) : b[i] = a[i]
    BY <2>2, SpokenFacts, ValidAppend
  <2> HIDE DEF b
  <2>4. Len(a) = Len(s) + 1 /\ Len(b) = Len(s) + 2 /\ b[Len(s) + 2] = Text
    BY <1>1, <2>2, <2>3
  <2>5. b[Len(s) + 1] = Assistant({"text"})
    BY <1>1, <2>2, <2>3, <2>4
  <2>6. DOMAIN b = 1 .. Len(b)
    BY <2>3 DEF Valid
  <2>7. ASSUME NEW i \in DOMAIN b, Has(b[i], "result"), \A j \in i .. Len(b) : b[j].role = "user"
        PROVE  FALSE
    <3>1. CASE i <= Len(s) + 1
      <4>1. Len(s) + 1 \in i .. Len(b)
        BY <1>1, <2>4, <2>6, <3>1
      <4>2. b[Len(s) + 1].role = "user"
        BY <2>7, <4>1
      <4>3. QED
        BY <2>5, <4>2, SpokenFacts
    <3>2. CASE i = Len(s) + 2
      BY <2>4, <2>7, <3>2, SpokenFacts DEF Speaks, Plain
    <3>3. QED
      BY <1>1, <2>4, <2>6, <3>1, <3>2
  <2>8. ~ OpenTurn(b)
    BY <2>7 DEF OpenTurn
  <2>9. QED
    BY <2>1, <2>3, <2>8
<1>3. CASE ~ OpenTurn(s)
  <2> DEFINE b == Append(s, Text)
  <2>1. RetryRequest(s) = b
    BY <1>3 DEF RetryRequest
  <2>2. /\ Valid(b) /\ Len(b) = Len(s) + 1 /\ b[Len(s) + 1] = Text
        /\ \A i \in 1 .. Len(s) : b[i] = s[i]
    BY SpokenFacts, ValidAppend
  <2> HIDE DEF b
  <2>3. DOMAIN b = 1 .. Len(s) + 1 /\ DOMAIN s = 1 .. Len(s)
    BY <1>1, <2>2 DEF Valid
  <2>4. ASSUME NEW i \in DOMAIN b, Has(b[i], "result"), \A j \in i .. Len(b) : b[j].role = "user"
        PROVE  FALSE
    <3>1. i # Len(s) + 1
      BY <2>2, <2>4, SpokenFacts DEF Speaks, Plain
    <3>2. i \in 1 .. Len(s)
      BY <1>1, <2>3, <3>1
    <3>3. \A j \in i .. Len(s) : j \in i .. Len(b) /\ j \in 1 .. Len(s)
      BY <1>1, <2>2, <3>2
    <3>4. \A j \in i .. Len(s) : s[j].role = "user"
      BY <2>2, <2>4, <3>3
    <3>5. Has(s[i], "result")
      BY <2>2, <2>4, <3>2
    <3>6. QED
      BY <1>3, <2>3, <3>2, <3>4, <3>5 DEF OpenTurn
  <2>5. ~ OpenTurn(b)
    BY <2>4 DEF OpenTurn
  <2>6. QED
    BY <2>1, <2>2, <2>5
<1>4. QED
  BY <1>2, <1>3

\* Messages with the same roles, IDs, calls and results are matched alike.
LEMMA MatchedAlike ==
    ASSUME NEW s, NEW t, Matched(s), Len(t) = Len(s),
           \A i \in 1 .. Len(s) :
              /\ t[i].role = s[i].role /\ t[i].id = s[i].id
              /\ Has(t[i], "call") <=> Has(s[i], "call")
              /\ Has(t[i], "result") <=> Has(s[i], "result")
    PROVE  Matched(t)
<1>1. ASSUME NEW i \in 1 .. Len(s), NEW j \in 1 .. Len(s), Answers(s, i, j)
      PROVE  Answers(t, i, j)
  <2>1. \A k \in (i + 1) .. j : k \in 1 .. Len(s)
    BY <1>1
  <2>2. QED
    BY <1>1, <2>1 DEF Answers
<1>2. QED
  BY <1>1 DEF Matched

\* What follows a place no answer reaches across is matched.
LEMMA MatchedAfter ==
    ASSUME NEW s, NEW t, NEW n \in Nat, Matched(s), Len(s) \in Nat, n <= Len(s), Len(t) = Len(s) - n,
           \A k \in 1 .. Len(t) : t[k] = s[n + k],
           \A i \in 1 .. n, j \in (n + 1) .. Len(s) : ~ Answers(s, i, j)
    PROVE  Matched(t)
<1>1. ASSUME NEW i \in 1 .. Len(t), NEW j \in 1 .. Len(s), Answers(s, n + i, j)
      PROVE  j - n \in 1 .. Len(t) /\ Answers(t, i, j - n)
  <2>1. j - n \in 1 .. Len(t) /\ n + (j - n) = j
    BY <1>1 DEF Answers
  <2>2. ASSUME NEW k \in (i + 1) .. (j - n)
        PROVE  t[k].role = "user"
    <3>1. k \in 1 .. Len(t) /\ n + k \in (n + i + 1) .. j
      BY <2>1
    <3>2. QED
      BY <1>1, <3>1 DEF Answers
  <2>3. t[i] = s[n + i] /\ t[j - n] = s[j] /\ i < j - n
    BY <1>1, <2>1 DEF Answers
  <2>4. QED
    BY <1>1, <2>1, <2>2, <2>3 DEF Answers
<1>2. ASSUME NEW i \in 1 .. Len(s), NEW j \in 1 .. Len(t), Answers(s, i, n + j)
      PROVE  i - n \in 1 .. Len(t) /\ Answers(t, i - n, j)
  <2>0. n + j \in (n + 1) .. Len(s)
    OBVIOUS
  <2>1. i \notin 1 .. n
    BY <1>2, <2>0
  <2>2. i - n \in 1 .. Len(t) /\ n + (i - n) = i
    BY <1>2, <2>0, <2>1 DEF Answers
  <2>3. Answers(s, n + (i - n), n + j) /\ n + j \in 1 .. Len(s) /\ (n + j) - n = j
    BY <1>2, <2>0, <2>2
  <2>4. (n + j) - n \in 1 .. Len(t) /\ Answers(t, i - n, (n + j) - n)
    BY <1>1, <2>2, <2>3
  <2>5. QED
    BY <2>2, <2>3, <2>4
<1>3. ASSUME NEW k \in 1 .. Len(t), Has(t[k], "call")
      PROVE  \E j \in 1 .. Len(t) : Answers(t, k, j)
  <2>1. n + k \in 1 .. Len(s) /\ t[k] = s[n + k]
    OBVIOUS
  <2>2. PICK j \in 1 .. Len(s) : Answers(s, n + k, j)
    BY <1>3, <2>1 DEF Matched
  <2>3. QED
    BY <1>1, <2>2
<1>4. ASSUME NEW k \in 1 .. Len(t), Has(t[k], "result")
      PROVE  \E j \in 1 .. Len(t) : Answers(t, j, k)
  <2>1. n + k \in 1 .. Len(s) /\ t[k] = s[n + k]
    OBVIOUS
  <2>2. PICK j \in 1 .. Len(s) : Answers(s, j, n + k)
    BY <1>4, <2>1 DEF Matched
  <2>3. QED
    BY <1>2, <2>2
<1>5. QED
  BY <1>3, <1>4 DEF Matched

\* What is asked again, its oldest rounds dropped, is still valid.
LEMMA DroppedValid ==
    ASSUME NEW s, Valid(s), NEW t \in Dropped(s)
    PROVE  Valid(t)
<1> DEFINE rest == IF s # <<>> /\ s[1] = Marker THEN Tail(s) ELSE s
           st == [i \in DOMAIN rest |-> Without(rest[i], "thinking")]
           bare == NonEmpty(st)
<1>0. s \in Seq(Full) /\ Matched(s) /\ s # <<>>
  BY DEF Valid
<1>1. rest \in Seq(Full) /\ Matched(rest)
  <2>1. CASE s[1] = Marker
    <3>1. rest = Tail(s)
      BY <1>0, <2>1
    <3>2. /\ Tail(s) \in Seq(Full) /\ Len(Tail(s)) = Len(s) - 1 /\ 1 <= Len(s) /\ Len(s) \in Nat
          /\ \A k \in 1 .. Len(Tail(s)) : Tail(s)[k] = s[1 + k]
      <4>1. Tail(s) \in Seq(Full) /\ Len(Tail(s)) = Len(s) - 1 /\ 1 <= Len(s) /\ Len(s) \in Nat
        BY <1>0
      <4>2. \A k \in 1 .. Len(Tail(s)) : Tail(s)[k] = s[k + 1]
        BY <1>0, HeadTailProperties
      <4>3. QED
        BY <4>1, <4>2
    <3>3. \A i \in 1 .. 1, j \in (1 + 1) .. Len(s) : ~ Answers(s, i, j)
      BY <2>1, SpokenFacts DEF Answers, Speaks, Plain
    <3>4. Matched(Tail(s))
      BY <1>0, <3>2, <3>3, MatchedAfter
    <3>5. QED
      BY <3>1, <3>2, <3>4
  <2>2. CASE s[1] # Marker
    BY <1>0, <2>2
  <2>3. QED
    BY <2>1, <2>2
<1>2. \E cut \in {i \in 2 .. Len(bare) : bare[i].role = "assistant"} :
         t = <<Marker>> \o SubSeq(bare, cut, Len(bare))
  BY DEF Dropped
<1> HIDE DEF rest
<1>3. /\ st \in Seq(Message) /\ Len(st) = Len(rest)
      /\ \A i \in 1 .. Len(rest) : st[i] = Without(rest[i], "thinking") /\ rest[i] \in Message
  <2>1. DOMAIN rest = 1 .. Len(rest) /\ Len(rest) \in Nat /\ \A i \in 1 .. Len(rest) : rest[i] \in Message
    BY <1>1 DEF Full
  <2>2. \A i \in 1 .. Len(rest) : st[i] \in Message
    BY <2>1, WithoutFacts
  <2>3. st = [i \in 1 .. Len(rest) |-> Without(rest[i], "thinking")]
    BY <2>1
  <2>4. QED
    BY <2>1, <2>2, <2>3
<1> HIDE DEF st
<1>4. \A i \in 1 .. Len(rest) :
         /\ st[i].role = rest[i].role /\ st[i].id = rest[i].id
         /\ Has(st[i], "call") <=> Has(rest[i], "call")
         /\ Has(st[i], "result") <=> Has(rest[i], "result")
  BY <1>3, WithoutFacts DEF Has
<1>5. Matched(st)
  BY <1>1, <1>3, <1>4, MatchedAlike
<1>6. bare \in Seq(Full) /\ Matched(bare)
  BY <1>3, <1>5, NonEmptyFacts
<1> HIDE DEF bare
<1>7. PICK cut \in 2 .. Len(bare) :
         bare[cut].role = "assistant" /\ t = <<Marker>> \o SubSeq(bare, cut, Len(bare))
  BY <1>2
<1> DEFINE r == SubSeq(bare, cut, Len(bare))
<1>8. /\ r \in Seq(Full) /\ Len(r) = Len(bare) - (cut - 1)
      /\ \A k \in 1 .. Len(r) : r[k] = bare[(cut - 1) + k]
  BY <1>6
<1> HIDE DEF r
<1>9. Matched(r)
  <2>1. Len(bare) \in Nat /\ cut - 1 \in Nat /\ cut - 1 <= Len(bare)
    BY <1>6
  <2>2. ASSUME NEW i \in 1 .. (cut - 1), NEW j \in ((cut - 1) + 1) .. Len(bare), Answers(bare, i, j)
        PROVE  FALSE
    <3>1. cut \in (i + 1) .. j
      OBVIOUS
    <3>2. bare[cut].role = "user"
      BY <2>2, <3>1 DEF Answers
    <3>3. QED
      BY <1>7, <3>2
  <2>3. QED
    BY <1>6, <1>8, <2>1, <2>2, MatchedAfter
<1>10. <<Marker>> \in Seq(Full) /\ Len(<<Marker>>) = 1 /\ <<Marker>>[1] = Marker
  BY SpokenFacts DEF Speaks
<1>11. Matched(<<Marker>>)
  BY <1>10, SpokenFacts, MatchedPlain DEF Speaks
<1>12. t = <<Marker>> \o r
  BY <1>7 DEF r
<1>13. t \in Seq(Full) /\ Joined(t, <<Marker>>, r)
  BY <1>8, <1>10, <1>12, ConcatJoins
<1>14. Matched(t)
  BY <1>9, <1>11, <1>13, MatchedJoined
<1>15. t[1] = Marker /\ Len(t) >= 1
  BY <1>10, <1>13 DEF Joined
<1>16. QED
  BY <1>13, <1>14, <1>15, SpokenFacts DEF Valid

-----------------------------------------------------------------------------
(***************************************************************************)
(* What the process adds                                                   *)
(***************************************************************************)
\* The session holds `base` and what the process added to it, `new`; the
\* transcript holds the repair of `base` and the same `new`.
Grown(sv, lv, base, new) ==
    /\ base \in Seq(Message) /\ Ordered(base)
    /\ new \in Seq(Full) /\ Matched(new) /\ Apart(base, new)
    /\ sv = base \o new /\ lv = Repaired(base) \o new

\* A rollback point is the same place of `new` in both.
Rolls(st, base, new) ==
    \E k \in 0 .. Len(new) :
        /\ st.live = Len(Repaired(base)) + k /\ st.saved = Len(base) + k
        /\ Matched(SubSeq(new, 1, k))

InTurn == {"reply", "midturn"}

Sound(sv, lv, st, w) ==
    \E base, new : Grown(sv, lv, base, new) /\ (w \in InTurn => Rolls(st, base, new))

LEMMA GrownTypes ==
    ASSUME NEW sv, NEW lv, NEW base, NEW new, Grown(sv, lv, base, new)
    PROVE  /\ sv \in Seq(Message) /\ lv \in Seq(Full) /\ Matched(lv)
           /\ new \in Seq(Message) /\ Repaired(base) \in Seq(Full)
           /\ Joined(sv, base, new) /\ Joined(lv, Repaired(base), new)
<1>1. Repaired(base) \in Seq(Full) /\ Matched(Repaired(base))
  BY RepairedFacts DEF Grown
<1>2. new \in Seq(Message) /\ new \in Seq(Full) /\ base \in Seq(Message) /\ Matched(new)
  BY DEF Grown, Full
<1>3. sv \in Seq(Message) /\ Joined(sv, base, new)
  BY <1>2, ConcatJoins DEF Grown
<1>4. lv \in Seq(Full) /\ Joined(lv, Repaired(base), new)
  BY <1>1, <1>2, ConcatJoins DEF Grown
<1>5. Matched(lv)
  BY <1>1, <1>2, <1>4, MatchedJoined
<1>6. QED
  BY <1>1, <1>2, <1>3, <1>4, <1>5

LEMMA ApartParts ==
    ASSUME NEW s, NEW a, NEW b, Joined(s, a, b), NEW m
    PROVE  /\ Apart(s, m) <=> Apart(a, m) /\ Apart(b, m)
           /\ Apart(m, s) <=> Apart(m, a) /\ Apart(m, b)
<1>1. \A i \in 1 .. Len(a) : i \in 1 .. Len(s) /\ s[i] = a[i]
  BY DEF Joined
<1>2. \A i \in 1 .. Len(b) : Len(a) + i \in 1 .. Len(s) /\ s[Len(a) + i] = b[i]
  BY DEF Joined
<1>3. ASSUME NEW i \in 1 .. Len(s)
      PROVE  \/ i \in 1 .. Len(a) /\ s[i] = a[i]
             \/ \E k \in 1 .. Len(b) : i = Len(a) + k /\ s[i] = b[k]
  BY JoinedPlaces
<1>4. ASSUME Apart(s, m)
      PROVE  Apart(a, m) /\ Apart(b, m)
  BY <1>1, <1>2, <1>4 DEF Apart
<1>5. ASSUME Apart(a, m), Apart(b, m)
      PROVE  Apart(s, m)
  <2>1. SUFFICES ASSUME NEW i \in 1 .. Len(s), NEW j \in 1 .. Len(m), ~ Plain(s[i]), ~ Plain(m[j])
                 PROVE  s[i].id # m[j].id
    BY DEF Apart
  <2>2. CASE i \in 1 .. Len(a) /\ s[i] = a[i]
    BY <1>5, <2>1, <2>2 DEF Apart
  <2>3. CASE \E k \in 1 .. Len(b) : i = Len(a) + k /\ s[i] = b[k]
    BY <1>5, <2>1, <2>3 DEF Apart
  <2>4. QED
    BY <1>3, <2>2, <2>3
<1>6. ASSUME Apart(m, s)
      PROVE  Apart(m, a) /\ Apart(m, b)
  BY <1>1, <1>2, <1>6 DEF Apart
<1>7. ASSUME Apart(m, a), Apart(m, b)
      PROVE  Apart(m, s)
  BY <1>3, <1>7 DEF Apart
<1>8. QED
  BY <1>4, <1>5, <1>6, <1>7

LEMMA GrownMore ==
    ASSUME NEW sv, NEW lv, NEW base, NEW new, Grown(sv, lv, base, new),
           NEW m \in Seq(Full), Matched(m), Apart(sv, m)
    PROVE  /\ Grown(sv \o m, lv \o m, base, new \o m)
           /\ \A st : Rolls(st, base, new) => Rolls(st, base, new \o m)
           /\ Rolls([live |-> Len(lv), saved |-> Len(sv)], base, new \o m)
<1>0. /\ sv \in Seq(Message) /\ lv \in Seq(Full) /\ new \in Seq(Message)
      /\ Repaired(base) \in Seq(Full)
      /\ Joined(sv, base, new) /\ Joined(lv, Repaired(base), new)
  BY GrownTypes
<1>1. m \in Seq(Message) /\ new \in Seq(Full) /\ base \in Seq(Message)
  BY DEF Grown, Full
<1>2. new \o m \in Seq(Full) /\ Joined(new \o m, new, m)
  BY <1>1, ConcatJoins
<1>3. Matched(new \o m)
  BY <1>2, MatchedJoined DEF Grown
<1>4. Apart(base, m)
  BY <1>0, ApartParts
<1>5. Apart(base, new \o m)
  BY <1>2, <1>4, ApartParts DEF Grown
<1>6. sv \o m = base \o (new \o m)
  BY <1>0, <1>1, ConcatAssociative DEF Grown
<1>7. lv \o m = Repaired(base) \o (new \o m)
  BY <1>0, <1>1, ConcatAssociative DEF Grown
<1>8. Grown(sv \o m, lv \o m, base, new \o m)
  BY <1>2, <1>3, <1>5, <1>6, <1>7 DEF Grown
<1>9. ASSUME NEW k \in 0 .. Len(new)
      PROVE  k \in 0 .. Len(new \o m) /\ SubSeq(new \o m, 1, k) = SubSeq(new, 1, k)
  <2>1. k \in 0 .. Len(new \o m)
    BY <1>1, <1>2 DEF Joined
  <2>2. /\ SubSeq(new \o m, 1, k) \in Seq(Full) /\ Len(SubSeq(new \o m, 1, k)) = k
        /\ \A i \in 1 .. k : SubSeq(new \o m, 1, k)[i] = (new \o m)[i]
    BY <1>2, <2>1
  <2>3. /\ SubSeq(new, 1, k) \in Seq(Full) /\ Len(SubSeq(new, 1, k)) = k
        /\ \A i \in 1 .. k : SubSeq(new, 1, k)[i] = new[i] /\ i \in 1 .. Len(new)
    BY <1>1
  <2>4. \A i \in 1 .. k : SubSeq(new \o m, 1, k)[i] = SubSeq(new, 1, k)[i]
    BY <1>2, <2>2, <2>3 DEF Joined
  <2>5. SubSeq(new \o m, 1, k) = SubSeq(new, 1, k)
    BY <2>2, <2>3, <2>4, SeqEqual
  <2>6. QED
    BY <2>1, <2>5
<1>10. \A st : Rolls(st, base, new) => Rolls(st, base, new \o m)
  BY <1>9 DEF Rolls
<1>11. Rolls([live |-> Len(lv), saved |-> Len(sv)], base, new)
  <2>1. Len(new) \in 0 .. Len(new) /\ SubSeq(new, 1, Len(new)) = new
    BY <1>1
  <2>2. Len(lv) = Len(Repaired(base)) + Len(new) /\ Len(sv) = Len(base) + Len(new)
    BY <1>0 DEF Joined
  <2>3. Matched(SubSeq(new, 1, Len(new)))
    BY <2>1 DEF Grown
  <2>4. QED
    BY <2>1, <2>2, <2>3 DEF Rolls
<1>12. QED
  BY <1>8, <1>10, <1>11

\* A rollback cuts what was added in both at the same place.
LEMMA GrownBack ==
    ASSUME NEW sv, NEW lv, NEW base, NEW new, Grown(sv, lv, base, new), NEW st, Rolls(st, base, new)
    PROVE  \E cut : Grown(SubSeq(sv, 1, st.saved), SubSeq(lv, 1, st.live), base, cut)
<1>0. /\ sv \in Seq(Message) /\ lv \in Seq(Full) /\ new \in Seq(Message)
      /\ Repaired(base) \in Seq(Full)
      /\ Joined(sv, base, new) /\ Joined(lv, Repaired(base), new)
  BY GrownTypes
<1>1. new \in Seq(Full) /\ base \in Seq(Message)
  BY DEF Grown
<1>2. PICK k \in 0 .. Len(new) :
        /\ st.live = Len(Repaired(base)) + k /\ st.saved = Len(base) + k
        /\ Matched(SubSeq(new, 1, k))
  BY DEF Rolls
<1> DEFINE cut == SubSeq(new, 1, k)
<1>3. /\ cut \in Seq(Full) /\ Len(cut) = k
      /\ \A i \in 1 .. k : cut[i] = new[i] /\ i \in 1 .. Len(new)
  BY <1>1
<1>4. cut \in Seq(Message)
  BY <1>3 DEF Full
<1> HIDE DEF cut
<1>5. Apart(base, cut)
  BY <1>3 DEF Apart, Grown
<1>6. ASSUME NEW S, NEW s \in Seq(S), NEW a \in Seq(S), new \in Seq(S), cut \in Seq(S), Joined(s, a, new)
      PROVE  SubSeq(s, 1, Len(a) + k) = a \o cut
  <2> DEFINE t == SubSeq(s, 1, Len(a) + k)
  <2>1. Len(a) \in Nat /\ Len(a) + k \in 0 .. Len(s) /\ Len(s) = Len(a) + Len(new)
    BY <1>6 DEF Joined
  <2>2. t \in Seq(S) /\ Len(t) = Len(a) + k /\ \A i \in 1 .. Len(a) + k : t[i] = s[i]
    BY <2>1
  <2> HIDE DEF t
  <2>3. \A i \in 1 .. Len(a) : i \in 1 .. Len(a) + k
    BY <2>1
  <2>4. \A i \in 1 .. Len(a) : t[i] = a[i]
    BY <1>6, <2>2, <2>3 DEF Joined
  <2>5. \A i \in 1 .. k : Len(a) + i \in 1 .. Len(a) + k
    BY <2>1
  <2>6. \A i \in 1 .. k : t[Len(a) + i] = cut[i]
    BY <1>3, <1>6, <2>2, <2>5 DEF Joined
  <2>7. Joined(t, a, cut)
    BY <1>3, <2>1, <2>2, <2>4, <2>6 DEF Joined
  <2>8. t = a \o cut
    BY <1>6, <2>2, <2>7, SameSequence
  <2>9. QED
    BY <2>8 DEF t
<1>7. SubSeq(sv, 1, st.saved) = base \o cut
  BY <1>0, <1>1, <1>2, <1>4, <1>6
<1>8. SubSeq(lv, 1, st.live) = Repaired(base) \o cut
  BY <1>0, <1>1, <1>2, <1>3, <1>6
<1>9. Matched(cut)
  BY <1>2 DEF cut
<1>10. Grown(SubSeq(sv, 1, st.saved), SubSeq(lv, 1, st.live), base, cut)
  BY <1>3, <1>5, <1>7, <1>8, <1>9 DEF Grown
<1>11. QED
  BY <1>10

-----------------------------------------------------------------------------
(***************************************************************************)
(* Rounds                                                                  *)
(***************************************************************************)
LEMMA FreshIdIsFresh ==
    ASSUME saved \in Seq(Message), Len(saved) < MaxMessages
    PROVE  FreshId \in 1 .. MaxMessages /\ FreshId \notin Ids(saved, "call") \cup Ids(saved, "result")
<1> DEFINE used == Ids(saved, "call") \cup Ids(saved, "result")
           img == {saved[i].id : i \in 1 .. Len(saved)}
           f == [i \in 1 .. Len(saved) |-> saved[i].id]
<1>0. MaxMessages \in Nat /\ Len(saved) \in Nat /\ DOMAIN saved = 1 .. Len(saved)
  BY TranscriptAssumption
<1>1. used \subseteq img
  BY <1>0 DEF Ids
<1>2. f \in Surjection(1 .. Len(saved), img)
  <2>1. f \in [1 .. Len(saved) -> img]
    OBVIOUS
  <2>2. \A x \in img : \E i \in 1 .. Len(saved) : f[i] = x
    OBVIOUS
  <2> HIDE DEF f, img
  <2>3. QED
    BY <2>1, <2>2 DEF Surjection
<1>3. IsFiniteSet(1 .. Len(saved)) /\ Cardinality(1 .. Len(saved)) = Len(saved)
  <2>1. 1 \in Int /\ Len(saved) \in Int /\ Len(saved) \in Nat
    BY <1>0
  <2>2. /\ IsFiniteSet(1 .. Len(saved))
        /\ Cardinality(1 .. Len(saved)) = IF 1 > Len(saved) THEN 0 ELSE Len(saved) - 1 + 1
    BY <2>1, FS_Interval
  <2>3. QED
    BY <2>1, <2>2
<1> HIDE DEF f, img
<1>4. IsFiniteSet(img) /\ Cardinality(img) <= Len(saved)
  BY <1>2, <1>3, FS_Surjection
<1>5. ASSUME 1 .. MaxMessages \subseteq used
      PROVE  FALSE
  <2>1. 1 .. MaxMessages \in SUBSET img
    BY <1>1, <1>5
  <2>2. Cardinality(1 .. MaxMessages) <= Cardinality(img)
    BY <1>4, <2>1, FS_Subset
  <2>3. Cardinality(1 .. MaxMessages) = MaxMessages
    BY <1>0, FS_Interval
  <2>4. Cardinality(img) \in Nat
    BY <1>4, FS_CardinalityType
  <2>5. QED
    BY <1>0, <1>4, <2>2, <2>3, <2>4
<1>6. \E n \in 1 .. MaxMessages : n \notin used
  BY <1>5
<1>7. QED
  BY <1>6 DEF FreshId

LEMMA RoundFacts ==
    ASSUME saved \in Seq(Message), Len(saved) < MaxMessages,
           NEW blocks \in SUBSET {"thinking", "text"}, NEW remark \in {{}, {"text"}}
    PROVE  LET m == RoundOf(blocks, remark)
           IN  /\ m \in Seq(Full) /\ Len(m) = 2 /\ Matched(m) /\ Ordered(m) /\ Apart(saved, m)
<1> DEFINE c == [role |-> "assistant", parts |-> blocks \cup {"call"}, id |-> FreshId]
           e == [role |-> "user", parts |-> {"result"} \cup remark, id |-> FreshId]
           m == <<c, e>>
<1>0. FreshId \in 1 .. MaxMessages /\ FreshId \notin Ids(saved, "call") \cup Ids(saved, "result")
  BY FreshIdIsFresh
<1>1. FreshId \in 0 .. MaxMessages
  BY <1>0, TranscriptAssumption
<1>2. /\ c \in Full /\ Has(c, "call") /\ ~ Has(c, "result") /\ c.id = FreshId
  BY <1>1 DEF Full, Message, Parts, Has
<1>3. e \in Full /\ Has(e, "result") /\ ~ Has(e, "call") /\ e.id = FreshId /\ e.role = "user"
  BY <1>1 DEF Full, Message, Parts, Has
<1>4. RoundOf(blocks, remark) = m
  BY DEF RoundOf
<1> HIDE DEF c, e
<1>5. m \in Seq(Full) /\ Len(m) = 2 /\ m[1] = c /\ m[2] = e /\ DOMAIN m = 1 .. 2
  BY <1>2, <1>3
<1> HIDE DEF m
<1>6. \A i \in 1 .. 2 : i = 1 \/ i = 2
  OBVIOUS
<1>7. Answers(m, 1, 2)
  <2>1. \A k \in (1 + 1) .. 2 : k = 2
    OBVIOUS
  <2>2. QED
    BY <1>2, <1>3, <1>5, <2>1 DEF Answers
<1>8. Matched(m)
  <2>1. 1 \in 1 .. 2 /\ 2 \in 1 .. 2
    OBVIOUS
  <2>2. QED
    BY <1>2, <1>3, <1>5, <1>6, <1>7, <2>1 DEF Matched
<1>9. Ordered(m)
  BY <1>2, <1>3, <1>5, <1>6, <1>7 DEF Ordered
<1>10. Apart(saved, m)
  <2>1. \A j \in 1 .. Len(m) : m[j].id = FreshId
    BY <1>2, <1>3, <1>5, <1>6
  <2>2. DOMAIN saved = 1 .. Len(saved)
    OBVIOUS
  <2>3. \A i \in 1 .. Len(saved) : ~ Plain(saved[i]) => saved[i].id # FreshId
    BY <1>0, <2>2 DEF Plain, Ids
  <2>4. QED
    BY <2>1, <2>3 DEF Apart
<1>11. QED
  BY <1>4, <1>5, <1>8, <1>9, <1>10

\* What an action may add: whole rounds that are new to the session.
Adds(m) ==
    m \in Seq(Full) /\ Matched(m) /\ Ordered(m) /\ Apart(saved, m)

LEMMA AddsPlain ==
    ASSUME NEW m \in Seq(Full), \A i \in 1 .. Len(m) : Plain(m[i])
    PROVE  Adds(m)
<1>1. m \in Seq(Message)
  BY DEF Full
<1>2. QED
  BY <1>1, PlainFacts DEF Adds

LEMMA AddsConcat ==
    ASSUME NEW a, NEW b, Adds(a), b \in Seq(Full), \A i \in 1 .. Len(b) : Plain(b[i])
    PROVE  Adds(a \o b)
<1>1. Adds(b)
  BY AddsPlain
<1>2. a \in Seq(Message) /\ b \in Seq(Message)
  BY <1>1 DEF Adds, Full
<1>3. a \o b \in Seq(Full) /\ Joined(a \o b, a, b)
  BY <1>1, ConcatJoins DEF Adds
<1>4. Matched(a \o b) /\ Apart(saved, a \o b)
  BY <1>1, <1>3, MatchedJoined, ApartParts DEF Adds
<1>5. Apart(a, b)
  BY DEF Apart
<1>6. Ordered(a \o b)
  BY <1>1, <1>2, <1>5, OrderedJoined DEF Adds
<1>7. QED
  BY <1>3, <1>4, <1>6 DEF Adds

LEMMA AddsText ==
    /\ Adds(<<>>) /\ Adds(<<Text>>) /\ Adds(<<Text>> \o <<>>) /\ Adds(<<Text>> \o <<Text>>)
    /\ <<>> \in Seq(Full) /\ <<Text>> \in Seq(Full) /\ Plain(Text)
<1>1. <<>> \in Seq(Full) /\ <<Text>> \in Seq(Full) /\ Plain(Text) /\ Len(<<>>) = 0
      /\ Len(<<Text>>) = 1 /\ <<Text>>[1] = Text
  BY SpokenFacts DEF Speaks
<1>2. Adds(<<>>) /\ Adds(<<Text>>)
  <2>1. \A i \in 1 .. Len(<<>>) : Plain(<<>>[i])
    BY <1>1
  <2>2. \A i \in 1 .. Len(<<Text>>) : Plain(<<Text>>[i])
    BY <1>1
  <2>3. Adds(<<>>)
    BY <1>1, <2>1, AddsPlain
  <2>4. Adds(<<Text>>)
    BY <1>1, <2>2, AddsPlain
  <2>5. QED
    BY <2>3, <2>4
<1>3. \A i \in 1 .. Len(<<Text>>) : Plain(<<Text>>[i])
  BY <1>1
<1>4. \A i \in 1 .. Len(<<>>) : Plain(<<>>[i])
  BY <1>1
<1>5. Adds(<<Text>> \o <<>>)
  BY <1>1, <1>2, <1>4, AddsConcat
<1>6. Adds(<<Text>> \o <<Text>>)
  BY <1>1, <1>2, <1>3, AddsConcat
<1>7. QED
  BY <1>1, <1>2, <1>5, <1>6

LEMMA AddsRound ==
    ASSUME saved \in Seq(Message), NEW blocks \in SUBSET {"thinking", "text"},
           NEW remark \in {{}, {"text"}}, NEW d \in {<<>>, <<Text>>},
           Len(saved) + Len(RoundOf(blocks, remark) \o d) <= MaxMessages
    PROVE  Adds(RoundOf(blocks, remark) \o d)
<1> DEFINE m == RoundOf(blocks, remark)
<1>1. Len(m) = 2
  BY DEF RoundOf
<1>2. d \in Seq(Full) /\ Len(d) \in Nat /\ \A i \in 1 .. Len(d) : Plain(d[i])
  <2>1. <<>> \in Seq(Full) /\ Len(<<>>) = 0 /\ <<Text>> \in Seq(Full) /\ Len(<<Text>>) = 1
        /\ <<Text>>[1] = Text /\ Plain(Text)
    BY AddsText
  <2>2. CASE d = <<>>
    BY <2>1, <2>2
  <2>3. CASE d = <<Text>>
    BY <2>1, <2>3
  <2>4. QED
    BY <2>2, <2>3
<1> HIDE DEF m
<1>3. Len(saved) < MaxMessages
  <2>1. PICK c, e : m = <<c, e>>
    BY DEF m, RoundOf
  <2> DEFINE S == Full \cup {c, e}
  <2>2. m \in Seq(S)
    BY <2>1
  <2>3. d \in Seq(S)
    BY <1>2
  <2> HIDE DEF S
  <2>4. Len(m \o d) = Len(m) + Len(d)
    BY <2>2, <2>3
  <2>5. QED
    BY <1>1, <1>2, <2>4, TranscriptAssumption DEF m
<1>4. Adds(m)
  BY <1>3, RoundFacts DEF Adds, m
<1>5. QED
  BY <1>2, <1>4, AddsConcat DEF m

-----------------------------------------------------------------------------
(***************************************************************************)
(* The invariant                                                           *)
(***************************************************************************)
Asking == {"reply"} \cup Summarizing

LTypes(sv, lv, st, w, k, r) ==
    /\ sv \in Seq(Message) /\ lv \in Seq(Message) /\ k \in Seq(Message)
    /\ w \in {"closed", "idle", "begin", "reply"} \cup Summarizing
    /\ r \in 0 .. MaxOverflowRetries
    /\ st \in [live : Nat, saved : Nat]

\* What holds of the session and of the transcript while it is open.
Told(sv, lv, st, w) ==
    /\ Ordered(sv)
    /\ w = "closed" => lv = <<>>
    /\ w \notin InTurn => st = NoTurn
    /\ w \in Asking => lv # <<>>
    /\ lv # <<>> => lv[1].role = "user"
    /\ w # "closed" => Sound(sv, lv, st, w)

\* What a summary is asked of.
Asked(lv, w, k, r) ==
    IF w \in Summarizing THEN IF r = 0 THEN k = lv ELSE Valid(k) ELSE r = 0

\* The inductive invariant: while the session is open it holds a transcript as
\* an earlier process left it and the whole rounds added since, the rounds
\* being no others of that transcript's; the memory holds the repair of the
\* first and the same rounds; and the open turn rolls both back to the same
\* place.
LiveInv ==
    /\ LTypes(saved, live, start, waits, kept, retries)
    /\ Told(saved, live, start, waits)
    /\ Asked(live, waits, kept, retries)

LEMMA TranscriptValid ==
    ASSUME NEW sv, NEW lv, NEW st, NEW w, Told(sv, lv, st, w), w \in Asking
    PROVE  Valid(lv)
<1>1. w # "closed"
  BY DEF Asking, Summarizing
<1>2. PICK base, new : Grown(sv, lv, base, new)
  BY <1>1 DEF Told, Sound
<1>3. lv \in Seq(Full) /\ Matched(lv)
  BY <1>2, GrownTypes
<1>4. QED
  BY <1>3 DEF Told, Valid

\* Adding keeps what holds, and its start is a place to roll back to.
LEMMA AppendsKeep ==
    ASSUME LiveInv, NEW m, Adds(m), Appends(m), waits # "closed",
           live = <<>> => m # <<>> /\ m[1].role = "user"
    PROVE  /\ saved' \in Seq(Message) /\ live' \in Seq(Message) /\ live' # <<>>
           /\ live'[1].role = "user" /\ Ordered(saved')
           /\ Sound(saved', live', start, waits)
           /\ \A w : Sound(saved', live', [live |-> Len(live), saved |-> Len(saved)], w)
<1>1. PICK base, new : Grown(saved, live, base, new) /\ (waits \in InTurn => Rolls(start, base, new))
  BY DEF LiveInv, Told, Sound
<1>2. m \in Seq(Full) /\ Matched(m) /\ Apart(saved, m) /\ Ordered(m) /\ m \in Seq(Message)
  BY DEF Adds, Full
<1>3. saved' = saved \o m /\ live' = live \o m
  BY DEF Appends
<1>4. /\ Grown(saved \o m, live \o m, base, new \o m)
      /\ \A st : Rolls(st, base, new) => Rolls(st, base, new \o m)
      /\ Rolls([live |-> Len(live), saved |-> Len(saved)], base, new \o m)
  BY <1>1, <1>2, GrownMore
<1>5. saved \in Seq(Message) /\ live \in Seq(Message) /\ Ordered(saved)
  BY DEF LiveInv, LTypes, Told
<1>6. /\ saved \o m \in Seq(Message) /\ live \o m \in Seq(Message)
      /\ Joined(live \o m, live, m)
  BY <1>2, <1>5, ConcatJoins
<1>7. Ordered(saved \o m)
  BY <1>2, <1>5, OrderedJoined
<1>8. live \o m # <<>> /\ (live \o m)[1].role = "user"
  <2>1. CASE live = <<>>
    <3>1. Len(live) = 0 /\ m # <<>> /\ m[1].role = "user" /\ 1 \in 1 .. Len(m)
      BY <1>2, <2>1
    <3>2. (live \o m)[0 + 1] = m[1] /\ Len(live \o m) >= 1
      BY <1>6, <3>1 DEF Joined
    <3>3. QED
      BY <3>1, <3>2
  <2>2. CASE live # <<>>
    <3>1. 1 \in 1 .. Len(live) /\ live[1].role = "user"
      BY <1>5, <2>2 DEF LiveInv, Told
    <3>2. (live \o m)[1] = live[1] /\ Len(live \o m) >= 1
      BY <1>2, <1>6, <3>1 DEF Joined
    <3>3. QED
      BY <3>1, <3>2
  <2>3. QED
    BY <2>1, <2>2
<1>9. Sound(saved \o m, live \o m, start, waits)
  BY <1>1, <1>4 DEF Sound
<1>10. \A w : Sound(saved \o m, live \o m, [live |-> Len(live), saved |-> Len(saved)], w)
  BY <1>4 DEF Sound
<1>11. QED
  BY <1>3, <1>6, <1>7, <1>8, <1>9, <1>10

\* No turn is rolled back outside of one.
LEMMA SoundAtRest ==
    ASSUME NEW sv, NEW lv, NEW st, NEW w, Sound(sv, lv, st, w), NEW st2, NEW w2, w2 \notin InTurn
    PROVE  Sound(sv, lv, st2, w2)
  BY DEF Sound

LEMMA NoTurnType == NoTurn \in [live : Nat, saved : Nat]
  BY DEF NoTurn

LEMMA TextRole == Text.role = "user" /\ <<Text>> # <<>> /\ <<Text>>[1] = Text /\ Text \in Message
<1>1. Text \in Full /\ Text.role = "user"
  BY SpokenFacts DEF Speaks
<1>2. QED
  BY <1>1 DEF Full

LEMMA LiveBegins == LiveInit => LiveInv
<1> SUFFICES ASSUME LiveInit
             PROVE  LiveInv
  OBVIOUS
<1>2. saved \in Seq(Message) /\ Ordered(saved)
  BY TranscriptAssumption DEF LiveInit
<1>3. live = <<>> /\ start = NoTurn /\ waits = "closed" /\ kept = <<>> /\ retries = 0
  BY DEF LiveInit
<1>4. 0 \in 0 .. MaxOverflowRetries
  BY TranscriptAssumption
<1>5. LTypes(saved, live, start, waits, kept, retries)
  BY <1>2, <1>3, <1>4, NoTurnType DEF LTypes
<1>6. Told(saved, live, start, waits)
  BY <1>2, <1>3 DEF Told, InTurn, Asking, Summarizing
<1>7. Asked(live, waits, kept, retries)
  BY <1>3 DEF Asked, Summarizing
<1>8. QED
  BY <1>5, <1>6, <1>7 DEF LiveInv

-----------------------------------------------------------------------------
(***************************************************************************)
(* The steps                                                               *)
(***************************************************************************)
\* A turn that ends leaves nothing to roll back.
LEMMA EndsKeep ==
    ASSUME LiveInv, NEW sv, NEW lv, sv \in Seq(Message), lv \in Seq(Message), Ordered(sv),
           lv # <<>> => lv[1].role = "user", NEW st, NEW w, Sound(sv, lv, st, w),
           NEW k \in Seq(Message)
    PROVE  /\ LTypes(sv, lv, NoTurn, "idle", k, 0) /\ Told(sv, lv, NoTurn, "idle")
           /\ Asked(lv, "idle", k, 0)
<1>1. "idle" \notin InTurn /\ "idle" \notin Asking /\ "idle" \notin Summarizing /\ "idle" # "closed"
  BY DEF InTurn, Asking, Summarizing
<1>2. Sound(sv, lv, NoTurn, "idle")
  BY <1>1, SoundAtRest
<1>3. 0 \in 0 .. MaxOverflowRetries
  BY TranscriptAssumption
<1>4. QED
  BY <1>1, <1>2, <1>3, NoTurnType DEF LTypes, Told, Asked

LEMMA SubmitPromptKeeps == LiveInv /\ SubmitPrompt => LiveInv'
<1> SUFFICES ASSUME LiveInv, SubmitPrompt
             PROVE  LiveInv'
  OBVIOUS
<1>2. waits = "idle" /\ saved' = saved /\ live' = live /\ start' = start
  BY DEF SubmitPrompt
<1>3. start = NoTurn /\ Sound(saved, live, start, "idle")
  BY <1>2 DEF LiveInv, Told, InTurn
<1>4. CASE waits' = "begin" /\ kept' = kept /\ retries' = retries
  <2>1. Sound(saved, live, start, "begin")
    BY <1>3, SoundAtRest DEF InTurn
  <2>2. Told(saved, live, start, "begin")
    BY <1>2, <1>3, <2>1 DEF LiveInv, Told, InTurn, Asking, Summarizing
  <2>3. QED
    BY <1>2, <1>4, <2>2 DEF LiveInv, LTypes, Asked, Summarizing
<1>5. CASE live # <<>> /\ waits' = "before" /\ kept' = live /\ retries' = 0
  <2>1. Sound(saved, live, start, "before")
    BY <1>3, SoundAtRest DEF InTurn
  <2>2. Told(saved, live, start, "before")
    BY <1>2, <1>3, <1>5, <2>1 DEF LiveInv, Told, InTurn, Asking, Summarizing
  <2>3. 0 \in 0 .. MaxOverflowRetries
    BY TranscriptAssumption
  <2>4. QED
    BY <1>2, <1>5, <2>2, <2>3 DEF LiveInv, LTypes, Asked, Summarizing
<1>6. QED
  BY <1>4, <1>5 DEF SubmitPrompt, AsksSummary, asking

LEMMA RecordPromptKeeps == LiveInv /\ RecordPrompt => LiveInv'
<1> SUFFICES ASSUME LiveInv, RecordPrompt
             PROVE  LiveInv'
  OBVIOUS
<1>2. PICK d \in DrainedPrompts : Appends(<<Text>> \o d)
  BY DEF RecordPrompt
<1>3. /\ waits = "begin" /\ start' = [live |-> Len(live), saved |-> Len(saved)]
      /\ waits' = "reply" /\ kept' = kept /\ retries' = retries
  BY DEF RecordPrompt, asking
<1> DEFINE m == <<Text>> \o d
<1>4. Adds(m) /\ m # <<>> /\ m[1].role = "user"
  <2>1. CASE d = <<>>
    BY <2>1, AddsText, TextRole
  <2>2. CASE d = <<Text>>
    BY <2>2, AddsText, TextRole
  <2>3. QED
    BY <2>1, <2>2 DEF DrainedPrompts
<1> HIDE DEF m
<1>5. Appends(m)
  BY <1>2 DEF m
<1>6. /\ saved' \in Seq(Message) /\ live' \in Seq(Message) /\ live' # <<>>
      /\ live'[1].role = "user" /\ Ordered(saved')
      /\ Sound(saved', live', start', waits')
  <2>1. waits # "closed"
    BY <1>3
  <2>2. QED
    BY <1>3, <1>4, <1>5, <2>1, AppendsKeep
<1>7. start' \in [live : Nat, saved : Nat]
  BY <1>3 DEF LiveInv, LTypes
<1>8. Told(saved', live', start', waits')
  BY <1>3, <1>6 DEF Told, InTurn
<1>9. QED
  BY <1>3, <1>6, <1>7, <1>8 DEF LiveInv, LTypes, Asked, Summarizing

LEMMA CommittedAdds ==
    ASSUME NEW blocks \in SUBSET {"thinking", "text"}
    PROVE  Adds(Committed(blocks))
<1>1. CASE blocks = {}
  BY <1>1, AddsText DEF Committed
<1>2. CASE blocks # {}
  <2>1. 0 \in 0 .. MaxMessages
    BY TranscriptAssumption
  <2>2. Assistant(blocks) \in Full /\ Plain(Assistant(blocks))
    BY <1>2, <2>1 DEF Assistant, Full, Message, Parts, Plain, Has
  <2>3. Committed(blocks) = <<Assistant(blocks)>>
    BY <1>2 DEF Committed
  <2>4. /\ <<Assistant(blocks)>> \in Seq(Full)
        /\ \A i \in 1 .. Len(<<Assistant(blocks)>>) : Plain(<<Assistant(blocks)>>[i])
    BY <2>2
  <2>5. QED
    BY <2>3, <2>4, AddsPlain
<1>3. QED
  BY <1>1, <1>2

\* What waits for a reply has a transcript to reply to.
LEMMA ReplyHasTranscript ==
    ASSUME LiveInv, waits \in Asking
    PROVE  live # <<>> /\ waits # "closed"
  BY DEF LiveInv, Told, Asking, Summarizing

\* Adding in a turn keeps the invariant, whatever comes next.
LEMMA TurnGoesOn ==
    ASSUME LiveInv, waits = "reply", NEW m, Adds(m), Appends(m),
           \/ EndsTurn /\ UNCHANGED asking
           \/ UNCHANGED <<waits, start, asking>>
           \/ AsksSummary(live', "midturn") /\ UNCHANGED start
    PROVE  LiveInv'
<1>1. live # <<>> /\ waits # "closed"
  BY ReplyHasTranscript DEF Asking
<1>2. /\ saved' \in Seq(Message) /\ live' \in Seq(Message) /\ live' # <<>>
      /\ live'[1].role = "user" /\ Ordered(saved')
      /\ Sound(saved', live', start, waits)
  BY <1>1, AppendsKeep
<1>3. /\ kept \in Seq(Message) /\ retries = 0 /\ 0 \in 0 .. MaxOverflowRetries
      /\ start \in [live : Nat, saved : Nat]
  BY DEF LiveInv, LTypes, Asked, Summarizing
<1>4. CASE EndsTurn /\ UNCHANGED asking
  <2>1. waits' = "idle" /\ start' = NoTurn /\ kept' = kept /\ retries' = 0
    BY <1>3, <1>4 DEF EndsTurn, asking
  <2>2. /\ LTypes(saved', live', NoTurn, "idle", kept, 0)
        /\ Told(saved', live', NoTurn, "idle") /\ Asked(live', "idle", kept, 0)
    BY <1>2, <1>3, EndsKeep
  <2>3. QED
    BY <2>1, <2>2 DEF LiveInv
<1>5. CASE UNCHANGED <<waits, start, asking>>
  <2>1. waits' = "reply" /\ start' = start /\ kept' = kept /\ retries' = retries
    BY <1>5 DEF asking
  <2>2. Told(saved', live', start, "reply")
    BY <1>2 DEF Told, InTurn
  <2>3. QED
    BY <1>2, <1>3, <2>1, <2>2 DEF LiveInv, LTypes, Asked, Summarizing
<1>6. CASE AsksSummary(live', "midturn") /\ UNCHANGED start
  <2>1. waits' = "midturn" /\ start' = start /\ kept' = live' /\ retries' = 0
    BY <1>6 DEF AsksSummary
  <2>2. Sound(saved', live', start, "midturn")
    BY <1>2 DEF Sound, InTurn
  <2>3. Told(saved', live', start, "midturn")
    BY <1>2, <2>2 DEF Told, InTurn
  <2>4. 0 \in 0 .. MaxOverflowRetries
    BY TranscriptAssumption
  <2>5. QED
    BY <1>2, <1>3, <2>1, <2>3, <2>4 DEF LiveInv, LTypes, Asked, Summarizing
<1>7. QED
  BY <1>4, <1>5, <1>6

LEMMA RepliedKeeps == LiveInv /\ Replied => LiveInv'
<1> SUFFICES ASSUME LiveInv, Replied
             PROVE  LiveInv'
  OBVIOUS
<1>1. PICK blocks \in SUBSET {"thinking", "text", "call"} : Appends(Committed(Kept(blocks)))
  BY DEF Replied
<1>2. Kept(blocks) \in SUBSET {"thinking", "text"}
  BY DEF Kept
<1>3. Adds(Committed(Kept(blocks)))
  BY <1>2, CommittedAdds
<1>4. waits = "reply" /\ EndsTurn /\ UNCHANGED asking
  BY DEF Replied
<1>5. QED
  BY <1>1, <1>3, <1>4, TurnGoesOn

LEMMA PausedKeeps == LiveInv /\ Paused => LiveInv'
<1> SUFFICES ASSUME LiveInv, Paused
             PROVE  LiveInv'
  OBVIOUS
<1>1. PICK blocks \in SUBSET {"thinking", "text"} : Appends(Committed(blocks))
  BY DEF Paused
<1>2. Adds(Committed(blocks))
  BY CommittedAdds
<1>3. waits = "reply"
  BY DEF Paused
<1>4. (EndsTurn /\ UNCHANGED asking) \/ UNCHANGED <<waits, start, asking>>
  BY DEF Paused
<1>5. QED
  BY <1>1, <1>2, <1>3, <1>4, TurnGoesOn

\* What a round and the prompts after it add is new to the session.
LEMMA RoundAdds ==
    ASSUME LiveInv, NEW blocks \in SUBSET {"thinking", "text"}, NEW remark \in {{}, {"text"}},
           NEW d \in {<<>>, <<Text>>}, Appends(RoundOf(blocks, remark) \o d)
    PROVE  Adds(RoundOf(blocks, remark) \o d)
<1>1. saved \in Seq(Message)
  BY DEF LiveInv, LTypes
<1>2. Len(saved) + Len(RoundOf(blocks, remark) \o d) <= MaxMessages
  BY DEF Appends
<1>3. QED
  BY <1>1, <1>2, AddsRound

LEMMA RoundKeeps == LiveInv /\ Round => LiveInv'
<1> SUFFICES ASSUME LiveInv, Round
             PROVE  LiveInv'
  OBVIOUS
<1>1. waits = "reply"
  BY DEF Round
<1>2. PICK blocks \in SUBSET {"thinking", "text"}, remark \in {{}, {"text"}} :
        \/ Appends(RoundOf(blocks, remark) \o <<Text>>) /\ EndsTurn /\ UNCHANGED asking
        \/ \E drained \in DrainedPrompts :
              /\ Appends(RoundOf(blocks, remark) \o drained)
              /\ \/ UNCHANGED <<waits, start, asking>>
                 \/ EndsTurn /\ UNCHANGED asking
                 \/ AsksSummary(live', "midturn") /\ UNCHANGED start
  BY DEF Round
<1>3. PICK d \in DrainedPrompts :
        /\ Appends(RoundOf(blocks, remark) \o d)
        /\ \/ UNCHANGED <<waits, start, asking>>
           \/ EndsTurn /\ UNCHANGED asking
           \/ AsksSummary(live', "midturn") /\ UNCHANGED start
  BY <1>2 DEF DrainedPrompts
<1>4. d \in {<<>>, <<Text>>}
  BY DEF DrainedPrompts
<1>5. Adds(RoundOf(blocks, remark) \o d)
  BY <1>3, <1>4, RoundAdds
<1>6. QED
  BY <1>1, <1>3, <1>5, TurnGoesOn

\* A refused turn leaves what there was before it, in the session and in memory.
LEMMA RefuseTurnKeeps == LiveInv /\ RefuseTurn => LiveInv'
<1> SUFFICES ASSUME LiveInv, RefuseTurn
             PROVE  LiveInv'
  OBVIOUS
<1>1. /\ waits = "reply" /\ waits' = "idle" /\ start' = NoTurn
      /\ live' = SubSeq(live, 1, start.live) /\ saved' = SubSeq(saved, 1, start.saved)
      /\ kept' = kept /\ retries' = retries
  BY DEF RefuseTurn, EndsTurn, asking
<1>2. PICK base, new : Grown(saved, live, base, new) /\ Rolls(start, base, new)
  BY <1>1 DEF LiveInv, Told, Sound, InTurn
<1>3. PICK cut : Grown(saved', live', base, cut)
  BY <1>1, <1>2, GrownBack
<1>4. /\ kept \in Seq(Message) /\ retries = 0
      /\ saved \in Seq(Message) /\ live \in Seq(Message) /\ Ordered(saved)
      /\ start \in [live : Nat, saved : Nat] /\ live # <<>> /\ live[1].role = "user"
  BY <1>1 DEF LiveInv, LTypes, Told, Asked, Asking, Summarizing
<1>5. start.live \in 0 .. Len(live) /\ start.saved \in 0 .. Len(saved)
  <2>1. Joined(saved, base, new) /\ Joined(live, Repaired(base), new)
    BY <1>2, GrownTypes
  <2>2. QED
    BY <1>2, <2>1 DEF Joined, Rolls
<1>6. saved' \in Seq(Message) /\ Ordered(saved')
  BY <1>1, <1>4, <1>5, OrderedPrefix
<1>7. live' \in Seq(Message) /\ (live' # <<>> => live'[1].role = "user")
  <2>1. SubSeq(live, 1, start.live) \in Seq(Message) /\ Len(SubSeq(live, 1, start.live)) = start.live
    BY <1>4, <1>5
  <2>2. start.live >= 1 => SubSeq(live, 1, start.live)[1] = live[1]
    BY <1>4, <1>5
  <2>3. SubSeq(live, 1, start.live) # <<>> => start.live >= 1
    BY <1>5, <2>1
  <2>4. QED
    BY <1>1, <1>4, <2>1, <2>2, <2>3
<1>8. Sound(saved', live', NoTurn, "idle")
  BY <1>3 DEF Sound, InTurn
<1>9. /\ LTypes(saved', live', NoTurn, "idle", kept, 0) /\ Told(saved', live', NoTurn, "idle")
      /\ Asked(live', "idle", kept, 0)
  BY <1>4, <1>6, <1>7, <1>8, EndsKeep
<1>10. QED
  BY <1>1, <1>4, <1>9 DEF LiveInv

LEMMA InterruptTurnKeeps == LiveInv /\ InterruptTurn => LiveInv'
<1> SUFFICES ASSUME LiveInv, InterruptTurn
             PROVE  LiveInv'
  OBVIOUS
<1>1. /\ waits \in Asking /\ waits' = "idle" /\ start' = NoTurn /\ kept' = <<>> /\ retries' = 0
  BY DEF InterruptTurn, EndsTurn, Asking
<1>2. live # <<>> /\ waits # "closed"
  BY <1>1, ReplyHasTranscript
<1>3. /\ saved' \in Seq(Message) /\ live' \in Seq(Message) /\ Ordered(saved')
      /\ live' # <<>> => live'[1].role = "user"
      /\ Sound(saved', live', start, waits)
  <2>1. CASE waits \in {"reply", "midturn"}
    <3>1. Appends(<<Text>>) /\ Adds(<<Text>>)
      BY <2>1, AddsText DEF InterruptTurn
    <3>2. QED
      BY <1>2, <3>1, AppendsKeep
  <2>2. CASE waits \notin {"reply", "midturn"}
    <3>1. saved' = saved /\ live' = live
      BY <2>2 DEF InterruptTurn
    <3>2. QED
      BY <1>2, <3>1 DEF LiveInv, LTypes, Told
  <2>3. QED
    BY <2>1, <2>2
<1>4. <<>> \in Seq(Message) /\ 0 \in 0 .. MaxOverflowRetries
  BY TranscriptAssumption
<1>5. /\ LTypes(saved', live', NoTurn, "idle", <<>>, 0) /\ Told(saved', live', NoTurn, "idle")
      /\ Asked(live', "idle", <<>>, 0)
  BY <1>3, <1>4, EndsKeep
<1>6. QED
  BY <1>1, <1>5 DEF LiveInv

LEMMA FailsKeeps == LiveInv /\ Fails => LiveInv'
<1> SUFFICES ASSUME LiveInv, Fails
             PROVE  LiveInv'
  OBVIOUS
<1>1. /\ waits \in Asking /\ waits' = "idle" /\ start' = NoTurn /\ kept' = <<>> /\ retries' = 0
      /\ saved' = saved /\ live' = live
  BY DEF Fails, EndsTurn, Asking
<1>2. waits # "closed"
  BY <1>1, ReplyHasTranscript
<1>3. /\ saved \in Seq(Message) /\ live \in Seq(Message) /\ Ordered(saved)
      /\ live # <<>> => live[1].role = "user"
      /\ Sound(saved, live, start, waits)
  BY <1>2 DEF LiveInv, LTypes, Told
<1>4. <<>> \in Seq(Message) /\ 0 \in 0 .. MaxOverflowRetries
  BY TranscriptAssumption
<1>5. /\ LTypes(saved, live, NoTurn, "idle", <<>>, 0) /\ Told(saved, live, NoTurn, "idle")
      /\ Asked(live, "idle", <<>>, 0)
  BY <1>3, <1>4, EndsKeep
<1>6. QED
  BY <1>1, <1>5 DEF LiveInv

-----------------------------------------------------------------------------
(***************************************************************************)
(* Compaction, exit and resume                                             *)
(***************************************************************************)
\* A summary is asked of the transcript, outside of a turn.
LEMMA AsksKeep ==
    ASSUME LiveInv, waits = "idle", live # <<>>, NEW w \in {"manual", "before"}, AsksSummary(live, w),
           UNCHANGED <<saved, live, start>>
    PROVE  LiveInv'
<1>1. waits' = w /\ kept' = live /\ retries' = 0 /\ saved' = saved /\ live' = live /\ start' = start
  BY DEF AsksSummary
<1>2. start = NoTurn /\ Sound(saved, live, start, "idle")
  BY DEF LiveInv, Told, InTurn
<1>3. w \notin InTurn
  BY DEF InTurn
<1>4. Sound(saved, live, start, w)
  BY <1>2, <1>3, SoundAtRest
<1>5. Told(saved, live, start, w)
  BY <1>2, <1>3, <1>4 DEF LiveInv, Told
<1>6. 0 \in 0 .. MaxOverflowRetries
  BY TranscriptAssumption
<1>7. QED
  BY <1>1, <1>5, <1>6 DEF LiveInv, LTypes, Asked, Summarizing

LEMMA AskCompactKeeps == LiveInv /\ AskCompact => LiveInv'
  BY AsksKeep DEF AskCompact

\* What a summary is asked of, also after it was too long, is valid.
LEMMA AskedValid ==
    ASSUME LiveInv, waits \in Summarizing
    PROVE  Valid(IF retries = 0 THEN live ELSE kept) /\ (retries = 0 => kept = live)
<1>1. Valid(live)
  BY TranscriptValid DEF LiveInv, Asking
<1>2. QED
  BY <1>1 DEF LiveInv, Asked

LEMMA OverflowsKeeps == LiveInv /\ Overflows => LiveInv'
<1> SUFFICES ASSUME LiveInv, Overflows
             PROVE  LiveInv'
  OBVIOUS
<1>1. /\ waits \in Summarizing /\ retries < MaxOverflowRetries /\ kept' \in Dropped(kept)
      /\ retries' = retries + 1 /\ saved' = saved /\ live' = live /\ start' = start
      /\ waits' = waits
  BY DEF Overflows
<1>2. Valid(kept)
  BY <1>1, AskedValid
<1>3. Valid(kept')
  BY <1>1, <1>2, DroppedValid
<1>4. kept' \in Seq(Message)
  BY <1>3, ValidAccepted
<1>5. retries + 1 \in 0 .. MaxOverflowRetries /\ retries + 1 # 0
  BY <1>1, TranscriptAssumption DEF LiveInv, LTypes
<1>6. LTypes(saved', live', start', waits', kept', retries')
  BY <1>1, <1>4, <1>5 DEF LiveInv, LTypes
<1>7. Told(saved', live', start', waits')
  BY <1>1 DEF LiveInv
<1>8. Asked(live', waits', kept', retries')
  BY <1>1, <1>3, <1>5 DEF Asked
<1>9. QED
  BY <1>6, <1>7, <1>8 DEF LiveInv

\* A repair finds nothing in an empty transcript.
LEMMA RepairedEmpty == Repaired(<<>>) = <<>>
<1>1. <<>> \in Seq(Message) /\ Len(<<>>) = 0 /\ DOMAIN <<>> = 1 .. 0
  OBVIOUS
<1>2. Ordered(<<>>)
  BY <1>1 DEF Ordered
<1>3. Resolved(<<>>) \in Seq(Message) /\ Len(Resolved(<<>>)) = 0
  BY <1>1, ResolvedIs DEF Resolves
<1>4. Unparented(Resolved(<<>>)) \in Seq(Message) /\ Len(Unparented(Resolved(<<>>))) = 0
  BY <1>3, UnparentedIs DEF Parents
<1>5. Unparented(Resolved(<<>>)) = <<>>
  BY <1>4
<1>6. NonEmpty(<<>>) = <<>>
  BY ThoseEmpty DEF NonEmpty
<1>7. Parented(Resolved(<<>>)) = <<>>
  BY <1>5, <1>6, ParentedIs
<1>8. QED
  BY <1>1, <1>2, <1>7, RepairedFacts

\* A summary is a transcript of its own, to which a turn may roll back.
LEMMA SummaryStands ==
    ASSUME NEW d \in DrainedPrompts, NEW m, m = <<Text>> \o d
    PROVE  /\ m \in Seq(Message) /\ Ordered(m) /\ m # <<>> /\ m[1].role = "user"
           /\ Grown(m, m, <<>>, m) /\ Rolls([live |-> 1, saved |-> 1], <<>>, m)
<1>1. <<>> \in Seq(Full) /\ <<Text>> \in Seq(Full) /\ Plain(Text) /\ Len(<<Text>>) = 1
      /\ <<Text>>[1] = Text /\ Text.role = "user" /\ Len(<<>>) = 0
  BY AddsText, TextRole
<1>2. d \in Seq(Full) /\ \A i \in 1 .. Len(d) : d[i] = Text
  <2>1. CASE d = <<>>
    BY <1>1, <2>1
  <2>2. CASE d = <<Text>>
    BY <1>1, <2>2
  <2>3. QED
    BY <2>1, <2>2 DEF DrainedPrompts
<1>3. m \in Seq(Full) /\ Joined(m, <<Text>>, d)
  BY <1>1, <1>2, ConcatJoins
<1>4. m \in Seq(Message) /\ Len(m) >= 1 /\ Len(m) \in Nat
  <2>1. m \in Seq(Message)
    BY <1>3 DEF Full
  <2>2. QED
    BY <1>1, <1>3, <2>1 DEF Joined
<1>5. ASSUME NEW i \in 1 .. Len(m)
      PROVE  m[i] = Text
  <2>1. \/ i \in 1 .. Len(<<Text>>) /\ m[i] = <<Text>>[i]
        \/ \E k \in 1 .. Len(d) : i = Len(<<Text>>) + k /\ m[i] = d[k]
    BY <1>3, JoinedPlaces
  <2>2. \A k \in 1 .. Len(<<Text>>) : k = 1
    BY <1>1
  <2>3. QED
    BY <1>1, <1>2, <2>1, <2>2
<1>6. \A i \in 1 .. Len(m) : Plain(m[i])
  BY <1>1, <1>5
<1>7. Matched(m) /\ Ordered(m) /\ Apart(<<>>, m)
  BY <1>4, <1>6, PlainFacts
<1>8. <<>> \in Seq(Message) /\ Ordered(<<>>)
  BY <1>1 DEF Ordered
<1>9. m = <<>> \o m
  BY <1>4
<1>10. Grown(m, m, <<>>, m)
  BY <1>3, <1>7, <1>8, <1>9, RepairedEmpty DEF Grown
<1>11. Matched(SubSeq(m, 1, 1))
  <2>1. /\ SubSeq(m, 1, 1) \in Seq(Message) /\ Len(SubSeq(m, 1, 1)) = 1
        /\ SubSeq(m, 1, 1)[1] = m[1] /\ 1 \in 1 .. Len(m)
    BY <1>4
  <2>2. \A i \in 1 .. Len(SubSeq(m, 1, 1)) : i = 1
    BY <2>1
  <2>3. \A i \in 1 .. Len(SubSeq(m, 1, 1)) : Plain(SubSeq(m, 1, 1)[i])
    BY <1>6, <2>1, <2>2
  <2>4. QED
    BY <2>1, <2>3, PlainFacts
<1>12. Rolls([live |-> 1, saved |-> 1], <<>>, m)
  <2>1. Len(Repaired(<<>>)) + 1 = 1 /\ Len(<<>>) + 1 = 1
    BY RepairedEmpty
  <2>2. 1 \in 0 .. Len(m)
    BY <1>4
  <2>3. QED
    BY <1>11, <2>1, <2>2 DEF Rolls
<1>13. m # <<>> /\ m[1].role = "user"
  BY <1>1, <1>4, <1>5
<1>14. QED
  BY <1>4, <1>7, <1>10, <1>12, <1>13

LEMMA SummarizedKeeps == LiveInv /\ Summarized => LiveInv'
<1> SUFFICES ASSUME LiveInv, Summarized
             PROVE  LiveInv'
  OBVIOUS
<1>1. waits \in Summarizing /\ kept' = <<>> /\ retries' = 0
  BY DEF Summarized
<1>2. PICK d \in DrainedPrompts : saved' = <<Text>> \o d /\ live' = <<Text>> \o d
  BY DEF Summarized, DrainedPrompts
<1>3. /\ saved' \in Seq(Message) /\ Ordered(saved') /\ saved' # <<>> /\ saved'[1].role = "user"
      /\ Grown(saved', live', <<>>, saved') /\ Rolls([live |-> 1, saved |-> 1], <<>>, saved')
      /\ live' = saved'
  BY <1>2, SummaryStands
<1>4. <<>> \in Seq(Message) /\ 0 \in 0 .. MaxOverflowRetries
  BY TranscriptAssumption
<1>5. CASE waits = "midturn"
  <2>1. waits' = "reply" /\ start' = [live |-> 1, saved |-> 1]
    BY <1>5 DEF Summarized
  <2>2. start' \in [live : Nat, saved : Nat]
    BY <2>1
  <2>3. Sound(saved', live', start', "reply")
    BY <1>3, <2>1 DEF Sound
  <2>4. Told(saved', live', start', "reply")
    BY <1>3, <2>3 DEF Told, InTurn
  <2>5. QED
    BY <1>1, <1>3, <1>4, <2>1, <2>2, <2>4 DEF LiveInv, LTypes, Asked, Summarizing
<1>6. CASE waits # "midturn"
  <2>1. waits' \in {"begin", "idle"} /\ start' = NoTurn
    BY <1>6 DEF Summarized
  <2>2. waits' \notin InTurn /\ waits' \notin Asking /\ waits' \notin Summarizing
    BY <2>1 DEF InTurn, Asking, Summarizing
  <2>3. Sound(saved', live', start', waits')
    BY <1>3, <2>2 DEF Sound
  <2>4. Told(saved', live', start', waits')
    BY <1>3, <2>1, <2>2, <2>3 DEF Told
  <2>5. QED
    BY <1>1, <1>3, <1>4, <2>1, <2>2, <2>4, NoTurnType DEF LiveInv, LTypes, Asked
<1>7. QED
  BY <1>5, <1>6

LEMMA ExitKeeps == LiveInv /\ Exit => LiveInv'
<1> SUFFICES ASSUME LiveInv, Exit
             PROVE  LiveInv'
  OBVIOUS
<1>1. /\ waits' = "closed" /\ live' = <<>> /\ start' = NoTurn /\ kept' = <<>> /\ retries' = 0
      /\ saved' = saved
  BY DEF Exit
<1>2. saved \in Seq(Message) /\ Ordered(saved)
  BY DEF LiveInv, LTypes, Told
<1>3. 0 \in 0 .. MaxOverflowRetries /\ <<>> \in Seq(Message)
  BY TranscriptAssumption
<1>4. LTypes(saved', live', start', waits', kept', retries')
  BY <1>1, <1>2, <1>3, NoTurnType DEF LTypes
<1>5. Told(saved', live', start', waits')
  BY <1>1, <1>2 DEF Told, InTurn, Asking, Summarizing
<1>6. Asked(live', waits', kept', retries')
  BY <1>1 DEF Asked, Summarizing
<1>7. QED
  BY <1>4, <1>5, <1>6 DEF LiveInv

LEMMA ResumeKeeps == LiveInv /\ Resume => LiveInv'
<1> SUFFICES ASSUME LiveInv, Resume
             PROVE  LiveInv'
  OBVIOUS
<1>1. /\ waits = "closed" /\ saved' = saved /\ start' = start /\ kept' = kept /\ retries' = retries
  BY DEF Resume, asking
<1>2. CASE live' = live /\ waits' = waits
  BY <1>1, <1>2 DEF LiveInv
<1>3. CASE live' = Repaired(saved) /\ waits' = "idle"
  <2>1. saved \in Seq(Message) /\ Ordered(saved) /\ start = NoTurn
    BY <1>1 DEF LiveInv, LTypes, Told, InTurn
  <2>2. /\ Repaired(saved) \in Seq(Full)
        /\ Repaired(saved) # <<>> => Repaired(saved)[1].role = "user"
    BY <2>1, RepairedFacts
  <2>3. Repaired(saved) \in Seq(Message)
    BY <2>2 DEF Full
  <2>4. <<>> \in Seq(Full) /\ Matched(<<>>) /\ Apart(saved, <<>>)
    BY AddsText DEF Adds
  <2>5. saved = saved \o <<>> /\ Repaired(saved) = Repaired(saved) \o <<>>
    BY <2>1, <2>3
  <2>6. Grown(saved, Repaired(saved), saved, <<>>)
    BY <2>1, <2>4, <2>5 DEF Grown
  <2>7. Sound(saved, Repaired(saved), NoTurn, "idle")
    BY <2>6 DEF Sound, InTurn
  <2>8. kept \in Seq(Message) /\ retries = 0
    BY <1>1 DEF LiveInv, LTypes, Asked, Summarizing
  <2>9. /\ LTypes(saved, Repaired(saved), NoTurn, "idle", kept, 0)
        /\ Told(saved, Repaired(saved), NoTurn, "idle")
        /\ Asked(Repaired(saved), "idle", kept, 0)
    BY <2>1, <2>2, <2>3, <2>7, <2>8, EndsKeep
  <2>10. QED
    BY <1>1, <1>3, <2>1, <2>8, <2>9 DEF LiveInv
<1>4. QED
  BY <1>2, <1>3 DEF Resume

-----------------------------------------------------------------------------
(***************************************************************************)
(* The theorems                                                            *)
(***************************************************************************)
\* Every step keeps the invariant.
THEOREM LiveInductive == LiveInv /\ [LiveNext]_livevars => LiveInv'
<1> SUFFICES ASSUME LiveInv, [LiveNext]_livevars
             PROVE  LiveInv'
  OBVIOUS
<1>1. CASE SubmitPrompt
  BY <1>1, SubmitPromptKeeps
<1>2. CASE RecordPrompt
  BY <1>2, RecordPromptKeeps
<1>3. CASE Replied
  BY <1>3, RepliedKeeps
<1>4. CASE Paused
  BY <1>4, PausedKeeps
<1>5. CASE Round
  BY <1>5, RoundKeeps
<1>6. CASE RefuseTurn
  BY <1>6, RefuseTurnKeeps
<1>7. CASE InterruptTurn
  BY <1>7, InterruptTurnKeeps
<1>8. CASE Fails
  BY <1>8, FailsKeeps
<1>9. CASE AskCompact
  BY <1>9, AskCompactKeeps
<1>10. CASE Overflows
  BY <1>10, OverflowsKeeps
<1>11. CASE Summarized
  BY <1>11, SummarizedKeeps
<1>12. CASE Exit
  BY <1>12, ExitKeeps
<1>13. CASE Resume
  BY <1>13, ResumeKeeps
<1>14. CASE UNCHANGED livevars
  BY <1>14 DEF livevars, asking, LiveInv
<1>15. QED
  BY <1>1, <1>2, <1>3, <1>4, <1>5, <1>6, <1>7, <1>8, <1>9, <1>10, <1>11, <1>12, <1>13, <1>14
  DEF LiveNext

\* The invariant holds of every state of the session (begin_turn, commit_round,
\* end_turn, roll_back, replace_with_summary, resume).
THEOREM LiveHolds == LiveSpec => []LiveInv
  BY LiveBegins, LiveInductive, PTL DEF LiveSpec

\* The request of a transcript, or of what is asked again of it, is one the API
\* takes.
LEMMA LiveInvRequests == LiveInv => RequestsValid
<1> SUFFICES ASSUME LiveInv, waits \in Asking
             PROVE  Accepted(Request) /\ (retries > 0 => ~ OpenTurn(Request))
  BY DEF RequestsValid, Asking
<1>1. CASE waits = "reply"
  <2>1. Valid(live)
    BY TranscriptValid DEF LiveInv
  <2>2. Request = live /\ retries = 0
    BY <1>1 DEF Request, LiveInv, Asked, Summarizing
  <2>3. QED
    BY <2>1, <2>2, ValidAccepted
<1>2. CASE waits # "reply"
  <2>1. waits \in Summarizing
    BY <1>2 DEF Asking
  <2>2. Valid(IF retries = 0 THEN live ELSE kept)
    BY <2>1, AskedValid
  <2>3. CASE retries = 0
    <3>1. Request = Append(live, Text)
      BY <1>2, <2>3 DEF Request
    <3>2. Valid(Append(live, Text))
      BY <2>2, <2>3, SpokenFacts, ValidAppend
    <3>3. QED
      BY <2>3, <3>1, <3>2, ValidAccepted
  <2>4. CASE retries # 0
    <3>1. Request = RetryRequest(kept)
      BY <1>2, <2>4 DEF Request
    <3>2. Valid(RetryRequest(kept)) /\ ~ OpenTurn(RetryRequest(kept))
      BY <2>2, <2>4, RetryValid
    <3>3. QED
      BY <3>1, <3>2, ValidAccepted
  <2>5. QED
    BY <2>3, <2>4
<1>3. QED
  BY <1>1, <1>2

\* A rollback point lies in what it cuts.
LEMMA LiveInvTypes == LiveInv => LiveTypeOK
<1> SUFFICES ASSUME LiveInv
             PROVE  LiveTypeOK
  OBVIOUS
<1>1. start.live \in 0 .. Len(live) /\ start.saved \in 0 .. Len(saved)
  <2>1. CASE waits \in InTurn
    <3>1. PICK base, new : Grown(saved, live, base, new) /\ Rolls(start, base, new)
      BY <2>1 DEF LiveInv, Told, Sound, InTurn
    <3>2. Joined(saved, base, new) /\ Joined(live, Repaired(base), new)
      BY <3>1, GrownTypes
    <3>3. QED
      BY <3>1, <3>2 DEF Joined, Rolls
  <2>2. CASE waits \notin InTurn
    <3>1. start = NoTurn /\ saved \in Seq(Message) /\ live \in Seq(Message)
      BY <2>2 DEF LiveInv, LTypes, Told
    <3>2. QED
      BY <3>1 DEF NoTurn
  <2>3. QED
    BY <2>1, <2>2
<1>2. QED
  BY <1>1 DEF LiveTypeOK, LiveInv, LTypes

\* Memory holds what a resume would show.
LEMMA LiveInvShows == LiveInv => ResumeShowsSame
<1> SUFFICES ASSUME LiveInv
             PROVE  ResumeShowsSame
  OBVIOUS
<1>1. ASSUME waits # "closed"
      PROVE  NoStubs(Repaired(saved)) = NoStubs(live)
  <2>1. PICK base, new : Grown(saved, live, base, new)
    BY <1>1 DEF LiveInv, Told, Sound
  <2>2. /\ base \in Seq(Message) /\ Ordered(base) /\ new \in Seq(Full) /\ Matched(new)
        /\ Apart(base, new) /\ saved = base \o new /\ live = Repaired(base) \o new
    BY <2>1 DEF Grown
  <2>3. Ordered(base \o new)
    BY <2>2 DEF LiveInv, Told
  <2>4. QED
    BY <2>2, <2>3, ShownGrows
<1>2. QED
  BY <1>1, LiveInvTypes DEF ResumeShowsSame

\* Whatever was refused, interrupted, cut off, summarized or repaired before it,
\* every request is one the API takes, and none whose thinking was taken out
\* (drop_oldest_rounds) is in the middle of a tool-use turn (retry_request).
THEOREM RequestsAlwaysValid == LiveSpec => []RequestsValid
<1>1. LiveSpec => []LiveInv
  BY LiveHolds
<1>2. LiveInv => RequestsValid
  BY LiveInvRequests
<1>3. QED
  BY <1>1, <1>2, PTL

\* Every variable has its type, and what the model is shown is what it would be
\* shown after a resume: end_turn, roll_back and replace_with_summary leave the
\* transcript and the session alike, whatever a repair put in or took out.
THEOREM ResumeAlwaysShowsSame == LiveSpec => []ResumeShowsSame
<1>1. LiveSpec => []LiveInv
  BY LiveHolds
<1>2. LiveInv => ResumeShowsSame
  BY LiveInvShows
<1>3. QED
  BY <1>1, <1>2, PTL
==============================================================================
