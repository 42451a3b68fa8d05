------------------------- MODULE SessionStoreProofs -------------------------
(***************************************************************************)
(* Proofs about SessionStore for any number of processes, sessions and     *)
(* messages.  The inductive invariant IInv adds to the safety properties   *)
(* what makes them inductive: what a process knows of the session it holds *)
(* (its base is stored there and, while its writes land, is its tip), that *)
(* nobody shares the ID of a session without a row, and that messages form *)
(* a forest in which every chain that a row or a process counts is written *)
(* already, so that no later write changes it.  The action properties and  *)
(* the refinement of Conversations follow from it by what one step may do. *)
(***************************************************************************)
EXTENDS SessionStore, TLAPS, FiniteSetTheorems

-----------------------------------------------------------------------------
(***************************************************************************)
(* Chains                                                                  *)
(***************************************************************************)

\* In rows that hold the parent of each of their messages, the chain CTE reads
\* what a walk through all messages would.
LEMMA ChainLocal ==
    ASSUME NEW par \in Parents, NEW S \in SUBSET Msg, NEW m,
           m \in S \cup {None},
           \A x \in S : par[x] \in S \cup {None}
    PROVE  Chain(par, S, m) = Chain(par, Msg, m)
<1>1. CASE m = None
  <2>1. m \notin S /\ m \notin Msg
    BY <1>1, RowsAssumption
  <2>2. QED
    BY <2>1 DEF Chain
<1>2. CASE m \in S
  <2>1. ASSUME NEW C \in SUBSET Msg, Closed(par, Msg, C)
        PROVE  Closed(par, S, C \cap S)
    BY <2>1 DEF Closed
  <2>2. ASSUME NEW C \in SUBSET S, Closed(par, S, C)
        PROVE  Closed(par, Msg, C)
    BY <2>2, RowsAssumption DEF Closed
  <2>3. Closed(par, S, S)
    BY DEF Closed
  <2>4. ASSUME NEW x \in Chain(par, S, m)
        PROVE  x \in Chain(par, Msg, m)
    <3>1. x \in S /\ \A C \in SUBSET S : m \in C /\ Closed(par, S, C) => x \in C
      BY <1>2 DEF Chain
    <3>2. ASSUME NEW C \in SUBSET Msg, m \in C, Closed(par, Msg, C)
          PROVE  x \in C
      <4>1. C \cap S \in SUBSET S /\ m \in C \cap S
        BY <3>2, <1>2
      <4>2. QED
        BY <2>1, <3>1, <3>2, <4>1
    <3>3. QED
      BY <1>2, <3>1, <3>2 DEF Chain
  <2>5. ASSUME NEW x \in Chain(par, Msg, m)
        PROVE  x \in Chain(par, S, m)
    <3>1. \A C \in SUBSET Msg : m \in C /\ Closed(par, Msg, C) => x \in C
      BY <1>2 DEF Chain
    <3>2. x \in S
      BY <1>2, <2>2, <2>3, <3>1
    <3>3. \A C \in SUBSET S : m \in C /\ Closed(par, S, C) => x \in C
      BY <2>2, <3>1
    <3>4. QED
      BY <1>2, <3>2, <3>3 DEF Chain
  <2>6. QED
    BY <2>4, <2>5
<1>3. QED
  BY <1>1, <1>2

LEMMA ChainInRows ==
    ASSUME NEW par, NEW S, NEW m
    PROVE  /\ Chain(par, S, m) \subseteq S
           /\ m \in S => m \in Chain(par, S, m)
BY DEF Chain

\* A chain holds the parent of each of its messages.
LEMMA ChainClosed ==
    ASSUME NEW par \in Parents, NEW S \in SUBSET Msg, NEW m,
           \A x \in S : par[x] \in S \cup {None},
           NEW x \in Chain(par, S, m)
    PROVE  par[x] \in Chain(par, S, m) \cup {None}
<1>1. m \in S /\ x \in S
  BY DEF Chain
<1>2. SUFFICES ASSUME par[x] # None
               PROVE  par[x] \in Chain(par, S, m)
  OBVIOUS
<1>3. par[x] \in S
  BY <1>1, <1>2
<1>4. ASSUME NEW C \in SUBSET S, m \in C, Closed(par, S, C)
      PROVE  par[x] \in C
  BY <1>1, <1>3, <1>4 DEF Chain, Closed
<1>5. QED
  BY <1>1, <1>3, <1>4 DEF Chain

\* Writing new messages never takes a message off a chain.
Extends(par, par2) == \A x \in Msg : par[x] # Unborn => par2[x] = par[x]

LEMMA ChainGrows ==
    ASSUME NEW par \in Parents, NEW par2 \in Parents, Extends(par, par2),
           NEW m
    PROVE  Chain(par, Msg, m) \subseteq Chain(par2, Msg, m)
<1>1. ASSUME NEW C \in SUBSET Msg, Closed(par2, Msg, C)
      PROVE  Closed(par, Msg, C)
  BY <1>1, RowsAssumption DEF Closed, Extends
<1>2. QED
  BY <1>1 DEF Chain

\* A message chains to everything its parent chains to.
LEMMA ChainSteps ==
    ASSUME NEW par \in Parents, NEW m \in Msg
    PROVE  Chain(par, Msg, par[m]) \subseteq Chain(par, Msg, m)
<1>1. SUFFICES ASSUME NEW x \in Chain(par, Msg, par[m])
               PROVE  x \in Chain(par, Msg, m)
  OBVIOUS
<1>2. par[m] \in Msg /\ x \in Msg
  BY DEF Chain
<1>3. ASSUME NEW C \in SUBSET Msg, m \in C, Closed(par, Msg, C)
      PROVE  x \in C
  <2>1. par[m] \in C
    BY <1>2, <1>3 DEF Closed
  <2>2. QED
    BY <1>2, <1>3, <2>1 DEF Chain
<1>4. QED
  BY <1>2, <1>3 DEF Chain

LEMMA ChainIsClosed ==
    ASSUME NEW par, NEW S, NEW m
    PROVE  Closed(par, S, Chain(par, S, m))
<1>1. SUFFICES ASSUME NEW x \in Chain(par, S, m), par[x] \in S
               PROVE  par[x] \in Chain(par, S, m)
  BY DEF Closed
<1>2. m \in S /\ x \in S
  BY DEF Chain
<1>3. ASSUME NEW C \in SUBSET S, m \in C, Closed(par, S, C)
      PROVE  par[x] \in C
  BY <1>1, <1>2, <1>3 DEF Chain, Closed
<1>4. QED
  BY <1>1, <1>2, <1>3 DEF Chain

\* The chain is the smallest closed set with the message it starts from.
LEMMA ChainSmallest ==
    ASSUME NEW par, NEW S, NEW m, NEW C \in SUBSET S, m \in C,
           Closed(par, S, C)
    PROVE  Chain(par, S, m) \subseteq C
BY DEF Chain

\* A chain is its first message and the chain of that message's parent.
LEMMA ChainStep ==
    ASSUME NEW par \in Parents, NEW m \in Msg
    PROVE  Chain(par, Msg, m) = {m} \cup Chain(par, Msg, par[m])
<1> DEFINE C == {m} \cup Chain(par, Msg, par[m])
<1>1. C \in SUBSET Msg /\ m \in C
  BY ChainInRows
<1>2. Closed(par, Msg, C)
  <2>1. SUFFICES ASSUME NEW x \in C, par[x] \in Msg
                 PROVE  par[x] \in C
    BY DEF Closed
  <2>2. CASE x = m
    BY <2>1, <2>2, ChainInRows
  <2>3. CASE x \in Chain(par, Msg, par[m])
    BY <2>1, <2>3, ChainIsClosed DEF Closed
  <2>4. QED
    BY <2>2, <2>3
<1>3. Chain(par, Msg, m) \subseteq C
  BY <1>1, <1>2, ChainSmallest
<1>4. QED
  BY <1>3, ChainSteps, ChainInRows
-----------------------------------------------------------------------------
(***************************************************************************)
(* Written messages.  A message is written once, after its parent, so what *)
(* is written later changes no chain that exists.                          *)
(***************************************************************************)
Written(par, m) == m \in Msg => par[m] # Unborn

Forest(par) == \A x \in Msg : Written(par, par[x])

\* No two messages reach each other.
Acyclic(par) ==
    \A x, y \in Msg :
        x \in Chain(par, Msg, y) /\ y \in Chain(par, Msg, x) => x = y

Sound(par) == Forest(par) /\ Acyclic(par)

LEMMA ChainWritten ==
    ASSUME NEW par \in Parents, Forest(par), NEW m, Written(par, m)
    PROVE  \A x \in Chain(par, Msg, m) : x \in Msg /\ par[x] # Unborn
<1> DEFINE C == {x \in Msg : par[x] # Unborn}
<1>1. Closed(par, Msg, C)
  BY DEF Closed, Forest, Written
<1>2. CASE m \in Msg
  <2>1. m \in C
    BY <1>2 DEF Written
  <2>2. Chain(par, Msg, m) \subseteq C
    BY <1>1, <2>1, ChainSmallest
  <2>3. QED
    BY <2>2
<1>3. CASE m \notin Msg
  BY <1>3 DEF Chain
<1>4. QED
  BY <1>2, <1>3

LEMMA ChainKept ==
    ASSUME NEW par \in Parents, NEW par2 \in Parents, Forest(par),
           Extends(par, par2), NEW m, Written(par, m)
    PROVE  Chain(par2, Msg, m) = Chain(par, Msg, m)
<1>1. Chain(par, Msg, m) \subseteq Chain(par2, Msg, m)
  BY ChainGrows
<1>2. CASE m \in Msg
  <2>1. \A x \in Chain(par, Msg, m) : x \in Msg /\ par2[x] = par[x]
    BY ChainWritten DEF Extends
  <2>2. Closed(par2, Msg, Chain(par, Msg, m))
    BY <2>1, ChainIsClosed DEF Closed
  <2>3. m \in Chain(par, Msg, m) /\ Chain(par, Msg, m) \in SUBSET Msg
    BY <1>2, ChainInRows
  <2>4. Chain(par2, Msg, m) \subseteq Chain(par, Msg, m)
    BY <2>2, <2>3, ChainSmallest
  <2>5. QED
    BY <1>1, <2>4
<1>3. CASE m \notin Msg
  BY <1>3 DEF Chain
<1>4. QED
  BY <1>2, <1>3

LEMMA WrittenKept ==
    ASSUME NEW par, NEW par2, Extends(par, par2), NEW m, Written(par, m)
    PROVE  Written(par2, m)
BY DEF Extends, Written

\* A message that nobody has written is a chain of its own.
LEMMA ChainUnborn ==
    ASSUME NEW par \in Parents, NEW m \in Msg, par[m] = Unborn
    PROVE  Chain(par, Msg, m) = {m}
<1>1. Chain(par, Msg, Unborn) = {}
  BY RowsAssumption DEF Chain
<1>2. QED
  BY <1>1, ChainStep

\* Writing a message after its parent adds it to the chain of the parent and
\* touches no other chain.
Adds(par, m, q, par2) ==
    /\ par \in Parents /\ Sound(par)
    /\ m \in Msg /\ par[m] = Unborn
    /\ q \in MsgOrNull /\ Written(par, q)
    /\ par2 = [par EXCEPT ![m] = q]

LEMMA MessageChains ==
    ASSUME NEW par, NEW m, NEW q, NEW par2, Adds(par, m, q, par2)
    PROVE  /\ par2 \in Parents /\ Extends(par, par2) /\ Written(par2, m)
           /\ Chain(par2, Msg, m) = {m} \cup Chain(par, Msg, q)
           /\ m \notin Chain(par, Msg, q)
           /\ Sound(par2)
<1> USE DEF Adds
<1>1. par2 \in Parents /\ par2[m] = q /\ \A x \in Msg \ {m} : par2[x] = par[x]
  BY DEF Parents
<1>2. Extends(par, par2)
  BY <1>1 DEF Extends
<1>3. Written(par2, m)
  BY <1>1, RowsAssumption DEF Written, MsgOrNull
<1>4. q # m
  BY RowsAssumption DEF Written, MsgOrNull
<1>5. Chain(par2, Msg, q) = Chain(par, Msg, q)
  BY <1>1, <1>2, ChainKept DEF Sound
<1>6. Chain(par2, Msg, m) = {m} \cup Chain(par, Msg, q)
  <2>1. Chain(par2, Msg, m) = {m} \cup Chain(par2, Msg, par2[m])
    BY <1>1, ChainStep
  <2>2. QED
    BY <1>1, <1>5, <2>1
<1>7. m \notin Chain(par, Msg, q)
  BY ChainWritten DEF Sound
<1>8. Forest(par2)
  <2>1. ASSUME NEW x \in Msg
        PROVE  Written(par2, par2[x])
    <3>1. CASE x = m
      BY <1>1, <1>2, <3>1, WrittenKept
    <3>2. CASE x # m
      <4>1. Written(par, par[x])
        BY DEF Sound, Forest
      <4>2. QED
        BY <1>1, <1>2, <3>2, <4>1, WrittenKept
    <3>3. QED
      BY <3>1, <3>2
  <2>2. QED
    BY <2>1 DEF Forest
<1>9. ASSUME NEW x \in Msg, x # m
      PROVE  /\ Chain(par2, Msg, x) = Chain(par, Msg, x)
             /\ m \notin Chain(par, Msg, x)
  <2>1. CASE par[x] = Unborn
    <3>1. Chain(par, Msg, x) = {x}
      BY <2>1, ChainUnborn
    <3>2. Chain(par2, Msg, x) = {x}
      BY <1>1, <1>9, <2>1, ChainUnborn
    <3>3. QED
      BY <1>9, <3>1, <3>2
  <2>2. CASE par[x] # Unborn
    <3>1. Written(par, x)
      BY <2>2 DEF Written
    <3>2. QED
      BY <1>1, <1>2, <3>1, ChainKept, ChainWritten DEF Sound
  <2>3. QED
    BY <2>1, <2>2
<1>10. Acyclic(par2)
  <2>1. SUFFICES ASSUME NEW x \in Msg, NEW y \in Msg,
                        x \in Chain(par2, Msg, y), y \in Chain(par2, Msg, x)
                 PROVE  x = y
    BY DEF Acyclic
  <2>2. CASE x # m /\ y # m
    BY <1>9, <2>1, <2>2 DEF Sound, Acyclic
  <2>3. CASE x = m \/ y = m
    BY <1>9, <2>1, <2>3
  <2>4. QED
    BY <2>2, <2>3
<1>11. QED
  BY <1>1, <1>2, <1>3, <1>6, <1>7, <1>8, <1>10 DEF Sound

\* The tip m ends a chain that n counts, a stub included if one is shown.
Tallied(par, m, n, stub) ==
    /\ Written(par, m)
    /\ n = Cardinality(Chain(par, Msg, m)) + Extra(stub)
    /\ stub => Chain(par, Msg, m) \cap Results # {}

LEMMA TallyKept ==
    ASSUME NEW par \in Parents, NEW par2 \in Parents, Forest(par),
           Extends(par, par2), NEW m, NEW n, NEW stub, Tallied(par, m, n, stub)
    PROVE  Tallied(par2, m, n, stub)
BY ChainKept, WrittenKept DEF Tallied

LEMMA NoTally ==
    ASSUME NEW par
    PROVE  Tallied(par, None, 0, FALSE)
<1>1. Chain(par, Msg, None) = {}
  BY RowsAssumption DEF Chain
<1>2. QED
  BY <1>1, FS_EmptySet, RowsAssumption DEF Tallied, Written, Extra

LEMMA MessageTally ==
    ASSUME NEW par, NEW m, NEW q, NEW par2, Adds(par, m, q, par2),
           NEW n, NEW stub \in BOOLEAN, Tallied(par, q, n, stub)
    PROVE  Tallied(par2, m, n + 1, stub)
<1> DEFINE C == Chain(par, Msg, q)
<1>1. /\ Chain(par2, Msg, m) = {m} \cup C /\ m \notin C /\ Written(par2, m)
  BY MessageChains
<1> HIDE DEF C
<1>2. IsFiniteSet(C)
  BY ChainInRows, FS_Subset, RowsAssumption DEF C
<1>3. n = Cardinality(C) + Extra(stub) /\ (stub => C \cap Results # {})
  BY DEF Tallied, C
<1>4. Cardinality(C) \in Nat /\ Cardinality(C \cup {m}) = Cardinality(C) + 1
  BY <1>1, <1>2, FS_CardinalityType, FS_AddElement DEF C
<1>5. C \cup {m} = {m} \cup C
  OBVIOUS
<1>6. n + 1 = Cardinality(C \cup {m}) + Extra(stub)
  BY <1>3, <1>4 DEF Extra
<1>7. stub => ({m} \cup C) \cap Results # {}
  BY <1>3
<1>8. QED
  BY <1>1, <1>5, <1>6, <1>7 DEF Tallied, C
-----------------------------------------------------------------------------
(***************************************************************************)
(* Batches and queued states                                               *)
(***************************************************************************)
Batches ==
    [msgs : SUBSET Msg, title : Titles, moves : BOOLEAN,
     archive : BOOLEAN, snapshots : BOOLEAN]

LEMMA ChainCount ==
    ASSUME NEW par, NEW S \in SUBSET Msg, NEW m
    PROVE  Cardinality(Chain(par, S, m)) \in Nat
<1>1. Chain(par, S, m) \in SUBSET Msg
  BY ChainInRows
<1>2. QED
  BY <1>1, FS_Subset, FS_CardinalityType, RowsAssumption

LEMMA LandedRow ==
    ASSUME NEW row \in Rows, NEW b \in Batches, NEW base \in MsgOrNull,
           NEW tip \in MsgOrNull, NEW count \in Nat
    PROVE  /\ Landed(row, b, base, tip, count) \in Rows
           /\ Landed(row, b, base, tip, count).msgs = row.msgs \cup b.msgs
           /\ Landed(row, b, base, tip, count).head =
                 (IF b.moves THEN tip ELSE row.head)
           /\ Landed(row, b, base, tip, count).stored = row.stored
           /\ Landed(row, b, base, tip, count).forkedFrom = row.forkedFrom
           /\ Landed(row, b, base, tip, count).title =
                 Retitled(row.title, b.title)
           /\ Landed(row, b, base, tip, count).count =
                 (IF b.moves THEN count ELSE row.count)
           /\ ~b.snapshots => Landed(row, b, base, tip, count).snap = row.snap
           /\ Landed(row, b, base, tip, count).snap \in
                 {row.snap, Landed(row, b, base, tip, count).head}
<1> DEFINE head     == IF b.moves THEN tip ELSE row.head
           describe == IF b.moves THEN tip ELSE base
           title    == Retitled(row.title, b.title)
           msgs     == row.msgs \cup b.msgs
           archived == row.archived \/ b.archive
           number   == IF b.moves THEN count ELSE row.count
           snap     == IF b.snapshots /\ head = describe
                         THEN describe ELSE row.snap
<1>1. /\ head \in MsgOrNull
      /\ describe \in MsgOrNull
      /\ number \in Nat
      /\ msgs \in SUBSET Msg
      /\ archived \in BOOLEAN
  BY DEF Rows, Batches
<1>2. title \in Titles
  BY DEF Rows, Batches, Retitled
<1>3. snap \in MsgOrNull
  BY <1>1 DEF Rows
<1>4. Landed(row, b, base, tip, count) =
        [row EXCEPT !.msgs = msgs, !.title = title, !.archived = archived,
                    !.head = head, !.count = number, !.snap = snap]
  BY DEF Landed
<1> HIDE DEF head, describe, title, msgs, archived, number, snap
<1>5. Landed(row, b, base, tip, count) \in Rows
  BY <1>1, <1>2, <1>3, <1>4 DEF Rows
<1>6. /\ Landed(row, b, base, tip, count).msgs = msgs
      /\ Landed(row, b, base, tip, count).head = head
      /\ Landed(row, b, base, tip, count).title = title
      /\ Landed(row, b, base, tip, count).stored = row.stored
      /\ Landed(row, b, base, tip, count).forkedFrom = row.forkedFrom
      /\ Landed(row, b, base, tip, count).count = number
      /\ Landed(row, b, base, tip, count).snap = snap
  BY <1>4 DEF Rows
<1>7. (~b.snapshots => snap = row.snap) /\ snap \in {row.snap, head}
  BY DEF snap
<1>8. QED
  BY <1>5, <1>6, <1>7 DEF head, msgs, title, number

LEMMA InsertedRow ==
    ASSUME NEW title \in Titles, NEW from \in Session \cup {None}
    PROVE  /\ Inserted(title, from) \in Rows
           /\ Inserted(title, from).stored
           /\ Inserted(title, from).msgs = {}
           /\ Inserted(title, from).head = None
           /\ Inserted(title, from).title = title
           /\ Inserted(title, from).forkedFrom = from
           /\ Inserted(title, from).snap = None
BY DEF Inserted, NoRow, Rows, MsgOrNull, Titles

LEMMA ForkRow ==
    ASSUME NEW par, NEW s \in Session, NEW source \in Rows, NEW base
    PROVE  /\ ForkOf(par, s, source, base) \in Rows
           /\ ForkOf(par, s, source, base).stored
           /\ ForkOf(par, s, source, base).msgs = Chain(par, source.msgs, base)
           /\ ForkOf(par, s, source, base).head = None
           /\ ForkOf(par, s, source, base).title = source.title
           /\ ForkOf(par, s, source, base).forkedFrom = s
           /\ ForkOf(par, s, source, base).snap = None
<1>1. source.title \in Titles /\ source.msgs \in SUBSET Msg
  BY DEF Rows
<1>2. Chain(par, source.msgs, base) \in SUBSET Msg
  BY <1>1, ChainInRows
<1>3. QED
  BY <1>1, <1>2, InsertedRow DEF ForkOf, Rows

\* The types of a write before it is flushed.
QueuedType(p, st, b, par) ==
    /\ st \in States /\ st.open
    /\ b \in Batches
    /\ par \in Parents
    /\ st.id \in Session

LEMMA FlushType ==
    ASSUME TypeOK, NEW p \in Proc, NEW st, NEW b, NEW par,
           QueuedType(p, st, b, par),
           Flush(p, st, b, par), parent' = par
    PROVE  TypeOK'
<1>1. parent' \in Parents
  BY DEF QueuedType
<1>2. ASSUME NEW s \in Session, NEW row \in Rows, NEW readBack,
             LandOn(p, st, b, par, s, row, readBack)
      PROVE  sess' \in [Session -> Rows] /\ proc' \in [Proc -> States]
  <2> DEFINE landed == Landed(row, b, st.base, st.tip, st.count)
  <2>1. landed \in Rows
    BY LandedRow DEF QueuedType, States
  <2>2. sess' = [sess EXCEPT ![s] = landed]
    BY <1>2 DEF LandOn
  <2>3. PICK st2 : /\ proc' = [proc EXCEPT ![p] = st2]
                   /\ st2 = [st EXCEPT !.id    = s,
                                       !.saved = TRUE,
                                       !.base  = IF b.moves THEN st.tip ELSE @,
                                       !.title = IF readBack THEN landed.title
                                                             ELSE @]
    BY <1>2 DEF LandOn
  <2>4. landed.title \in Titles
    BY <2>1 DEF Rows
  <2>5. st2 \in States
    BY <2>3, <2>4 DEF QueuedType, States
  <2>6. QED
    BY <2>1, <2>2, <2>3, <2>5 DEF TypeOK
<1>3. CASE Skip(p, st, b)
  BY <1>1, <1>3 DEF Skip, TypeOK, QueuedType
<1>4. CASE Create(p, st, b, par)
  <2>1. Inserted(st.title, None) \in Rows
    BY InsertedRow DEF QueuedType, States
  <2>2. QED
    BY <1>1, <1>2, <1>4, <2>1 DEF Create, TypeOK, QueuedType
<1>5. CASE InPlace(p, st, b, par)
  <2>1. sess[st.id] \in Rows
    BY DEF TypeOK, QueuedType
  <2>2. QED
    BY <1>1, <1>2, <1>5, <2>1 DEF InPlace, TypeOK, QueuedType
<1>6. CASE Fork(p, st, b, par)
  <2>1. PICK f \in FreshIds :
           LandOn(p, st, b, par, f,
                  ForkOf(par, st.id, sess[st.id], st.base), TRUE)
    BY <1>6 DEF Fork
  <2>2. f \in Session /\ sess[st.id] \in Rows /\ st.id \in Session
    BY DEF TypeOK, QueuedType, FreshIds
  <2>3. ForkOf(par, st.id, sess[st.id], st.base) \in Rows
    BY <2>2, ForkRow
  <2>4. QED
    BY <1>1, <1>2, <2>1, <2>2, <2>3 DEF TypeOK
<1>7. CASE Fail(p, st, b)
  <2>1. [st EXCEPT !.stopped = TRUE] \in States
    BY DEF QueuedType, States
  <2>2. QED
    BY <1>1, <1>7, <2>1 DEF Fail, TypeOK
<1>8. QED
  BY <1>3, <1>4, <1>5, <1>6, <1>7 DEF Flush
-----------------------------------------------------------------------------
(***************************************************************************)
(* Type correctness                                                        *)
(***************************************************************************)
\* An open process has a session, saved or not.
OpenNamed == \A p \in Proc : proc[p].open => proc[p].id \in Session

LEMMA CheckpointType ==
    /\ NoMark \in Checkpoints
    /\ \A st \in States : Checkpoint(st) \in Checkpoints
BY DEF NoMark, Checkpoint, Checkpoints, States, MsgOrNull

LEMMA OffState == Off \in States /\ ~Off.open
BY CheckpointType DEF Off, States, MsgOrNull, Titles

LEMMA FreshState ==
    ASSUME NEW f \in Session
    PROVE  /\ Fresh(f) \in States /\ Fresh(f).open /\ Fresh(f).id = f
           /\ ~Fresh(f).saved /\ ~Fresh(f).turn /\ Fresh(f).tip = None
           /\ ~Fresh(f).stopped /\ Fresh(f).base = None /\ Fresh(f).count = 0
           /\ Fresh(f).stub = FALSE
<1>1. /\ Off \in States /\ ~Off.saved /\ ~Off.turn /\ Off.tip = None
      /\ ~Off.stopped /\ Off.base = None /\ Off.count = 0 /\ Off.stub = FALSE
  BY OffState DEF Off
<1>2. QED
  BY <1>1 DEF Fresh, States

LEMMA ResumedState ==
    ASSUME TypeOK, NEW s \in Session
    PROVE  /\ Resumed(s) \in States /\ Resumed(s).open /\ Resumed(s).id = s
           /\ Resumed(s).saved /\ ~Resumed(s).turn
           /\ ~Resumed(s).stopped
           /\ Resumed(s).tip = sess[s].head
           /\ Resumed(s).base = sess[s].head
           /\ Resumed(s).stub = (sess[s].head \in Results)
           /\ Resumed(s).count = Cardinality(Transcript(parent, sess[s]))
                                    + Extra(sess[s].head \in Results)
<1> DEFINE cut == sess[s].head \in Results
           n   == Cardinality(Transcript(parent, sess[s])) + Extra(cut)
<1>1. sess[s] \in Rows /\ cut \in BOOLEAN
  BY DEF TypeOK
<1>2. n \in Nat
  BY <1>1, ChainCount DEF Transcript, Rows, Extra
<1>3. Resumed(s) = [Fresh(s) EXCEPT !.saved = TRUE,
                                    !.base  = sess[s].head,
                                    !.tip   = sess[s].head,
                                    !.count = n,
                                    !.stub  = cut,
                                    !.seen  = (sess[s].head # None),
                                    !.title = sess[s].title]
  BY DEF Resumed
<1> HIDE DEF n, cut
<1>4. /\ Fresh(s) \in States /\ Fresh(s).id = s /\ Fresh(s).open
      /\ ~Fresh(s).turn /\ ~Fresh(s).stopped
  BY FreshState
<1>5. /\ Resumed(s) \in States /\ Resumed(s).open /\ Resumed(s).id = s
      /\ Resumed(s).saved /\ ~Resumed(s).turn /\ ~Resumed(s).stopped
      /\ Resumed(s).tip = sess[s].head /\ Resumed(s).base = sess[s].head
      /\ Resumed(s).count = n /\ Resumed(s).stub = cut
  BY <1>1, <1>2, <1>3, <1>4 DEF States, Rows
<1>6. QED
  BY <1>5 DEF n, cut
-----------------------------------------------------------------------------
(***************************************************************************)
(* Message counts                                                          *)
(***************************************************************************)

\* What a process counts is its chain and its stub, and so is what it goes
\* back to when its turn is refused.
Tallies(par, st) ==
    /\ Tallied(par, st.tip, st.count, st.stub)
    /\ st.turn => Tallied(par, st.mark.tip, st.mark.count, st.stub)

Counted ==
    /\ Sound(parent)
    /\ \A p \in Proc : Tallies(parent, proc[p])

LEMMA TalliesKept ==
    ASSUME NEW par \in Parents, NEW par2 \in Parents, Forest(par),
           Extends(par, par2), NEW st, Tallies(par, st)
    PROVE  Tallies(par2, st)
BY TallyKept DEF Tallies
-----------------------------------------------------------------------------
(***************************************************************************)
(* Every operation that writes queues a batch over the state it found: it  *)
(* only adds messages, moves the tip to a new message or back along the    *)
(* chain, and keeps the rollback point on the chain.                       *)
(***************************************************************************)
Queued(p, st, b, par) ==
    /\ QueuedType(p, st, b, par)
    /\ LET old == proc[p]
       IN  /\ old.open
           /\ st.id = old.id /\ st.saved = old.saved
           /\ st.base = old.base /\ st.stopped = old.stopped
           /\ IF b.moves
                 THEN st.tip \in b.msgs \cup Chain(parent, Msg, old.tip)
                                       \cup {None}
                 ELSE b.msgs = {} /\ st.tip = old.tip
    /\ Extends(parent, par)
    /\ st.turn => st.mark.tip \in Chain(par, Msg, st.tip) \cup {None}
    /\ Sound(par) /\ Tallies(par, st)
    /\ ~b.snapshots

\* Process p flushed a queued batch.
Flushed(p) ==
    \E st \in States, b \in Batches, par \in Parents :
        /\ Queued(p, st, b, par)
        /\ parent' = par
        /\ Flush(p, st, b, par)

\* Process p changed nothing but the bookkeeping of its turn or title.
Settled(p) ==
    /\ UNCHANGED <<sess, parent>>
    /\ \E st \in States :
          /\ proc' = [proc EXCEPT ![p] = st]
          /\ proc[p].open /\ st.open /\ st.id = proc[p].id
          /\ st.saved = proc[p].saved /\ st.stopped = proc[p].stopped
          /\ st.base = proc[p].base /\ st.tip = proc[p].tip
          /\ st.count = proc[p].count /\ st.stub = proc[p].stub
          /\ st.turn => proc[p].turn /\ st.mark = proc[p].mark

LEMMA BatchType ==
    ASSUME NEW msgs \in SUBSET Msg, NEW title \in Titles, NEW moves \in BOOLEAN
    PROVE  /\ Batch(msgs, title, moves) \in Batches
           /\ Batch(msgs, title, moves).msgs = msgs
           /\ Batch(msgs, title, moves).moves = moves
           /\ Batch(msgs, title, moves).title = title
           /\ ~Batch(msgs, title, moves).snapshots
BY DEF Batch, Batches

LEMMA HeadBatch ==
    ASSUME NEW msgs \in SUBSET Msg
    PROVE  LET b == Batch(msgs, "none", TRUE)
           IN  b \in Batches /\ b.msgs = msgs /\ b.moves /\ ~b.snapshots
BY BatchType DEF Titles

\* A new message puts the tip it chains from, and all that is before it, on
\* the chain of the new tip, and lengthens the chain by one.
LEMMA NewMessage ==
    ASSUME NEW par \in Parents, NEW m, NEW q, NEW par2,
           Adds(par, m, q, par2)
    PROVE  /\ par2 \in Parents /\ Sound(par2)
           /\ Extends(par, par2)
           /\ m \in Chain(par2, Msg, m)
           /\ Chain(par, Msg, q) \subseteq Chain(par2, Msg, m)
           /\ q \in Chain(par2, Msg, m) \cup {None}
<1>1. /\ par2 \in Parents /\ Sound(par2) /\ Extends(par, par2)
      /\ Chain(par2, Msg, m) = {m} \cup Chain(par, Msg, q)
  BY MessageChains
<1>2. q \in Chain(par, Msg, q) \cup {None}
  BY ChainInRows DEF Adds, MsgOrNull
<1>3. QED
  BY <1>1, <1>2

\* The message a process writes after its tip.
LEMMA NextMessage ==
    ASSUME TypeOK, Counted, NEW p \in Proc, NEW m \in New,
           NEW par, par = [parent EXCEPT ![m] = proc[p].tip]
    PROVE  /\ Adds(parent, m, proc[p].tip, par)
           /\ Tallied(par, m, proc[p].count + 1, proc[p].stub)
           /\ Tallies(par, proc[p])
<1>1. /\ proc[p].tip \in MsgOrNull /\ proc[p].stub \in BOOLEAN
      /\ parent \in Parents /\ Forest(parent)
      /\ Tallied(parent, proc[p].tip, proc[p].count, proc[p].stub)
      /\ Tallies(parent, proc[p])
  BY DEF TypeOK, States, Counted, Sound, Tallies
<1>2. Adds(parent, m, proc[p].tip, par)
  BY <1>1 DEF Adds, New, Counted, Tallied
<1>3. Tallied(par, m, proc[p].count + 1, proc[p].stub)
  BY <1>1, <1>2, MessageTally
<1>4. par \in Parents /\ Extends(parent, par)
  BY <1>2, MessageChains
<1>5. QED
  BY <1>1, <1>2, <1>3, <1>4, TalliesKept

LEMMA ChainedState ==
    ASSUME NEW st \in States, NEW m \in Msg
    PROVE  /\ Chained(st, m) \in States
           /\ Chained(st, m).open = st.open /\ Chained(st, m).id = st.id
           /\ Chained(st, m).saved = st.saved /\ Chained(st, m).base = st.base
           /\ Chained(st, m).stopped = st.stopped
           /\ Chained(st, m).turn = st.turn /\ Chained(st, m).mark = st.mark
           /\ Chained(st, m).tip = m /\ Chained(st, m).count = st.count + 1
           /\ Chained(st, m).stub = st.stub
<1> DEFINE n == st.count + 1
<1>1. n \in Nat /\ m \in MsgOrNull
  BY DEF States, MsgOrNull
<1>2. Chained(st, m) = [st EXCEPT !.tip = m, !.count = n]
  BY DEF Chained
<1> HIDE DEF n
<1>3. QED
  BY <1>1, <1>2 DEF States, n

LEMMA PromptFlushes ==
    ASSUME TypeOK, OpenNamed, Counted,
           NEW p \in Proc, NEW m \in New, Prompt(p, m)
    PROVE  Flushed(p)
<1> DEFINE old    == proc[p]
           titles == ~old.seen /\ old.title # "user"
           par    == [parent EXCEPT ![m] = old.tip]
           st     == [Chained(old, m) EXCEPT
                        !.seen    = TRUE,
                        !.title   = IF titles THEN "prompt" ELSE @,
                        !.titling = @ \/ titles,
                        !.turn    = TRUE,
                        !.mark    = Checkpoint(old)]
           record == IF titles /\ old.saved THEN "prompt" ELSE "none"
           b      == Batch({m}, record, TRUE)
<1>1. /\ old \in States /\ old.open /\ old.id \in Session
      /\ m \in Msg
      /\ parent' = par
      /\ Flush(p, st, b, par)
  BY DEF Prompt, TypeOK, OpenNamed, New
<1>2. /\ par \in Parents /\ Extends(parent, par) /\ Sound(par)
      /\ m \in Chain(par, Msg, m)
      /\ old.tip \in Chain(par, Msg, m) \cup {None}
      /\ Tallied(par, m, old.count + 1, old.stub) /\ Tallies(par, old)
  <2>1. /\ Adds(parent, m, old.tip, par)
        /\ Tallied(par, m, old.count + 1, old.stub) /\ Tallies(par, old)
    BY NextMessage
  <2>2. parent \in Parents
    BY DEF TypeOK
  <2> HIDE DEF par, old
  <2>3. QED
    BY <2>1, <2>2, NewMessage
<1>3. /\ b \in Batches /\ b.msgs = {m} /\ b.moves /\ ~b.snapshots
  <2>1. record \in Titles /\ {m} \in SUBSET Msg
    BY <1>1 DEF Titles
  <2> HIDE DEF record
  <2>2. QED
    BY <2>1, BatchType
<1>4. /\ Checkpoint(old) \in Checkpoints /\ Checkpoint(old).tip = old.tip
      /\ Checkpoint(old).count = old.count
  BY <1>1, CheckpointType DEF Checkpoint
<1>5. /\ st \in States /\ st.open /\ st.id = old.id /\ st.saved = old.saved
      /\ st.base = old.base /\ st.stopped = old.stopped /\ st.tip = m
      /\ st.mark = Checkpoint(old) /\ st.count = old.count + 1
      /\ st.stub = old.stub
  <2> DEFINE title   == IF titles THEN "prompt" ELSE Chained(old, m).title
             titling == Chained(old, m).titling \/ titles
  <2>1. Chained(old, m) \in States
    BY <1>1, ChainedState
  <2>2. st = [Chained(old, m) EXCEPT
                 !.seen = TRUE, !.title = title, !.titling = titling,
                 !.turn = TRUE, !.mark = Checkpoint(old)]
    OBVIOUS
  <2>3. title \in Titles
    BY <2>1 DEF States, Titles
  <2>4. titling \in BOOLEAN
    OBVIOUS
  <2>5. /\ Chained(old, m).open /\ Chained(old, m).id = old.id
        /\ Chained(old, m).saved = old.saved /\ Chained(old, m).base = old.base
        /\ Chained(old, m).stopped = old.stopped /\ Chained(old, m).tip = m
        /\ Chained(old, m).count = old.count + 1
        /\ Chained(old, m).stub = old.stub
    BY <1>1, ChainedState
  <2> DEFINE chained == Chained(old, m)
             mark    == Checkpoint(old)
  <2> HIDE DEF title, titling, st, mark, chained
  <2>6. st \in States
    BY <1>4, <2>1, <2>2, <2>3, <2>4 DEF States, chained, mark
  <2>7. st.mark = mark
    BY <2>1, <2>2 DEF States, chained, mark
  <2>8. QED
    BY <2>1, <2>2, <2>5, <2>6, <2>7 DEF States, chained, mark
<1> HIDE DEF par, st, b
<1>6. Tallies(par, st)
  BY <1>2, <1>4, <1>5 DEF Tallies
<1>7. Queued(p, st, b, par)
  BY <1>1, <1>2, <1>3, <1>4, <1>5, <1>6 DEF Queued, QueuedType
<1>8. QED
  BY <1>1, <1>2, <1>3, <1>5, <1>7 DEF Flushed

LEMMA MessageFlushes ==
    ASSUME TypeOK, OpenNamed, RollbackOnChain, Counted,
           NEW p \in Proc, NEW m \in New, Message(p, m)
    PROVE  Flushed(p)
<1> DEFINE old == proc[p]
           par == [parent EXCEPT ![m] = old.tip]
           st  == Chained(old, m)
           b   == Batch({m}, "none", TRUE)
<1>1. /\ old \in States /\ old.open /\ old.turn /\ old.id \in Session
      /\ m \in Msg
      /\ parent' = par
      /\ Flush(p, st, b, par)
  BY DEF Message, TypeOK, OpenNamed, New
<1>2. /\ par \in Parents /\ Extends(parent, par) /\ Sound(par)
      /\ Chain(parent, Msg, old.tip) \subseteq Chain(par, Msg, m)
      /\ Tallied(par, m, old.count + 1, old.stub) /\ Tallies(par, old)
  <2>1. /\ Adds(parent, m, old.tip, par)
        /\ Tallied(par, m, old.count + 1, old.stub) /\ Tallies(par, old)
    BY NextMessage
  <2>2. parent \in Parents
    BY DEF TypeOK
  <2> HIDE DEF par, old
  <2>3. QED
    BY <2>1, <2>2, NewMessage
<1>3. /\ b \in Batches /\ b.msgs = {m} /\ b.moves /\ ~b.snapshots
  BY <1>1, HeadBatch
<1>4. /\ st \in States /\ st.open /\ st.id = old.id /\ st.saved = old.saved
      /\ st.base = old.base /\ st.stopped = old.stopped /\ st.tip = m
      /\ st.mark = old.mark /\ st.turn = old.turn /\ st.count = old.count + 1
      /\ st.stub = old.stub
  BY <1>1, ChainedState
<1>5. old.mark.tip \in Chain(parent, Msg, old.tip) \cup {None}
  BY <1>1 DEF RollbackOnChain, View
<1> HIDE DEF par, st, b
<1>6. Tallies(par, st)
  BY <1>2, <1>4 DEF Tallies
<1>7. Queued(p, st, b, par)
  BY <1>1, <1>2, <1>3, <1>4, <1>5, <1>6 DEF Queued, QueuedType
<1>8. QED
  BY <1>1, <1>2, <1>3, <1>4, <1>7 DEF Flushed

LEMMA RoundFlushes ==
    ASSUME TypeOK, OpenNamed, RollbackOnChain, Counted, NEW p \in Proc,
           NEW a \in New, NEW r \in New, Round(p, a, r)
    PROVE  Flushed(p)
<1> DEFINE old == proc[p]
           mid == [parent EXCEPT ![a] = old.tip]
           par == [parent EXCEPT ![a] = old.tip, ![r] = a]
           st  == Chained(Chained(old, a), r)
           b   == Batch({a, r}, "none", TRUE)
<1>1. /\ old \in States /\ old.open /\ old.turn /\ old.id \in Session
      /\ a \in Msg /\ r \in Msg /\ a # r
      /\ parent[a] = Unborn /\ parent[r] = Unborn
      /\ parent' = par
      /\ Flush(p, st, b, par)
  BY DEF Round, TypeOK, OpenNamed, New
<1>2. /\ mid \in Parents /\ Extends(parent, mid) /\ Sound(mid)
      /\ Chain(parent, Msg, old.tip) \subseteq Chain(mid, Msg, a)
      /\ Tallied(mid, a, old.count + 1, old.stub) /\ Tallies(mid, old)
  <2>1. /\ Adds(parent, a, old.tip, mid)
        /\ Tallied(mid, a, old.count + 1, old.stub) /\ Tallies(mid, old)
    BY NextMessage
  <2>2. parent \in Parents
    BY DEF TypeOK
  <2> HIDE DEF mid, old
  <2>3. QED
    BY <2>1, <2>2, NewMessage
<1>3. /\ mid[r] = Unborn
      /\ par = [mid EXCEPT ![r] = a]
  BY <1>1 DEF TypeOK, Parents
<1>4. Adds(mid, r, a, par)
  BY <1>1, <1>2, <1>3 DEF Adds, MsgOrNull, Tallied
<1>5. /\ par \in Parents /\ Extends(mid, par) /\ Sound(par)
      /\ Tallied(par, r, old.count + 1 + 1, old.stub) /\ Tallies(par, old)
  <2>1. par \in Parents /\ Extends(mid, par) /\ Sound(par)
    BY <1>4, MessageChains
  <2>2. Tallied(par, r, old.count + 1 + 1, old.stub)
    <3>1. old.stub \in BOOLEAN
      BY <1>1 DEF States
    <3> HIDE DEF mid, par
    <3>2. QED
      BY <1>2, <1>4, <3>1, MessageTally
  <2>3. QED
    BY <1>2, <2>1, <2>2, TalliesKept DEF Sound
<1>6. /\ Extends(parent, par)
      /\ Chain(parent, Msg, old.tip) \subseteq Chain(par, Msg, r)
  <2>1. Extends(parent, par)
    BY <1>2, <1>5, <1>1 DEF Extends, Parents
  <2> HIDE DEF mid, par
  <2>2. Chain(mid, Msg, a) \subseteq Chain(par, Msg, r)
    BY <1>2, <1>4, NewMessage
  <2>3. QED
    BY <1>2, <2>1, <2>2
<1>7. /\ b \in Batches /\ b.msgs = {a, r} /\ b.moves /\ ~b.snapshots
  BY <1>1, HeadBatch
<1>8. Chained(old, a) \in States
  BY <1>1, ChainedState
<1>9. /\ st \in States /\ st.open /\ st.id = old.id /\ st.saved = old.saved
      /\ st.base = old.base /\ st.stopped = old.stopped /\ st.tip = r
      /\ st.mark = old.mark /\ st.turn = old.turn
      /\ st.count = old.count + 1 + 1 /\ st.stub = old.stub
  <2> DEFINE one == Chained(old, a)
  <2>1. /\ one.open = old.open /\ one.id = old.id /\ one.saved = old.saved
        /\ one.base = old.base /\ one.stopped = old.stopped
        /\ one.turn = old.turn /\ one.mark = old.mark
        /\ one.count = old.count + 1 /\ one.stub = old.stub
    BY <1>1, ChainedState
  <2> HIDE DEF one, old
  <2>2. one \in States /\ st = Chained(one, r)
    BY <1>8 DEF one
  <2> DEFINE two == Chained(one, r)
  <2>3. /\ two \in States /\ two.open = one.open /\ two.id = one.id
        /\ two.saved = one.saved /\ two.base = one.base
        /\ two.stopped = one.stopped /\ two.tip = r
        /\ two.turn = one.turn /\ two.mark = one.mark
        /\ two.count = one.count + 1 /\ two.stub = one.stub
    BY <1>1, <2>2, ChainedState
  <2>4. st = two
    BY <2>2
  <2> HIDE DEF st, two
  <2>5. QED
    BY <1>1, <2>1, <2>3, <2>4
<1>10. old.mark.tip \in Chain(parent, Msg, old.tip) \cup {None}
  BY <1>1 DEF RollbackOnChain, View
<1> HIDE DEF par, mid, st, b
<1>11. Tallies(par, st)
  BY <1>5, <1>9 DEF Tallies
<1>12. Queued(p, st, b, par)
  BY <1>1, <1>5, <1>6, <1>7, <1>9, <1>10, <1>11 DEF Queued, QueuedType
<1>13. QED
  BY <1>1, <1>5, <1>7, <1>9, <1>12 DEF Flushed

LEMMA CompactFlushes ==
    ASSUME TypeOK, OpenNamed, Counted,
           NEW p \in Proc, NEW m \in New, Compact(p, m)
    PROVE  Flushed(p)
<1> DEFINE old  == proc[p]
           par  == [parent EXCEPT ![m] = None]
           new  == [old EXCEPT !.tip = m, !.count = 1, !.stub = FALSE, !.seen = TRUE]
           mark == IF old.turn THEN Checkpoint(new) ELSE new.mark
           st   == [new EXCEPT !.mark = mark]
           b    == Batch({m}, "none", TRUE)
<1>1. /\ old \in States /\ old.open /\ old.id \in Session
      /\ m \in Msg
      /\ parent' = par
      /\ Flush(p, st, b, par)
  BY DEF Compact, TypeOK, OpenNamed, New
<1>2. /\ par \in Parents /\ Extends(parent, par) /\ Sound(par)
      /\ m \in Chain(par, Msg, m)
      /\ Tallied(par, m, 1, FALSE)
  <2>1. parent \in Parents /\ FALSE \in BOOLEAN /\ 0 + 1 = 1
    BY DEF TypeOK
  <2>2. Tallied(parent, None, 0, FALSE)
    BY NoTally
  <2>3. Adds(parent, m, None, par)
    BY <1>1, <2>1, <2>2 DEF Adds, New, Counted, Tallied, MsgOrNull
  <2> HIDE DEF par
  <2>4. Tallied(par, m, 0 + 1, FALSE)
    BY <2>1, <2>2, <2>3, MessageTally
  <2>5. QED
    BY <2>1, <2>3, <2>4, NewMessage
<1>3. /\ b \in Batches /\ b.msgs = {m} /\ b.moves /\ ~b.snapshots
  BY <1>1, HeadBatch
<1>4. /\ new \in States /\ new.open /\ new.id = old.id /\ new.saved = old.saved
      /\ new.base = old.base /\ new.stopped = old.stopped /\ new.tip = m
      /\ new.turn = old.turn /\ new.count = 1 /\ new.stub = FALSE
  BY <1>1 DEF States, MsgOrNull
<1> HIDE DEF new
<1>5. /\ mark \in Checkpoints
      /\ new.turn => mark.tip = m /\ mark.count = 1
  <2>1. new.mark \in Checkpoints
    BY <1>4 DEF States
  <2>2. /\ Checkpoint(new) \in Checkpoints /\ Checkpoint(new).tip = m
        /\ Checkpoint(new).count = 1
    BY <1>4, CheckpointType DEF Checkpoint
  <2>3. QED
    BY <1>4, <2>1, <2>2
<1> HIDE DEF mark
<1>6. /\ st \in States /\ st.open /\ st.id = old.id /\ st.saved = old.saved
      /\ st.base = old.base /\ st.stopped = old.stopped /\ st.tip = m
      /\ st.mark = mark /\ st.turn = new.turn /\ st.count = 1 /\ st.stub = FALSE
  BY <1>4, <1>5 DEF States
<1> HIDE DEF par, st, b
<1>7. Tallies(par, st)
  BY <1>2, <1>5, <1>6 DEF Tallies
<1>8. Queued(p, st, b, par)
  BY <1>1, <1>2, <1>3, <1>5, <1>6, <1>7 DEF Queued, QueuedType
<1>9. QED
  BY <1>1, <1>2, <1>3, <1>6, <1>8 DEF Flushed

LEMMA RewindFlushes ==
    ASSUME TypeOK, OpenNamed, RollbackOnChain, Counted,
           NEW p \in Proc, Rewind(p)
    PROVE  Flushed(p)
<1> DEFINE old == proc[p]
           st  == [old EXCEPT !.tip   = old.mark.tip,
                              !.count = old.mark.count,
                              !.seen  = old.mark.seen,
                              !.turn  = FALSE,
                              !.mark  = NoMark]
           b   == Batch({}, "none", TRUE)
<1>1. /\ old \in States /\ old.open /\ old.turn /\ old.id \in Session
      /\ parent' = parent /\ parent \in Parents
      /\ Flush(p, st, b, parent)
  BY DEF Rewind, TypeOK, OpenNamed
<1>2. /\ b \in Batches /\ b.msgs = {} /\ b.moves /\ ~b.snapshots
  BY HeadBatch
<1>3. /\ old.mark.tip \in MsgOrNull /\ old.mark.count \in Nat
      /\ old.mark.seen \in BOOLEAN /\ NoMark \in Checkpoints
  BY <1>1, CheckpointType DEF States, Checkpoints
<1>4. /\ st \in States /\ st.open /\ st.id = old.id /\ st.saved = old.saved
      /\ st.base = old.base /\ st.stopped = old.stopped
      /\ st.tip = old.mark.tip /\ ~st.turn /\ st.count = old.mark.count
      /\ st.stub = old.stub
  BY <1>1, <1>3 DEF States
<1>5. old.mark.tip \in Chain(parent, Msg, old.tip) \cup {None}
  BY <1>1 DEF RollbackOnChain, View
<1> HIDE DEF st, b
<1>6. Sound(parent) /\ Tallies(parent, st)
  BY <1>1, <1>4 DEF Counted, Tallies
<1>7. Queued(p, st, b, parent)
  BY <1>1, <1>2, <1>4, <1>5, <1>6 DEF Queued, QueuedType, Extends
<1>8. QED
  BY <1>1, <1>2, <1>4, <1>7 DEF Flushed

\* A Title record alone.
LEMMA TitleQueued ==
    ASSUME TypeOK, OpenNamed, RollbackOnChain, Counted,
           NEW p \in Proc, proc[p].open,
           NEW held \in States,
           held = proc[p] \/ held = [proc[p] EXCEPT !.titling = FALSE],
           NEW title \in Titles,
           UNCHANGED parent, SetTitle(p, held, title)
    PROVE  Flushed(p)
<1> DEFINE old    == proc[p]
           record == IF held.saved THEN title ELSE "none"
           b      == Batch({}, record, FALSE)
           st     == [held EXCEPT !.title = title]
<1>1. /\ old \in States /\ old.open /\ old.id \in Session
      /\ parent' = parent /\ parent \in Parents
      /\ Flush(p, st, b, parent)
  BY DEF SetTitle, TypeOK, OpenNamed
<1>2. /\ b \in Batches /\ b.msgs = {} /\ ~b.moves /\ ~b.snapshots
  <2>1. record \in Titles
    BY DEF Titles
  <2> HIDE DEF record
  <2>2. QED
    BY <2>1, BatchType
<1>3. /\ held.open /\ held.id = old.id /\ held.saved = old.saved
      /\ held.base = old.base /\ held.stopped = old.stopped
      /\ held.tip = old.tip /\ held.turn = old.turn /\ held.mark = old.mark
      /\ held.count = old.count /\ held.stub = old.stub
  BY <1>1 DEF States
<1>4. /\ st \in States /\ st.open /\ st.id = old.id /\ st.saved = old.saved
      /\ st.base = old.base /\ st.stopped = old.stopped /\ st.tip = old.tip
      /\ st.turn = old.turn /\ st.mark = old.mark /\ st.count = old.count
      /\ st.stub = old.stub
  BY <1>3 DEF States
<1>5. old.turn => old.mark.tip \in Chain(parent, Msg, old.tip) \cup {None}
  BY <1>1 DEF RollbackOnChain, View
<1> HIDE DEF st, b
<1>6. Sound(parent) /\ Tallies(parent, st)
  BY <1>4 DEF Counted, Tallies
<1>7. Queued(p, st, b, parent)
  BY <1>1, <1>2, <1>4, <1>5, <1>6 DEF Queued, QueuedType, Extends
<1>8. QED
  BY <1>1, <1>2, <1>4, <1>7 DEF Flushed

LEMMA RenameFlushes ==
    ASSUME TypeOK, OpenNamed, RollbackOnChain, Counted,
           NEW p \in Proc, Rename(p)
    PROVE  Flushed(p)
<1>1. proc[p] \in States /\ "user" \in Titles
  BY DEF TypeOK, Titles
<1>2. proc[p].open /\ parent' = parent /\ SetTitle(p, proc[p], "user")
  BY DEF Rename
<1>3. QED
  BY <1>1, <1>2, TitleQueued

LEMMA AiTitleFlushes ==
    ASSUME TypeOK, OpenNamed, RollbackOnChain, Counted,
           NEW p \in Proc, AiTitle(p)
    PROVE  Flushed(p) \/ Settled(p)
<1> DEFINE st == [proc[p] EXCEPT !.titling = FALSE]
<1>1. /\ st \in States /\ "ai" \in Titles /\ proc[p].open /\ parent' = parent
      /\ proc[p] \in States
  BY DEF TypeOK, States, Titles, AiTitle
<1>2. CASE st.title = "user"
  <2>1. proc' = [proc EXCEPT ![p] = st] /\ UNCHANGED <<sess, parent>>
    BY <1>2 DEF AiTitle
  <2>2. /\ st.open /\ st.id = proc[p].id
        /\ st.saved = proc[p].saved /\ st.stopped = proc[p].stopped
        /\ st.base = proc[p].base /\ st.tip = proc[p].tip
        /\ st.turn = proc[p].turn /\ st.mark = proc[p].mark
        /\ st.count = proc[p].count /\ st.stub = proc[p].stub
    BY <1>1 DEF States
  <2> HIDE DEF st
  <2>3. QED
    BY <1>1, <2>1, <2>2 DEF Settled
<1>3. CASE st.title # "user"
  <2>1. SetTitle(p, st, "ai")
    BY <1>3 DEF AiTitle
  <2>2. st = proc[p] \/ st = [proc[p] EXCEPT !.titling = FALSE]
    OBVIOUS
  <2> HIDE DEF st
  <2>3. QED
    BY <1>1, <2>1, <2>2, TitleQueued
<1>4. QED
  BY <1>2, <1>3

LEMMA EndTurnSettles ==
    ASSUME TypeOK, NEW p \in Proc, EndTurn(p)
    PROVE  Settled(p)
<1> DEFINE st == [proc[p] EXCEPT !.turn = FALSE, !.mark = NoMark]
<1>1. proc[p] \in States /\ NoMark \in Checkpoints /\ proc[p].open
  BY CheckpointType DEF TypeOK, EndTurn
<1>2. /\ st \in States /\ st.open /\ st.id = proc[p].id
      /\ st.saved = proc[p].saved /\ st.stopped = proc[p].stopped
      /\ st.base = proc[p].base /\ st.tip = proc[p].tip /\ ~st.turn
      /\ st.count = proc[p].count /\ st.stub = proc[p].stub
  BY <1>1 DEF States
<1>3. proc' = [proc EXCEPT ![p] = st] /\ UNCHANGED <<sess, parent>>
  BY DEF EndTurn
<1> HIDE DEF st
<1>4. QED
  BY <1>1, <1>2, <1>3 DEF Settled

-----------------------------------------------------------------------------
(***************************************************************************)
(* The inductive invariant                                                 *)
(***************************************************************************)

\* A process that is not running ox holds nothing.
ClosedOff == \A p \in Proc : ~proc[p].open => proc[p] = Off

\* A process with a saved session knows a head that its session holds, and
\* while its writes land that head is its tip.
Held ==
    \A p \in Proc : proc[p].saved =>
        /\ proc[p].open
        /\ sess[proc[p].id].stored
        /\ proc[p].base \in sess[proc[p].id].msgs \cup {None}
        /\ ~proc[p].stopped => proc[p].base = proc[p].tip

\* A session that is not saved yet is in one memory alone and empty.
FreshAlone ==
    \A p \in Proc : proc[p].open /\ ~proc[p].saved =>
        /\ ~sess[proc[p].id].stored
        /\ \A q \in Proc \ {p} : proc[q].id # proc[p].id
        /\ ~proc[p].stopped => proc[p].tip = None

\* A session without a row owns no messages and no snapshots.
AbsentEmpty ==
    \A s \in Session :
        ~sess[s].stored => sess[s].msgs = {} /\ sess[s].snap = None

\* The count of a row is that of the chain its head ends.
RowCounts ==
    \A s \in Session : Counts(sess[s].count, Transcript(parent, sess[s]))

IInv ==
    /\ TypeOK /\ OpenNamed /\ ClosedOff
    /\ AbsentEmpty /\ ChainsComplete /\ Held /\ FreshAlone
    /\ RollbackOnChain /\ Counted /\ RowCounts

LEMMA InitIInv == Init => IInv
<1> SUFFICES ASSUME Init PROVE IInv
  OBVIOUS
<1>1. /\ NoRow \in Rows /\ NoRow.head = None /\ NoRow.msgs = {}
      /\ ~NoRow.stored /\ NoRow.snap = None /\ NoRow.count = 0
  BY DEF NoRow, Rows, MsgOrNull, Titles
<1>2. /\ Off \in States /\ ~Off.open /\ ~Off.saved
      /\ ~Off.turn /\ Off.tip = None /\ Off.count = 0 /\ Off.stub = FALSE
  BY OffState DEF Off
<1>3. TypeOK
  BY <1>1, <1>2 DEF Init, TypeOK, Parents
<1>4. ChainsComplete /\ AbsentEmpty
  BY <1>1 DEF Init, ChainsComplete, AbsentEmpty
<1>5. OpenNamed /\ ClosedOff /\ Held /\ FreshAlone /\ RollbackOnChain
  BY <1>2 DEF Init, OpenNamed, ClosedOff, Held, FreshAlone, RollbackOnChain
<1>6. Sound(parent)
  <2>1. \A x \in Msg : parent[x] = Unborn
    BY DEF Init
  <2>2. \A x \in Msg : Chain(parent, Msg, x) = {x}
    BY <1>3, <2>1, ChainUnborn DEF TypeOK
  <2>3. QED
    BY <2>1, <2>2, RowsAssumption DEF Sound, Forest, Written, Acyclic
<1>7. Counted
  <2>1. Tallied(parent, None, 0, FALSE)
    BY NoTally
  <2>2. QED
    BY <1>2, <1>6, <2>1 DEF Counted, Tallies, Init
<1>8. RowCounts
  <2>1. Chain(parent, {}, None) = {}
    BY DEF Chain
  <2>2. \A s \in Session : Transcript(parent, sess[s]) = {}
    BY <1>1, <2>1 DEF Init, Transcript
  <2>3. QED
    BY <1>1, <2>2, FS_EmptySet DEF Init, RowCounts, Counts
<1>9. QED
  BY <1>3, <1>4, <1>5, <1>7, <1>8 DEF IInv

\* Messages written since leave stored chains and rollback points alone.
LEMMA OldRowsKeep ==
    ASSUME IInv, NEW par \in Parents, Extends(parent, par), NEW s \in Session
    PROVE  \A m \in sess[s].msgs :
              m \in Msg /\ par[m] = parent[m] /\ par[m] \in sess[s].msgs \cup {None}
<1>1. SUFFICES ASSUME NEW m \in sess[s].msgs
               PROVE  m \in Msg /\ par[m] = parent[m]
                        /\ par[m] \in sess[s].msgs \cup {None}
  OBVIOUS
<1>2. sess[s].msgs \subseteq Msg
  BY DEF IInv, TypeOK, Rows
<1>3. parent[m] \in sess[s].msgs \cup {None}
  BY DEF IInv, ChainsComplete
<1>4. parent[m] # Unborn
  BY <1>2, <1>3, RowsAssumption
<1>5. QED
  BY <1>2, <1>3, <1>4 DEF Extends

\* They change the transcript of no session.
LEMMA TranscriptKept ==
    ASSUME IInv, NEW par \in Parents, Extends(parent, par), NEW s \in Session
    PROVE  /\ Transcript(par, sess[s]) = Transcript(parent, sess[s])
           /\ Transcript(parent, sess[s]) = Chain(parent, Msg, sess[s].head)
           /\ Written(parent, sess[s].head)
<1> DEFINE S == sess[s].msgs
           m == sess[s].head
<1>1. /\ S \in SUBSET Msg /\ m \in S \cup {None} /\ parent \in Parents
      /\ Forest(parent)
  BY DEF IInv, TypeOK, Rows, ChainsComplete, Counted, Sound
<1>2. /\ \A x \in S : par[x] \in S \cup {None}
      /\ \A x \in S : parent[x] \in S \cup {None}
  BY OldRowsKeep DEF IInv, ChainsComplete
<1>3. Written(parent, m)
  BY <1>1, <1>2, RowsAssumption DEF Written
<1> HIDE DEF S, m
<1>4. /\ Chain(par, S, m) = Chain(par, Msg, m)
      /\ Chain(parent, S, m) = Chain(parent, Msg, m)
  BY <1>1, <1>2, ChainLocal
<1>5. Chain(par, Msg, m) = Chain(parent, Msg, m)
  BY <1>1, <1>3, ChainKept
<1>6. QED
  BY <1>3, <1>4, <1>5 DEF Transcript, S, m

LEMMA RollbackKeeps ==
    ASSUME IInv, NEW par \in Parents, Extends(parent, par), parent' = par,
           NEW p \in Proc, NEW st, proc' = [proc EXCEPT ![p] = st],
           st.turn => st.mark.tip \in Chain(par, Msg, st.tip) \cup {None}
    PROVE  RollbackOnChain'
<1>1. proc \in [Proc -> States] /\ parent \in Parents
  BY DEF IInv, TypeOK
<1>2. SUFFICES ASSUME NEW q \in Proc, proc'[q].open, proc'[q].turn
               PROVE  proc'[q].mark.tip \in
                         Chain(par, Msg, proc'[q].tip) \cup {None}
  BY DEF RollbackOnChain, View
<1>3. CASE q = p
  BY <1>1, <1>2, <1>3
<1>4. CASE q # p
  <2>1. proc'[q] = proc[q]
    BY <1>1, <1>4
  <2>2. proc[q].mark.tip \in Chain(parent, Msg, proc[q].tip) \cup {None}
    BY <1>2, <2>1 DEF IInv, RollbackOnChain, View
  <2>3. Chain(parent, Msg, proc[q].tip) \subseteq Chain(par, Msg, proc[q].tip)
    BY <1>1, ChainGrows
  <2>4. QED
    BY <2>1, <2>2, <2>3
<1>5. QED
  BY <1>3, <1>4

LEMMA CountsKeep ==
    ASSUME IInv, NEW par \in Parents, Extends(parent, par), parent' = par,
           NEW p \in Proc, NEW st, proc' = [proc EXCEPT ![p] = st],
           Sound(par), Tallies(par, st)
    PROVE  Counted'
<1>1. proc \in [Proc -> States] /\ parent \in Parents /\ Forest(parent)
  BY DEF IInv, TypeOK, Counted, Sound
<1>2. SUFFICES ASSUME NEW q \in Proc
               PROVE  Tallies(par, proc'[q])
  BY DEF Counted
<1>3. CASE q = p
  BY <1>1, <1>3
<1>4. CASE q # p
  <2>1. proc'[q] = proc[q] /\ Tallies(parent, proc[q])
    BY <1>1, <1>4 DEF IInv, Counted
  <2>2. QED
    BY <1>1, <2>1, TalliesKept
<1>5. QED
  BY <1>3, <1>4

\* A step that changes one open process and no row.
LEMMA MemoryKeeps ==
    ASSUME IInv, NEW p \in Proc, NEW par \in Parents, Extends(parent, par),
           parent' = par, sess' = sess,
           NEW st \in States, proc' = [proc EXCEPT ![p] = st],
           proc[p].open, st.open, st.id = proc[p].id, st.saved = proc[p].saved,
           st.base = proc[p].base,
           st.saved /\ ~st.stopped => st.base = st.tip,
           ~st.saved /\ ~st.stopped => st.tip = None,
           st.turn => st.mark.tip \in Chain(par, Msg, st.tip) \cup {None},
           Sound(par), Tallies(par, st)
    PROVE  IInv'
<1>1. TypeOK /\ TypeOK'
  BY DEF IInv, TypeOK
<1>2. \A q \in Proc : proc'[q] = IF q = p THEN st ELSE proc[q]
  BY <1>1 DEF TypeOK
<1>3. OpenNamed' /\ ClosedOff'
  BY <1>2 DEF IInv, OpenNamed, ClosedOff
<1>4. ChainsComplete' /\ AbsentEmpty'
  BY OldRowsKeep DEF IInv, ChainsComplete, AbsentEmpty
<1>5. Held'
  BY <1>2 DEF IInv, Held
<1>6. FreshAlone'
  BY <1>2 DEF IInv, FreshAlone
<1>7. RollbackOnChain'
  BY RollbackKeeps
<1>8. Counted'
  BY CountsKeep
<1>9. RowCounts'
  BY TranscriptKept DEF IInv, RowCounts
<1>10. QED
  BY <1>1, <1>3, <1>4, <1>5, <1>6, <1>7, <1>8, <1>9 DEF IInv

\* A batch that lands on the row of a session whose messages it keeps, or on
\* the row of a session nobody else knows.
LEMMA LandKeeps ==
    ASSUME IInv, NEW p \in Proc,
           NEW st \in States, NEW b \in Batches, NEW par \in Parents,
           Queued(p, st, b, par), parent' = par,
           NEW s \in Session, NEW row \in Rows, NEW readBack,
           LandOn(p, st, b, par, s, row, readBack), row.stored,
           \A x \in row.msgs : par[x] \in row.msgs \cup {None},
           row.head \in row.msgs \cup {None},
           b.moves => st.tip \in row.msgs \cup b.msgs \cup {None},
           ~b.moves => /\ st.base = st.tip
                       /\ st.base \in row.msgs \cup {None},
           sess[s].msgs \subseteq row.msgs,
           ~b.moves => Counts(row.count, Chain(par, row.msgs, row.head)),
           \A q \in Proc \ {p} :
              proc[q].open /\ ~proc[q].saved => proc[q].id # s
    PROVE  IInv'
<1> DEFINE landed == Landed(row, b, st.base, st.tip, st.count)
<1>1. /\ TypeOK /\ TypeOK' /\ Extends(parent, par) /\ parent \in Parents
      /\ st.base \in MsgOrNull /\ st.tip \in MsgOrNull /\ st.count \in Nat
      /\ b.msgs \subseteq Msg
  <2>1. landed \in Rows /\ landed.title \in Titles
    BY LandedRow DEF States, Rows
  <2>2. PICK st2 : /\ proc' = [proc EXCEPT ![p] = st2]
                   /\ st2 = [st EXCEPT !.id    = s,
                                       !.saved = TRUE,
                                       !.base  = IF b.moves THEN st.tip ELSE @,
                                       !.title = IF readBack THEN landed.title
                                                             ELSE @]
    BY DEF LandOn
  <2>3. st2 \in States
    BY <2>1, <2>2 DEF States
  <2>4. sess' = [sess EXCEPT ![s] = landed]
    BY DEF LandOn
  <2>5. TypeOK /\ TypeOK'
    BY <2>1, <2>2, <2>3, <2>4 DEF IInv, TypeOK
  <2>6. QED
    BY <2>5 DEF Queued, States, Batches, TypeOK
<1>2. PICK st2 \in States :
         /\ proc' = [proc EXCEPT ![p] = st2]
         /\ st2.open /\ st2.id = s /\ st2.saved
         /\ st2.base = (IF b.moves THEN st.tip ELSE st.base)
         /\ st2.tip = st.tip /\ st2.turn = st.turn /\ st2.mark = st.mark
         /\ st2.count = st.count /\ st2.stub = st.stub
  <2> DEFINE st2 == [st EXCEPT !.id    = s,
                               !.saved = TRUE,
                               !.base  = IF b.moves THEN st.tip ELSE @,
                               !.title = IF readBack THEN landed.title ELSE @]
  <2>1. landed.title \in Titles
    BY <1>1, LandedRow DEF Rows
  <2>2. proc' = [proc EXCEPT ![p] = st2]
    BY DEF LandOn
  <2>3. /\ st2 \in States /\ st2.open /\ st2.id = s /\ st2.saved
        /\ st2.base = (IF b.moves THEN st.tip ELSE st.base)
        /\ st2.tip = st.tip /\ st2.turn = st.turn /\ st2.mark = st.mark
        /\ st2.count = st.count /\ st2.stub = st.stub
    BY <1>1, <2>1 DEF States, Queued, QueuedType
  <2> HIDE DEF st2
  <2>4. QED
    BY <2>2, <2>3
<1>3. /\ sess' = [sess EXCEPT ![s] = landed]
      /\ \A m \in b.msgs : par[m] \in row.msgs \cup b.msgs \cup {None}
  BY DEF LandOn, Insertable
<1>4. /\ landed.msgs = row.msgs \cup b.msgs
      /\ landed.head = (IF b.moves THEN st.tip ELSE row.head)
      /\ landed.stored = row.stored
      /\ landed.count = (IF b.moves THEN st.count ELSE row.count)
  <2>1. /\ st.base \in MsgOrNull /\ st.tip \in MsgOrNull /\ st.count \in Nat
        /\ row \in Rows /\ b \in Batches
    BY <1>1
  <2>2. QED
    BY ONLY <2>1, LandedRow
<1> HIDE DEF landed
<1>5. /\ \A q \in Proc : proc'[q] = IF q = p THEN st2 ELSE proc[q]
      /\ \A t \in Session : sess'[t] = IF t = s THEN landed ELSE sess[t]
  BY <1>1, <1>2, <1>3 DEF TypeOK
<1>6. OpenNamed' /\ ClosedOff'
  BY <1>2, <1>5 DEF IInv, OpenNamed, ClosedOff
<1>7. ChainsComplete'
  <2>1. ASSUME NEW t \in Session
        PROVE  /\ sess'[t].head \in sess'[t].msgs \cup {None}
               /\ \A m \in sess'[t].msgs : par[m] \in sess'[t].msgs \cup {None}
    <3>1. CASE t = s
      BY <1>3, <1>4, <1>5, <3>1
    <3>2. CASE t # s
      <4>1. sess'[t] = sess[t]
        BY <1>5, <3>2
      <4>2. sess[t].head \in sess[t].msgs \cup {None}
        BY DEF IInv, ChainsComplete
      <4>3. QED
        BY <1>1, <4>1, <4>2, OldRowsKeep
    <3>3. QED
      BY <3>1, <3>2
  <2>2. QED
    BY <2>1 DEF ChainsComplete
<1>8. Held'
  <2>1. ASSUME NEW q \in Proc, proc'[q].saved
        PROVE  /\ proc'[q].open
               /\ sess'[proc'[q].id].stored
               /\ proc'[q].base \in sess'[proc'[q].id].msgs \cup {None}
               /\ ~proc'[q].stopped => proc'[q].base = proc'[q].tip
    <3>1. CASE q = p
      <4>1. proc'[q] = st2 /\ sess'[proc'[q].id] = landed
        BY <1>2, <1>5, <3>1
      <4>2. st2.base \in row.msgs \cup b.msgs \cup {None}
        BY <1>2
      <4>3. st2.base = st2.tip
        BY <1>2
      <4>4. QED
        BY <1>2, <1>4, <4>1, <4>2, <4>3
    <3>2. CASE q # p
      <4>1. proc'[q] = proc[q]
        BY <1>5, <3>2
      <4>2. /\ proc[q].open /\ sess[proc[q].id].stored
            /\ proc[q].base \in sess[proc[q].id].msgs \cup {None}
            /\ ~proc[q].stopped => proc[q].base = proc[q].tip
        BY <2>1, <4>1 DEF IInv, Held
      <4>3. proc[q].id \in Session
        BY <4>2 DEF IInv, OpenNamed
      <4>4. QED
        BY <1>4, <1>5, <4>1, <4>2, <4>3
    <3>3. QED
      BY <3>1, <3>2
  <2>2. QED
    BY <2>1 DEF Held
<1>9. FreshAlone'
  <2>1. ASSUME NEW q \in Proc, proc'[q].open, ~proc'[q].saved
        PROVE  /\ ~sess'[proc'[q].id].stored
               /\ \A r \in Proc \ {q} : proc'[r].id # proc'[q].id
               /\ ~proc'[q].stopped => proc'[q].tip = None
    <3>1. q # p /\ proc'[q] = proc[q]
      BY <1>2, <1>5, <2>1
    <3>2. /\ proc[q].id # s /\ proc[q].id \in Session
          /\ ~sess[proc[q].id].stored
          /\ \A r \in Proc \ {q} : proc[r].id # proc[q].id
          /\ ~proc[q].stopped => proc[q].tip = None
      BY <2>1, <3>1 DEF IInv, FreshAlone, OpenNamed
    <3>3. QED
      BY <1>2, <1>5, <3>1, <3>2
  <2>2. QED
    BY <2>1 DEF FreshAlone
<1>10. RollbackOnChain'
  <2>1. st2.turn => st2.mark.tip \in Chain(par, Msg, st2.tip) \cup {None}
    BY <1>2 DEF Queued
  <2>2. QED
    BY <1>1, <1>2, <2>1, RollbackKeeps
<1>11. AbsentEmpty'
  BY <1>4, <1>5 DEF IInv, AbsentEmpty
<1>12. Sound(par) /\ Tallies(par, st) /\ (~b.moves => b.msgs = {})
  BY DEF Queued
<1>13. Counted'
  <2>1. Tallies(par, st2)
    BY <1>2, <1>12 DEF Tallies
  <2>2. QED
    BY <1>1, <1>2, <1>12, <2>1, CountsKeep
<1>14. RowCounts'
  <2>1. ASSUME NEW t \in Session
        PROVE  Counts(sess'[t].count, Transcript(par, sess'[t]))
    <3>1. CASE t = s /\ b.moves
      <4>1. /\ landed.count = st.count /\ landed.head = st.tip
            /\ sess'[t] = landed
        BY <1>4, <1>5, <3>1
      <4>2. /\ landed.msgs \in SUBSET Msg /\ st.tip \in landed.msgs \cup {None}
            /\ \A x \in landed.msgs : par[x] \in landed.msgs \cup {None}
        BY <1>1, <1>7, <3>1, <4>1 DEF TypeOK, Rows, ChainsComplete
      <4>3. Chain(par, landed.msgs, st.tip) = Chain(par, Msg, st.tip)
        BY <4>2, ChainLocal
      <4>4. Counts(st.count, Chain(par, Msg, st.tip))
        <5>1. /\ st.count = Cardinality(Chain(par, Msg, st.tip)) + Extra(st.stub)
              /\ st.stub => Chain(par, Msg, st.tip) \cap Results # {}
          BY <1>12 DEF Tallies, Tallied
        <5>2. Cardinality(Chain(par, Msg, st.tip)) \in Nat
          BY ChainCount
        <5>3. QED
          BY <5>1, <5>2 DEF Counts, Extra
      <4>5. QED
        BY <4>1, <4>3, <4>4 DEF Transcript
    <3>2. CASE t = s /\ ~b.moves
      <4>1. /\ landed.count = row.count /\ landed.head = row.head
            /\ landed.msgs = row.msgs /\ sess'[t] = landed
        BY <1>4, <1>5, <1>12, <3>2
      <4>2. QED
        BY <3>2, <4>1 DEF Transcript
    <3>3. CASE t # s
      <4>1. sess'[t] = sess[t]
        BY <1>5, <3>3
      <4>2. Counts(sess[t].count, Transcript(parent, sess[t]))
        BY DEF IInv, RowCounts
      <4>3. QED
        BY <1>1, <4>1, <4>2, TranscriptKept
    <3>4. QED
      BY <3>1, <3>2, <3>3
  <2>2. QED
    BY <2>1 DEF RowCounts
<1>15. QED
  BY <1>1, <1>6, <1>7, <1>8, <1>9, <1>10, <1>11, <1>13, <1>14 DEF IInv

\* What the rows of a process that writes in place hold of its chain.
LEMMA WriterChain ==
    ASSUME IInv, NEW p \in Proc, Writing(p)
    PROVE  /\ proc[p].id \in Session
           /\ sess[proc[p].id].stored
           /\ proc[p].base = proc[p].tip
           /\ proc[p].tip \in sess[proc[p].id].msgs \cup {None}
           /\ Chain(parent, Msg, proc[p].tip) =
                 Chain(parent, sess[proc[p].id].msgs, proc[p].tip)
           /\ Chain(parent, Msg, proc[p].tip) \subseteq sess[proc[p].id].msgs
<1> DEFINE S   == sess[proc[p].id].msgs
           tip == proc[p].tip
<1>1. /\ proc[p].id \in Session /\ sess[proc[p].id].stored
      /\ proc[p].base = tip /\ tip \in S \cup {None}
  BY DEF IInv, Held, OpenNamed, Writing
<1>2. /\ S \in SUBSET Msg /\ parent \in Parents
      /\ \A x \in S : parent[x] \in S \cup {None}
  BY <1>1 DEF IInv, TypeOK, Rows, ChainsComplete
<1>3. Chain(parent, S, tip) = Chain(parent, Msg, tip)
  BY <1>1, <1>2, ChainLocal
<1>4. Chain(parent, S, tip) \subseteq S
  BY ChainInRows
<1>5. QED
  BY <1>1, <1>3, <1>4

LEMMA FlushKeeps ==
    ASSUME IInv, NEW p \in Proc, Flushed(p)
    PROVE  IInv'
<1>1. PICK st \in States, b \in Batches, par \in Parents :
         /\ Queued(p, st, b, par)
         /\ parent' = par
         /\ Flush(p, st, b, par)
  BY DEF Flushed
<1> DEFINE old == proc[p]
<1>2. /\ old.open /\ st.open /\ st.id = old.id /\ st.id \in Session
      /\ st.saved = old.saved /\ st.base = old.base /\ st.stopped = old.stopped
      /\ b.moves => st.tip \in b.msgs \cup Chain(parent, Msg, old.tip) \cup {None}
      /\ ~b.moves => b.msgs = {} /\ st.tip = old.tip
      /\ Extends(parent, par)
      /\ st.turn => st.mark.tip \in Chain(par, Msg, st.tip) \cup {None}
      /\ Sound(par) /\ Tallies(par, st)
      /\ sess \in [Session -> Rows] /\ parent \in Parents
  BY <1>1 DEF Queued, QueuedType, IInv, TypeOK
<1>3. ASSUME ~old.saved, ~st.stopped
      PROVE  old.tip = None /\ Chain(parent, Msg, old.tip) = {}
  <2>1. old.tip = None
    BY <1>2, <1>3 DEF IInv, FreshAlone
  <2>2. QED
    BY <2>1, RowsAssumption DEF Chain
<1>4. CASE Skip(p, st, b)
  <2>1. proc' = [proc EXCEPT ![p] = st] /\ sess' = sess
        /\ (st.stopped \/ (~st.saved /\ b.msgs = {}))
    BY <1>4 DEF Skip
  <2>2. ~st.saved /\ ~st.stopped => st.tip = None
    BY <1>2, <1>3, <2>1
  <2>3. QED
    BY <1>1, <1>2, <2>1, <2>2, MemoryKeeps
<1>5. CASE Fail(p, st, b)
  <2> DEFINE st2 == [st EXCEPT !.stopped = TRUE]
  <2>1. proc' = [proc EXCEPT ![p] = st2] /\ sess' = sess
    BY <1>5 DEF Fail
  <2>2. /\ st2 \in States /\ st2.stopped /\ st2.open /\ st2.id = st.id
        /\ st2.saved = st.saved /\ st2.base = st.base /\ st2.tip = st.tip
        /\ st2.turn = st.turn /\ st2.mark = st.mark /\ st2.count = st.count
        /\ st2.stub = st.stub
    BY <1>2 DEF States
  <2> HIDE DEF st2
  <2>3. Tallies(par, st2)
    BY <1>2, <2>2 DEF Tallies
  <2>4. QED
    BY <1>1, <1>2, <2>1, <2>2, <2>3, MemoryKeeps
<1>6. CASE Create(p, st, b, par)
  <2> DEFINE row == Inserted(st.title, None)
  <2>1. /\ ~st.stopped /\ ~st.saved /\ b.msgs # {}
        /\ LandOn(p, st, b, par, st.id, row, FALSE)
    BY <1>6 DEF Create, Writes
  <2>2. /\ row \in Rows /\ row.stored /\ row.msgs = {} /\ row.head = None
    BY <1>1, InsertedRow DEF States
  <2>3. b.moves /\ st.tip \in b.msgs \cup {None}
    BY <1>2, <1>3, <2>1
  <2>4. sess[st.id].msgs = {}
    <3>1. ~sess[st.id].stored
      BY <1>2, <2>1 DEF IInv, FreshAlone
    <3>2. QED
      BY <1>2, <3>1 DEF IInv, AbsentEmpty
  <2>5. \A q \in Proc \ {p} : proc[q].id # st.id
    BY <1>2, <2>1 DEF IInv, FreshAlone
  <2> HIDE DEF row
  <2>6. /\ \A x \in row.msgs : par[x] \in row.msgs \cup {None}
        /\ row.head \in row.msgs \cup {None}
        /\ b.moves => st.tip \in row.msgs \cup b.msgs \cup {None}
        /\ ~b.moves => st.base = st.tip /\ st.base \in row.msgs \cup {None}
        /\ sess[st.id].msgs \subseteq row.msgs
        /\ ~b.moves => Counts(row.count, Chain(par, row.msgs, row.head))
        /\ \A q \in Proc \ {p} :
              proc[q].open /\ ~proc[q].saved => proc[q].id # st.id
    BY <2>2, <2>3, <2>4, <2>5
  <2>7. st.id \in Session /\ par \in Parents
    BY <1>1, <1>2
  <2>8. QED
    BY <1>1, <2>1, <2>2, <2>6, <2>7, LandKeeps
<1>7. CASE InPlace(p, st, b, par)
  <2> DEFINE row == sess[st.id]
  <2>1. /\ ~st.stopped /\ st.saved /\ row.stored
        /\ LandOn(p, st, b, par, st.id, row, b.title # "none")
    BY <1>7 DEF InPlace, Writes
  <2>2. /\ row \in Rows
        /\ row.head \in row.msgs \cup {None}
        /\ \A x \in row.msgs : par[x] \in row.msgs \cup {None}
    BY <1>2, OldRowsKeep DEF IInv, ChainsComplete
  <2>3. /\ old.base = old.tip /\ old.tip \in row.msgs \cup {None}
        /\ Chain(parent, Msg, old.tip) \subseteq row.msgs
    BY <1>2, <2>1, WriterChain DEF Writing
  <2>4. \A q \in Proc \ {p} : proc[q].open /\ ~proc[q].saved => proc[q].id # st.id
    BY <2>1 DEF IInv, FreshAlone
  <2> HIDE DEF row
  <2>5. /\ b.moves => st.tip \in row.msgs \cup b.msgs \cup {None}
        /\ ~b.moves => st.base = st.tip /\ st.base \in row.msgs \cup {None}
    BY <1>2, <2>3
  <2>6. /\ sess[st.id].msgs \subseteq row.msgs
        /\ Counts(row.count, Chain(par, row.msgs, row.head))
    BY <1>1, <1>2, TranscriptKept DEF row, IInv, RowCounts, Transcript
  <2>7. QED
    BY <1>1, <1>2, <2>1, <2>2, <2>4, <2>5, <2>6, LandKeeps
<1>8. CASE Fork(p, st, b, par)
  <2>1. PICK f \in FreshIds :
           LandOn(p, st, b, par, f,
                  ForkOf(par, st.id, sess[st.id], st.base), TRUE)
    BY <1>8 DEF Fork
  <2> DEFINE row == ForkOf(par, st.id, sess[st.id], st.base)
             S   == sess[st.id].msgs
  <2>2. ~st.stopped /\ st.saved /\ b.moves
    BY <1>8 DEF Fork, Writes
  <2>3. /\ row \in Rows /\ row.stored /\ row.head = None
        /\ row.msgs = Chain(par, S, st.base)
    BY <1>2, ForkRow
  <2>4. /\ old.base = old.tip /\ old.tip \in S \cup {None}
        /\ S \in SUBSET Msg
    BY <1>2, <2>2, WriterChain DEF Writing, Rows
  <2>5. \A x \in S : par[x] \in S \cup {None}
    BY <1>2, OldRowsKeep
  <2>6. \A x \in row.msgs : par[x] \in row.msgs \cup {None}
    BY <2>3, <2>4, <2>5, ChainClosed
  <2>7. Chain(parent, Msg, old.tip) \subseteq row.msgs
    <3>1. Chain(parent, Msg, old.tip) \subseteq Chain(par, Msg, old.tip)
      BY <1>2, ChainGrows
    <3>2. Chain(par, Msg, old.tip) = Chain(par, S, old.tip)
      BY <2>4, <2>5, ChainLocal
    <3>3. QED
      BY <1>2, <2>3, <2>4, <3>1, <3>2
  <2>8. f \in Session /\ \A q \in Proc : proc[q].id # f
    BY DEF FreshIds
  <2>9. sess[f].msgs = {}
    BY <2>8 DEF FreshIds, IInv, AbsentEmpty
  <2> HIDE DEF row
  <2>10. b.moves /\ st.tip \in row.msgs \cup b.msgs \cup {None}
    BY <1>2, <2>2, <2>7
  <2>11. LandOn(p, st, b, par, f, row, TRUE)
    BY <2>1 DEF row
  <2>12. /\ row.head \in row.msgs \cup {None}
         /\ b.moves => st.tip \in row.msgs \cup b.msgs \cup {None}
         /\ ~b.moves => st.base = st.tip /\ st.base \in row.msgs \cup {None}
         /\ sess[f].msgs \subseteq row.msgs
         /\ ~b.moves => Counts(row.count, Chain(par, row.msgs, row.head))
         /\ \A q \in Proc \ {p} :
               proc[q].open /\ ~proc[q].saved => proc[q].id # f
    BY <2>3, <2>8, <2>9, <2>10
  <2>13. QED
    BY <1>1, <2>3, <2>6, <2>8, <2>11, <2>12, LandKeeps
<1>9. QED
  BY <1>1, <1>4, <1>5, <1>6, <1>7, <1>8 DEF Flush

LEMMA SettledKeeps ==
    ASSUME IInv, NEW p \in Proc, Settled(p)
    PROVE  IInv'
<1>1. PICK st \in States :
         /\ proc' = [proc EXCEPT ![p] = st]
         /\ proc[p].open /\ st.open /\ st.id = proc[p].id
         /\ st.saved = proc[p].saved /\ st.stopped = proc[p].stopped
         /\ st.base = proc[p].base /\ st.tip = proc[p].tip
         /\ st.count = proc[p].count /\ st.stub = proc[p].stub
         /\ st.turn => proc[p].turn /\ st.mark = proc[p].mark
  BY DEF Settled
<1>2. /\ st.saved /\ ~st.stopped => st.base = st.tip
      /\ ~st.saved /\ ~st.stopped => st.tip = None
      /\ st.turn => st.mark.tip \in Chain(parent, Msg, st.tip) \cup {None}
  BY <1>1 DEF IInv, Held, FreshAlone, RollbackOnChain, View
<1>3. sess' = sess /\ parent' = parent
  BY DEF Settled
<1>4. parent \in Parents /\ Extends(parent, parent)
  BY DEF IInv, TypeOK, Extends
<1>5. Sound(parent) /\ Tallies(parent, st)
  BY <1>1 DEF IInv, Counted, Tallies
<1>6. QED
  BY <1>1, <1>2, <1>3, <1>4, <1>5, MemoryKeeps

-----------------------------------------------------------------------------
(***************************************************************************)
(* Opening and closing sessions                                            *)
(***************************************************************************)

\* Rows that differ from the table at most in the archive flag and in
\* snapshots of what the head names.
SameBranches(rows) ==
    /\ rows \in [Session -> Rows]
    /\ \A s \in Session : /\ rows[s].stored = sess[s].stored
                          /\ rows[s].msgs = sess[s].msgs
                          /\ rows[s].head = sess[s].head
                          /\ rows[s].count = sess[s].count
                          /\ rows[s].title = sess[s].title
                          /\ rows[s].forkedFrom = sess[s].forkedFrom
                          /\ rows[s].snap \in {sess[s].snap, sess[s].head}

\* Process p closed what it had open, or opened a session.
Swapped(p) ==
    /\ UNCHANGED parent
    /\ SameBranches(sess')
    /\ \E st \in States :
          /\ proc' = [proc EXCEPT ![p] = st]
          /\ \/ st = Off
             \/ \E f \in FreshIds : st = Fresh(f)
             \/ \E s \in Session : sess[s].stored /\ st = Resumed(s)

LEMMA SwapKeeps ==
    ASSUME IInv, NEW p \in Proc, Swapped(p)
    PROVE  IInv'
<1>1. PICK st \in States :
         /\ proc' = [proc EXCEPT ![p] = st]
         /\ \/ st = Off
            \/ \E f \in FreshIds : st = Fresh(f)
            \/ \E s \in Session : sess[s].stored /\ st = Resumed(s)
  BY DEF Swapped
<1>2. /\ TypeOK /\ TypeOK' /\ parent' = parent /\ SameBranches(sess')
      /\ parent \in Parents /\ Extends(parent, parent)
      /\ \A q \in Proc : proc'[q] = IF q = p THEN st ELSE proc[q]
  BY <1>1 DEF IInv, TypeOK, Swapped, SameBranches, Extends
<1>3. SUFFICES Tallies(parent, st) => IInv'
  <2>1. Tallied(parent, None, 0, FALSE)
    BY NoTally
  <2>2. ASSUME NEW s \in Session
        PROVE  Tallied(parent, sess[s].head,
                       Cardinality(Transcript(parent, sess[s]))
                          + Extra(sess[s].head \in Results),
                       sess[s].head \in Results)
    <3>1. /\ Transcript(parent, sess[s]) = Chain(parent, Msg, sess[s].head)
          /\ Written(parent, sess[s].head)
      BY <1>2, TranscriptKept
    <3>2. ASSUME sess[s].head \in Results
          PROVE  sess[s].head \in Chain(parent, Msg, sess[s].head)
      BY <3>2, ResultsAssumption, ChainInRows
    <3>3. QED
      BY <3>1, <3>2 DEF Tallied
  <2>3. CASE st = Off
    BY <2>1, <2>3 DEF Off, Tallies
  <2>4. ASSUME NEW f \in FreshIds, st = Fresh(f)
        PROVE  Tallies(parent, st)
    BY <2>1, <2>4, FreshState DEF Tallies, FreshIds
  <2>5. ASSUME NEW s \in Session, st = Resumed(s)
        PROVE  Tallies(parent, st)
    BY <1>2, <2>2, <2>5, ResumedState DEF Tallies
  <2>6. QED
    BY <1>1, <2>3, <2>4, <2>5
<1>4. HAVE Tallies(parent, st)
<1>5. Counted' /\ RowCounts' /\ ChainsComplete' /\ AbsentEmpty'
  <2>1. Counted'
    BY <1>1, <1>2, <1>4, CountsKeep DEF IInv, Counted
  <2>2. RowCounts'
    BY <1>2 DEF IInv, RowCounts, SameBranches, Transcript
  <2>3. ChainsComplete' /\ AbsentEmpty'
    BY <1>2 DEF IInv, ChainsComplete, AbsentEmpty, SameBranches
  <2>4. QED
    BY <2>1, <2>2, <2>3
<1>6. CASE st = Off
  <2>1. ~st.open /\ ~st.saved /\ ~st.turn
    BY <1>6 DEF Off
  <2>2. OpenNamed' /\ ClosedOff'
    BY <1>2, <1>6, <2>1 DEF IInv, OpenNamed, ClosedOff
  <2>3. Held'
    BY <1>2, <2>1 DEF IInv, Held, SameBranches, OpenNamed
  <2>4. st.id = None /\ None \notin Session
    BY <1>6, RowsAssumption DEF Off
  <2>5. FreshAlone'
    BY <1>2, <2>1, <2>4 DEF IInv, FreshAlone, SameBranches, OpenNamed
  <2>6. RollbackOnChain'
    BY <1>1, <1>2, <2>1, RollbackKeeps
  <2>7. QED
    BY <1>2, <1>5, <2>2, <2>3, <2>5, <2>6 DEF IInv
<1>7. ASSUME NEW f \in FreshIds, st = Fresh(f)
      PROVE  IInv'
  <2>1. /\ f \in Session /\ ~sess[f].stored /\ \A q \in Proc : proc[q].id # f
    BY DEF FreshIds
  <2>2. /\ st.open /\ ~st.saved /\ ~st.turn /\ st.id = f /\ st.tip = None
    BY <1>7, <2>1, FreshState
  <2>3. OpenNamed' /\ ClosedOff'
    BY <1>2, <2>1, <2>2 DEF IInv, OpenNamed, ClosedOff
  <2>4. Held'
    BY <1>2, <2>2 DEF IInv, Held, SameBranches, OpenNamed
  <2>5. FreshAlone'
    BY <1>2, <2>1, <2>2 DEF IInv, FreshAlone, SameBranches, OpenNamed
  <2>6. RollbackOnChain'
    BY <1>1, <1>2, <2>2, RollbackKeeps
  <2>7. QED
    BY <1>2, <1>5, <2>3, <2>4, <2>5, <2>6 DEF IInv
<1>8. ASSUME NEW s \in Session, sess[s].stored, st = Resumed(s)
      PROVE  IInv'
  <2>1. /\ st.open /\ st.saved /\ ~st.turn /\ st.id = s
        /\ st.tip = sess[s].head /\ st.base = sess[s].head
    BY <1>2, <1>8, ResumedState
  <2>2. sess[s].head \in sess[s].msgs \cup {None}
    BY DEF IInv, ChainsComplete
  <2>3. OpenNamed' /\ ClosedOff'
    BY <1>2, <2>1 DEF IInv, OpenNamed, ClosedOff
  <2>4. Held'
    BY <1>2, <1>8, <2>1, <2>2 DEF IInv, Held, SameBranches, OpenNamed
  <2>5. FreshAlone'
    BY <1>2, <1>8, <2>1 DEF IInv, FreshAlone, SameBranches, OpenNamed
  <2>6. RollbackOnChain'
    BY <1>1, <1>2, <2>1, RollbackKeeps
  <2>7. QED
    BY <1>2, <1>5, <2>3, <2>4, <2>5, <2>6 DEF IInv
<1>9. QED
  BY <1>1, <1>6, <1>7, <1>8

LEMMA ArchivedSame ==
    ASSUME TypeOK, NEW s \in Session, NEW flag \in BOOLEAN
    PROVE  SameBranches([sess EXCEPT ![s].archived = flag])
<1> DEFINE row == [sess[s] EXCEPT !.archived = flag]
<1>1. sess[s] \in Rows
  BY DEF TypeOK
<1>2. /\ row \in Rows /\ row.stored = sess[s].stored
      /\ row.msgs = sess[s].msgs /\ row.head = sess[s].head
      /\ row.count = sess[s].count /\ row.title = sess[s].title
      /\ row.forkedFrom = sess[s].forkedFrom /\ row.snap = sess[s].snap
  BY <1>1 DEF Rows
<1>3. [sess EXCEPT ![s].archived = flag] = [sess EXCEPT ![s] = row]
  OBVIOUS
<1> HIDE DEF row
<1>4. QED
  BY <1>2, <1>3 DEF SameBranches, TypeOK

LEMMA FinalizedSame ==
    ASSUME NEW rows, SameBranches(rows), TypeOK, NEW st \in States,
           st.saved => st.id \in Session
    PROVE  SameBranches(Finalized(rows, st))
<1>1. CASE st.saved /\ ~st.stopped /\ rows[st.id].stored
  <2> DEFINE b   == [Batch({}, "none", FALSE) EXCEPT !.snapshots = TRUE]
             old == rows[st.id]
             row == Landed(old, b, st.base, st.tip, st.count)
  <2>1. old \in Rows /\ st.id \in Session
    BY <1>1 DEF SameBranches
  <2>2. b \in Batches /\ b.msgs = {} /\ ~b.moves /\ b.title = "none"
    BY DEF Batch, Batches, Titles
  <2>3. st.base \in MsgOrNull /\ st.tip \in MsgOrNull /\ st.count \in Nat
    BY DEF States
  <2>4. Finalized(rows, st) = [rows EXCEPT ![st.id] = row]
    BY <1>1 DEF Finalized
  <2> HIDE DEF b, old
  <2>5. /\ row \in Rows /\ row.msgs = old.msgs \cup b.msgs
        /\ row.head = (IF b.moves THEN st.tip ELSE old.head)
        /\ row.stored = old.stored /\ row.forkedFrom = old.forkedFrom
        /\ row.title = Retitled(old.title, b.title)
        /\ row.count = (IF b.moves THEN st.count ELSE old.count)
        /\ row.snap \in {old.snap, row.head}
    <3>1. old \in Rows /\ b \in Batches
      BY <2>1, <2>2
    <3>2. QED
      BY ONLY <2>3, <3>1, LandedRow
  <2> HIDE DEF row
  <2>6. /\ row \in Rows /\ row.msgs = old.msgs /\ row.head = old.head
        /\ row.stored = old.stored /\ row.forkedFrom = old.forkedFrom
        /\ row.title = old.title /\ row.count = old.count
        /\ row.snap \in {old.snap, old.head}
    BY <2>2, <2>5 DEF Retitled
  <2>7. QED
    BY <2>1, <2>4, <2>6 DEF SameBranches, old
<1>2. CASE ~(st.saved /\ ~st.stopped /\ rows[st.id].stored)
  BY <1>2 DEF Finalized
<1>3. QED
  BY <1>1, <1>2

LEMMA CloseSwaps ==
    ASSUME IInv, NEW p \in Proc, Roll(p) \/ Quit(p) \/ Crash(p) \/ Start(p)
    PROVE  Swapped(p)
<1>1. /\ TypeOK /\ SameBranches(sess) /\ proc[p] \in States
      /\ Off \in States /\ \A f \in FreshIds : Fresh(f) \in States
  BY OffState, FreshState DEF IInv, TypeOK, SameBranches, FreshIds
<1>2. Idle(p) => SameBranches(Finalized(sess, proc[p]))
  BY <1>1, FinalizedSame DEF IInv, OpenNamed, Idle
<1>3. CASE Roll(p)
  BY <1>1, <1>2, <1>3 DEF Roll, Swapped
<1>4. CASE Quit(p)
  BY <1>1, <1>2, <1>4 DEF Quit, Swapped
<1>5. CASE Crash(p)
  BY <1>1, <1>5 DEF Crash, Swapped
<1>6. CASE Start(p)
  BY <1>1, <1>6 DEF Start, Swapped
<1>7. QED
  BY <1>3, <1>4, <1>5, <1>6

LEMMA ArchiveSwaps ==
    ASSUME IInv, NEW p \in Proc, Archive(p)
    PROVE  Swapped(p)
<1> DEFINE rows == [sess EXCEPT ![proc[p].id].archived = TRUE]
<1>1. /\ TypeOK /\ proc[p] \in States /\ proc[p].id \in Session
      /\ \A f \in FreshIds : Fresh(f) \in States
  BY FreshState DEF IInv, TypeOK, OpenNamed, Archive, Idle, FreshIds
<1>2. SameBranches(rows)
  BY <1>1, ArchivedSame
<1>3. /\ sess' \in {rows, Finalized(rows, proc[p])}
      /\ \E f \in FreshIds : proc' = [proc EXCEPT ![p] = Fresh(f)]
      /\ UNCHANGED parent
  BY DEF Archive
<1> HIDE DEF rows
<1>4. SameBranches(Finalized(rows, proc[p]))
  BY <1>1, <1>2, FinalizedSame
<1>5. QED
  BY <1>1, <1>2, <1>3, <1>4 DEF Swapped

LEMMA OpenSwaps ==
    ASSUME IInv, NEW p \in Proc, NEW s \in Session,
           StartResumed(p, s) \/ RollInto(p, s)
    PROVE  Swapped(p)
<1> DEFINE rows == [sess EXCEPT ![s].archived = FALSE]
<1>1. /\ TypeOK /\ proc[p] \in States /\ Resumed(s) \in States
      /\ proc[p].open => proc[p].id \in Session
      /\ SameBranches(rows)
  BY ResumedState, ArchivedSame DEF IInv, TypeOK, OpenNamed
<1>2. CASE StartResumed(p, s)
  BY <1>1, <1>2 DEF StartResumed, Swapped
<1>3. CASE RollInto(p, s)
  <2>1. /\ sess' \in {rows, Finalized(rows, proc[p])} /\ proc[p].open
        /\ sess[s].stored /\ proc' = [proc EXCEPT ![p] = Resumed(s)]
        /\ UNCHANGED parent
    BY <1>3 DEF RollInto, Idle
  <2> HIDE DEF rows
  <2>2. SameBranches(Finalized(rows, proc[p]))
    BY <1>1, <2>1, FinalizedSame
  <2>3. QED
    BY <1>1, <2>1, <2>2 DEF Swapped
<1>4. QED
  BY <1>2, <1>3

LEMMA ArchiveFailsKeeps ==
    ASSUME IInv, NEW p \in Proc, ArchiveFails(p)
    PROVE  IInv'
<1> DEFINE st == [proc[p] EXCEPT !.stopped = TRUE]
<1>1. /\ proc[p] \in States /\ proc[p].open /\ parent \in Parents
      /\ ~proc[p].turn
  BY DEF IInv, TypeOK, ArchiveFails, Idle
<1>2. /\ st \in States /\ st.open /\ st.id = proc[p].id /\ st.stopped
      /\ st.saved = proc[p].saved /\ st.base = proc[p].base /\ ~st.turn
      /\ st.tip = proc[p].tip /\ st.count = proc[p].count
      /\ st.stub = proc[p].stub
  BY <1>1 DEF States
<1>3. /\ proc' = [proc EXCEPT ![p] = st] /\ sess' = sess /\ parent' = parent
      /\ Extends(parent, parent)
  BY DEF ArchiveFails, Extends
<1> HIDE DEF st
<1>4. Sound(parent) /\ Tallies(parent, st)
  BY <1>2 DEF IInv, Counted, Tallies
<1>5. QED
  BY <1>1, <1>2, <1>3, <1>4, MemoryKeeps

LEMMA DeleteKeeps ==
    ASSUME IInv, NEW s \in Session, Delete(s)
    PROVE  IInv'
<1>1. /\ sess' = [sess EXCEPT ![s] = NoRow] /\ proc' = proc /\ parent' = parent
      /\ sess[s].stored /\ Holders(s) = {}
  BY DEF Delete
<1>2. /\ NoRow \in Rows /\ NoRow.head = None /\ NoRow.msgs = {}
      /\ ~NoRow.stored /\ NoRow.snap = None /\ NoRow.count = 0
  BY DEF NoRow, Rows, MsgOrNull, Titles
<1>3. TypeOK'
  BY <1>1, <1>2 DEF IInv, TypeOK
<1>4. \A t \in Session : sess'[t] = IF t = s THEN NoRow ELSE sess[t]
  BY <1>1 DEF IInv, TypeOK
<1>5. ChainsComplete' /\ AbsentEmpty'
  BY <1>1, <1>2, <1>4 DEF IInv, ChainsComplete, AbsentEmpty
<1>6. \A p \in Proc : proc[p].saved => proc[p].id # s /\ proc[p].id \in Session
  BY <1>1 DEF Holders, IInv, Held, OpenNamed
<1>7. Held'
  BY <1>1, <1>4, <1>6 DEF IInv, Held
<1>8. FreshAlone'
  BY <1>1, <1>2, <1>4 DEF IInv, FreshAlone, OpenNamed
<1>9. OpenNamed' /\ ClosedOff' /\ RollbackOnChain'
  BY <1>1 DEF IInv, OpenNamed, ClosedOff, RollbackOnChain, View
<1>10. Counted'
  BY <1>1 DEF IInv, Counted
<1>11. RowCounts'
  <2>1. Transcript(parent, NoRow) = {}
    BY <1>2 DEF Transcript, Chain
  <2>2. QED
    BY <1>1, <1>2, <1>4, <2>1, FS_EmptySet DEF IInv, RowCounts, Counts
<1>12. QED
  BY <1>3, <1>5, <1>7, <1>8, <1>9, <1>10, <1>11 DEF IInv

LEMMA SetArchivedKeeps ==
    ASSUME IInv, NEW s \in Session, NEW archive \in BOOLEAN,
           SetArchived(s, archive)
    PROVE  IInv' /\ SameBranches(sess')
<1>1. /\ sess' = [sess EXCEPT ![s].archived = archive]
      /\ proc' = proc /\ parent' = parent
  BY DEF SetArchived
<1>2. SameBranches(sess')
  BY <1>1, ArchivedSame DEF IInv
<1>3. TypeOK'
  BY <1>1, <1>2 DEF IInv, TypeOK, SameBranches
<1>4. ChainsComplete' /\ AbsentEmpty'
  BY <1>1, <1>2 DEF IInv, ChainsComplete, AbsentEmpty, SameBranches
<1>5. Held' /\ FreshAlone'
  BY <1>1, <1>2 DEF IInv, Held, FreshAlone, SameBranches, OpenNamed
<1>6. OpenNamed' /\ ClosedOff' /\ RollbackOnChain'
  BY <1>1 DEF IInv, OpenNamed, ClosedOff, RollbackOnChain, View
<1>7. Counted' /\ RowCounts'
  BY <1>1, <1>2 DEF IInv, Counted, RowCounts, SameBranches, Transcript
<1>8. QED
  BY <1>2, <1>3, <1>4, <1>5, <1>6, <1>7 DEF IInv
-----------------------------------------------------------------------------
(***************************************************************************)
(* Every step, by what it does to the process that takes it                *)
(***************************************************************************)
LEMMA TurnSteps ==
    ASSUME IInv, NEW p \in Proc, Turn(p)
    PROVE  Flushed(p) \/ Settled(p)
<1> USE DEF IInv
<1>0. Spoken \subseteq New
  BY DEF Spoken
<1>1. ASSUME NEW m \in New, Prompt(p, m) PROVE Flushed(p)
  BY <1>1, PromptFlushes
<1>2. ASSUME NEW m \in New, Message(p, m) PROVE Flushed(p)
  BY <1>2, MessageFlushes
<1>3. ASSUME NEW m \in New, Compact(p, m) PROVE Flushed(p)
  BY <1>3, CompactFlushes
<1>4. ASSUME NEW a \in New, NEW r \in New, Round(p, a, r) PROVE Flushed(p)
  BY <1>4, RoundFlushes
<1>5. ASSUME Rewind(p) PROVE Flushed(p)
  BY <1>5, RewindFlushes
<1>6. ASSUME EndTurn(p) PROVE Settled(p)
  BY <1>6, EndTurnSettles
<1>7. QED
  BY <1>0, <1>1, <1>2, <1>3, <1>4, <1>5, <1>6 DEF Turn

LEMMA StepKinds ==
    ASSUME IInv, Next
    PROVE  \/ \E p \in Proc : \/ Flushed(p) \/ Settled(p) \/ Swapped(p)
                             \/ ArchiveFails(p)
           \/ \E s \in Session : \/ Delete(s)
                                \/ \E archive \in BOOLEAN :
                                      SetArchived(s, archive)
<1>1. ASSUME NEW p \in Proc, Turn(p) \/ Rename(p) \/ AiTitle(p)
      PROVE  Flushed(p) \/ Settled(p)
  BY <1>1, TurnSteps, RenameFlushes, AiTitleFlushes DEF IInv
<1>2. ASSUME NEW p \in Proc,
             \/ Start(p) \/ Roll(p) \/ Archive(p) \/ Quit(p) \/ Crash(p)
             \/ \E s \in Session : StartResumed(p, s) \/ RollInto(p, s)
      PROVE  Swapped(p)
  BY <1>2, CloseSwaps, ArchiveSwaps, OpenSwaps
<1>3. QED
  BY <1>1, <1>2 DEF Next

LEMMA StepKeeps ==
    ASSUME IInv, [Next]_vars
    PROVE  IInv'
<1>1. CASE UNCHANGED vars
  BY <1>1 DEF vars, IInv, TypeOK, OpenNamed, ClosedOff, AbsentEmpty,
              ChainsComplete, Held, FreshAlone, RollbackOnChain, View,
              Counted, RowCounts
<1>2. CASE Next
  BY <1>2, StepKinds, FlushKeeps, SettledKeeps, SwapKeeps, ArchiveFailsKeeps,
     DeleteKeeps, SetArchivedKeeps
<1>3. QED
  BY <1>1, <1>2

\* Type correctness, the shapes of open, fresh and stored sessions, complete
\* chains, rollback points and counts hold together, whatever step comes next
\* and whichever writes fail (SessionState, commit.rs).
THEOREM Inductive == Spec => []IInv
<1>1. Init => IInv
  BY InitIInv
<1>2. IInv /\ [Next]_vars => IInv'
  BY StepKeeps
<1>3. QED
  BY <1>1, <1>2, PTL DEF Spec

\* The tables, the process states and the parents keep their types.
THEOREM TypeCorrect == Spec => []TypeOK
<1>1. IInv => TypeOK
  BY DEF IInv
<1>2. QED
  BY <1>1, Inductive, PTL

LEMMA IInvSafe ==
    ASSUME IInv
    PROVE  StoreSafety
<1>1. LiveSessionStored
  BY DEF IInv, Held, LiveSessionStored
<1>2. ViewDurable
  BY WriterChain DEF ViewDurable, View
<1>3. QED
  BY <1>1, <1>2 DEF IInv, StoreSafety

\* However many processes share sessions, and whatever writes fail: stored
\* chains are complete, a saved session that is open is never deleted, a
\* process whose writes land has its transcript on disk under the head the
\* next commit compares with, and a refused turn can always be taken back.
THEOREM StoreSafe == Spec => []StoreSafety
<1>1. IInv => StoreSafety
  BY IInvSafe
<1>2. QED
  BY <1>1, Inductive, PTL
-----------------------------------------------------------------------------
(***************************************************************************)
(* What one step may change, for the action properties                     *)
(***************************************************************************)

\* A process counts what it shows, its chain and the stub a resume gave it, and
\* the count of a session is at most that stub ahead of its chain, through
\* rewinds, compactions, forks and resumes, whichever writes fail.
THEOREM CountsAlwaysShown == Spec => []CountsShown
<1>1. IInv => CountsShown
  BY DEF IInv, Counted, RowCounts, Tallies, Tallied, CountsShown, View
<1>2. QED
  BY <1>1, Inductive, PTL

LEMMA RowTranscript ==
    ASSUME NEW par \in Parents, NEW row \in Rows,
           row.head \in row.msgs \cup {None},
           \A x \in row.msgs : par[x] \in row.msgs \cup {None}
    PROVE  Transcript(par, row) = Chain(par, Msg, row.head)
<1>1. row.msgs \in SUBSET Msg
  BY DEF Rows
<1>2. QED
  BY <1>1, ChainLocal DEF Transcript

\* The step changes the memory of process p and no row.  If its writes land
\* afterwards they did before, on the same chain.
KeptRows(p, st) ==
    /\ sess' = sess
    /\ proc' = [proc EXCEPT ![p] = st]
    /\ st.saved /\ ~st.stopped =>
          /\ proc[p].open /\ proc[p].saved /\ ~proc[p].stopped
          /\ st.open /\ st.id = proc[p].id /\ st.tip = proc[p].tip

\* A write of process p, now st, made `row` of session s.
Wrote(p, st, s, row) ==
    /\ sess' = [sess EXCEPT ![s] = row]
    /\ proc' = [proc EXCEPT ![p] = st]
    /\ proc[p].open /\ ~proc[p].stopped
    /\ st.open /\ st.saved /\ ~st.stopped /\ st.id = s
    /\ row.stored

Created(p, st, s, row) ==
    /\ Wrote(p, st, s, row)
    /\ ~proc[p].saved /\ ~sess[s].stored
    /\ row.head = st.tip /\ row.forkedFrom = None /\ row.snap = None

KeepsManual(from, row) == from.title = "user" => row.title = "user"

Updated(p, st, s, row) ==
    /\ Wrote(p, st, s, row)
    /\ proc[p].saved /\ proc[p].id = s /\ sess[s].stored
    /\ \/ row.head = st.tip /\ sess[s].head = proc[p].tip
       \/ /\ row.head = sess[s].head /\ row.msgs = sess[s].msgs
          /\ st.tip = proc[p].tip
    /\ row.forkedFrom = sess[s].forkedFrom /\ row.snap = sess[s].snap
    /\ KeepsManual(sess[s], row)

Forked(p, st, s, row) ==
    /\ Wrote(p, st, s, row)
    /\ proc[p].saved /\ ~sess[s].stored
    /\ sess[proc[p].id].head # proc[p].tip
    /\ row.head = st.tip /\ row.forkedFrom = proc[p].id /\ row.snap = None
    /\ KeepsManual(sess[proc[p].id], row)

LEMMA RetitledManual ==
    ASSUME NEW record
    PROVE  Retitled("user", record) = "user"
BY DEF Retitled

\* What a batch that lands on `row` as session s leaves.
LEMMA LandShape ==
    ASSUME IInv, NEW p \in Proc, NEW st, NEW b, NEW par,
           Queued(p, st, b, par),
           NEW s \in Session, NEW row \in Rows, NEW readBack,
           LandOn(p, st, b, par, s, row, readBack), ~st.stopped, row.stored
    PROVE  \E st2 \in States, new \in Rows :
              /\ Wrote(p, st2, s, new)
              /\ st2.tip = st.tip
              /\ new.forkedFrom = row.forkedFrom /\ new.snap = row.snap
              /\ KeepsManual(row, new)
              /\ IF b.moves THEN new.head = st.tip
                            ELSE new.head = row.head /\ new.msgs = row.msgs
<1> DEFINE new == Landed(row, b, st.base, st.tip, st.count)
           st2 == [st EXCEPT !.id    = s,
                             !.saved = TRUE,
                             !.base  = IF b.moves THEN st.tip ELSE @,
                             !.title = IF readBack THEN new.title ELSE @]
<1>1. /\ st \in States /\ b \in Batches /\ st.open /\ ~b.snapshots
      /\ st.base \in MsgOrNull /\ st.tip \in MsgOrNull /\ st.count \in Nat
      /\ ~b.moves => b.msgs = {}
      /\ proc[p].open /\ ~proc[p].stopped
  BY DEF Queued, QueuedType, States
<1>2. /\ sess' = [sess EXCEPT ![s] = new]
      /\ proc' = [proc EXCEPT ![p] = st2]
  BY DEF LandOn
<1>3. /\ new \in Rows /\ new.msgs = row.msgs \cup b.msgs
      /\ new.head = (IF b.moves THEN st.tip ELSE row.head)
      /\ new.stored = row.stored /\ new.forkedFrom = row.forkedFrom
      /\ new.title = Retitled(row.title, b.title) /\ new.snap = row.snap
  <2>1. /\ row \in Rows /\ b \in Batches /\ ~b.snapshots
        /\ st.base \in MsgOrNull /\ st.tip \in MsgOrNull /\ st.count \in Nat
    BY <1>1
  <2>2. QED
    BY ONLY <2>1, LandedRow
<1> HIDE DEF new
<1>4. /\ st2 \in States /\ st2.open /\ st2.id = s /\ st2.saved
      /\ ~st2.stopped /\ st2.tip = st.tip
  <2>1. new.title \in Titles
    BY <1>3 DEF Rows
  <2>2. QED
    BY <1>1, <2>1 DEF States
<1> HIDE DEF st2
<1>5. KeepsManual(row, new)
  BY <1>3, RetitledManual DEF KeepsManual
<1>6. Wrote(p, st2, s, new)
  BY <1>1, <1>2, <1>3, <1>4 DEF Wrote
<1>7. QED
  BY <1>1, <1>3, <1>4, <1>5, <1>6

LEMMA FlushShape ==
    ASSUME IInv, NEW p \in Proc, Flushed(p)
    PROVE  /\ parent' \in Parents /\ Extends(parent, parent')
           /\ \E st \in States :
                 \/ KeptRows(p, st)
                 \/ \E s \in Session, row \in Rows :
                       \/ Created(p, st, s, row)
                       \/ Updated(p, st, s, row)
                       \/ Forked(p, st, s, row)
<1>1. PICK st \in States, b \in Batches, par \in Parents :
         /\ Queued(p, st, b, par)
         /\ parent' = par
         /\ Flush(p, st, b, par)
  BY DEF Flushed
<1>2. /\ parent' \in Parents /\ Extends(parent, parent')
      /\ st.id = proc[p].id /\ st.id \in Session /\ st.saved = proc[p].saved
      /\ st.base = proc[p].base /\ st.stopped = proc[p].stopped
      /\ ~b.moves => b.msgs = {} /\ st.tip = proc[p].tip
      /\ proc[p].open /\ proc[p].id \in Session
      /\ sess \in [Session -> Rows]
  BY <1>1 DEF Queued, QueuedType, IInv, TypeOK
<1>3. proc[p].saved /\ ~proc[p].stopped => proc[p].base = proc[p].tip
  BY DEF IInv, Held
<1>4. CASE Skip(p, st, b)
  BY <1>2, <1>4 DEF Skip, KeptRows
<1>5. CASE Fail(p, st, b)
  <2>1. /\ [st EXCEPT !.stopped = TRUE] \in States
        /\ [st EXCEPT !.stopped = TRUE].stopped
    BY DEF States
  <2>2. KeptRows(p, [st EXCEPT !.stopped = TRUE])
    BY <1>5, <2>1 DEF Fail, KeptRows
  <2>3. QED
    BY <1>2, <2>1, <2>2
<1>6. CASE Create(p, st, b, par)
  <2> DEFINE row == Inserted(st.title, None)
  <2>1. /\ ~st.stopped /\ ~st.saved /\ b.msgs # {}
        /\ \E readBack : LandOn(p, st, b, par, st.id, row, readBack)
    BY <1>6 DEF Create, Writes
  <2>2. /\ row \in Rows /\ row.stored /\ row.forkedFrom = None
        /\ row.snap = None
    BY <1>1, InsertedRow DEF States
  <2>3. ~sess[st.id].stored /\ b.moves
    BY <1>2, <2>1 DEF IInv, FreshAlone
  <2> HIDE DEF row
  <2>4. PICK st2 \in States, new \in Rows :
           /\ Wrote(p, st2, st.id, new)
           /\ st2.tip = st.tip
           /\ new.forkedFrom = row.forkedFrom /\ new.snap = row.snap
           /\ KeepsManual(row, new)
           /\ IF b.moves THEN new.head = st.tip
                         ELSE new.head = row.head /\ new.msgs = row.msgs
    BY <1>1, <1>2, <2>1, <2>2, <2>3, LandShape
  <2>5. Created(p, st2, st.id, new)
    BY <1>2, <2>1, <2>2, <2>3, <2>4 DEF Created
  <2>6. QED
    BY <1>2, <2>5
<1>7. CASE InPlace(p, st, b, par)
  <2> DEFINE row == sess[st.id]
  <2>1. /\ ~st.stopped /\ st.saved /\ row.stored
        /\ b.moves => row.head = st.base
        /\ LandOn(p, st, b, par, st.id, row, b.title # "none")
    BY <1>7 DEF InPlace, Writes
  <2>2. row \in Rows
    BY <1>2
  <2> HIDE DEF row
  <2>3. PICK st2 \in States, new \in Rows :
           /\ Wrote(p, st2, st.id, new)
           /\ st2.tip = st.tip
           /\ new.forkedFrom = row.forkedFrom /\ new.snap = row.snap
           /\ KeepsManual(row, new)
           /\ IF b.moves THEN new.head = st.tip
                         ELSE new.head = row.head /\ new.msgs = row.msgs
    BY <1>1, <1>2, <2>1, <2>2, LandShape
  <2>4. Updated(p, st2, st.id, new)
    BY <1>2, <1>3, <2>1, <2>3 DEF Updated, row
  <2>5. QED
    BY <1>2, <2>4
<1>8. CASE Fork(p, st, b, par)
  <2>1. PICK f \in FreshIds :
           LandOn(p, st, b, par, f,
                  ForkOf(par, st.id, sess[st.id], st.base), TRUE)
    BY <1>8 DEF Fork
  <2> DEFINE row == ForkOf(par, st.id, sess[st.id], st.base)
  <2>2. ~st.stopped /\ st.saved /\ b.moves /\ sess[st.id].head # st.base
    BY <1>8 DEF Fork, Writes
  <2>3. /\ row \in Rows /\ row.stored /\ row.forkedFrom = st.id
        /\ row.snap = None /\ row.title = sess[st.id].title
    BY <1>2, ForkRow
  <2>4. f \in Session /\ ~sess[f].stored
    BY DEF FreshIds
  <2>5. \E readBack : LandOn(p, st, b, par, f, row, readBack)
    BY <2>1
  <2> HIDE DEF row
  <2>6. PICK st2 \in States, new \in Rows :
           /\ Wrote(p, st2, f, new)
           /\ st2.tip = st.tip
           /\ new.forkedFrom = row.forkedFrom /\ new.snap = row.snap
           /\ KeepsManual(row, new)
           /\ IF b.moves THEN new.head = st.tip
                         ELSE new.head = row.head /\ new.msgs = row.msgs
    BY <1>1, <2>2, <2>3, <2>4, <2>5, LandShape
  <2>7. Forked(p, st2, f, new)
    BY <1>2, <1>3, <2>2, <2>3, <2>4, <2>6 DEF Forked, KeepsManual
  <2>8. QED
    BY <1>2, <2>4, <2>7
<1>9. QED
  BY <1>1, <1>4, <1>5, <1>6, <1>7, <1>8 DEF Flush

\* A step that only archives or unarchives sessions, or nothing.
SameMemory == SameBranches(sess') /\ UNCHANGED <<proc, parent>>

LEMMA StepShape ==
    ASSUME IInv, [Next]_vars
    PROVE  /\ parent' \in Parents /\ Extends(parent, parent')
           /\ \/ SameMemory
              \/ \E s \in Session : Delete(s)
              \/ \E p \in Proc : Swapped(p)
              \/ \E p \in Proc, st \in States : KeptRows(p, st)
              \/ \E p \in Proc, st \in States, s \in Session, row \in Rows :
                    \/ Created(p, st, s, row)
                    \/ Updated(p, st, s, row)
                    \/ Forked(p, st, s, row)
<1>1. parent \in Parents /\ Extends(parent, parent) /\ SameBranches(sess)
  BY DEF IInv, TypeOK, Extends, SameBranches
<1>2. CASE UNCHANGED vars
  BY <1>1, <1>2 DEF vars, SameMemory, SameBranches
<1>3. ASSUME NEW p \in Proc, Settled(p)
      PROVE  parent' = parent /\ \E st \in States : KeptRows(p, st)
  <2>1. PICK st \in States :
           /\ proc' = [proc EXCEPT ![p] = st]
           /\ proc[p].open /\ st.open /\ st.id = proc[p].id
           /\ st.saved = proc[p].saved /\ st.stopped = proc[p].stopped
           /\ st.tip = proc[p].tip
    BY <1>3 DEF Settled
  <2>2. sess' = sess /\ parent' = parent
    BY <1>3 DEF Settled
  <2>3. QED
    BY <2>1, <2>2 DEF KeptRows
<1>4. ASSUME NEW p \in Proc, ArchiveFails(p)
      PROVE  parent' = parent /\ \E st \in States : KeptRows(p, st)
  <2> DEFINE st == [proc[p] EXCEPT !.stopped = TRUE]
  <2>1. proc[p] \in States
    BY DEF IInv, TypeOK
  <2>2. st \in States /\ st.stopped
    BY <2>1 DEF States
  <2>3. proc' = [proc EXCEPT ![p] = st] /\ sess' = sess /\ parent' = parent
    BY <1>4 DEF ArchiveFails
  <2> HIDE DEF st
  <2>4. QED
    BY <2>2, <2>3 DEF KeptRows
<1>5. ASSUME NEW s \in Session, NEW archive \in BOOLEAN, SetArchived(s, archive)
      PROVE  parent' = parent /\ SameMemory
  BY <1>5, SetArchivedKeeps DEF SetArchived, SameMemory
<1>6. ASSUME Next
      PROVE  \/ \E p \in Proc : \/ Flushed(p) \/ Settled(p) \/ Swapped(p)
                                \/ ArchiveFails(p)
             \/ \E s \in Session : \/ Delete(s)
                                   \/ \E archive \in BOOLEAN :
                                         SetArchived(s, archive)
  BY <1>6, StepKinds
<1>7. ASSUME NEW p \in Proc, Swapped(p)
      PROVE  parent' = parent
  BY <1>7 DEF Swapped
<1>8. ASSUME NEW s \in Session, Delete(s)
      PROVE  parent' = parent
  BY <1>8 DEF Delete
<1>9. QED
  BY <1>1, <1>2, <1>3, <1>4, <1>5, <1>6, <1>7, <1>8, FlushShape
-----------------------------------------------------------------------------
(***************************************************************************)
(* Action properties                                                       *)
(***************************************************************************)

\* Transcripts read before and after a step, through all messages.
LEMMA StepTranscripts ==
    ASSUME IInv, IInv', parent' \in Parents, Extends(parent, parent')
    PROVE  /\ \A s \in Session :
                 /\ Transcript(parent, sess[s])
                       = Chain(parent, Msg, sess[s].head)
                 /\ Chain(parent', Msg, sess[s].head)
                       = Chain(parent, Msg, sess[s].head)
                 /\ Transcript(parent', sess'[s])
                       = Chain(parent', Msg, sess'[s].head)
           /\ \A p \in Proc : Chain(parent', Msg, proc[p].tip) = View(p)
<1>1. parent \in Parents /\ Forest(parent)
  BY DEF IInv, TypeOK, Counted, Sound
<1>2. ASSUME NEW s \in Session
      PROVE  /\ Transcript(parent, sess[s]) = Chain(parent, Msg, sess[s].head)
             /\ Chain(parent', Msg, sess[s].head)
                   = Chain(parent, Msg, sess[s].head)
             /\ Transcript(parent', sess'[s])
                   = Chain(parent', Msg, sess'[s].head)
  <2>1. /\ Transcript(parent, sess[s]) = Chain(parent, Msg, sess[s].head)
        /\ Written(parent, sess[s].head)
    BY TranscriptKept
  <2>2. /\ sess'[s] \in Rows
        /\ sess'[s].head \in sess'[s].msgs \cup {None}
        /\ \A x \in sess'[s].msgs : parent'[x] \in sess'[s].msgs \cup {None}
    BY DEF IInv, TypeOK, ChainsComplete
  <2>3. Transcript(parent', sess'[s]) = Chain(parent', Msg, sess'[s].head)
    BY <2>2, RowTranscript
  <2>4. QED
    BY <1>1, <2>1, <2>3, ChainKept
<1>3. ASSUME NEW p \in Proc
      PROVE  Chain(parent', Msg, proc[p].tip) = View(p)
  <2>1. Written(parent, proc[p].tip)
    BY DEF IInv, Counted, Tallies, Tallied
  <2>2. QED
    BY <1>1, <2>1, ChainKept DEF View
<1>4. QED
  BY <1>2, <1>3

LEMMA DropsSeen ==
    ASSUME IInv, IInv', [Next]_vars, NEW s \in Session,
           sess[s].stored, sess'[s].stored, sess'[s] # sess[s],
           NEW m \in Transcript(parent, sess[s])
                        \ Transcript(parent', sess'[s])
    PROVE  \E p \in Holders(s) : m \in View(p) /\ proc'[p] # proc[p]
<1>1. /\ Transcript(parent, sess[s]) = Chain(parent, Msg, sess[s].head)
      /\ Chain(parent', Msg, sess[s].head) = Chain(parent, Msg, sess[s].head)
      /\ Transcript(parent', sess'[s]) = Chain(parent', Msg, sess'[s].head)
  BY StepShape, StepTranscripts
<1>2. sess'[s].head # sess[s].head
  BY <1>1
<1>3. sess \in [Session -> Rows] /\ proc \in [Proc -> States]
  BY DEF IInv, TypeOK
<1>4. CASE SameMemory \/ \E p \in Proc : Swapped(p)
  BY <1>2, <1>4 DEF SameMemory, Swapped, SameBranches
<1>5. CASE \E t \in Session : Delete(t)
  <2>1. PICK t \in Session : Delete(t)
    BY <1>5
  <2>2. sess' = [sess EXCEPT ![t] = NoRow] /\ ~NoRow.stored
    BY <2>1 DEF Delete, NoRow
  <2>3. QED
    BY <1>3, <2>2
<1>6. CASE \E p \in Proc, st \in States : KeptRows(p, st)
  BY <1>6 DEF KeptRows
<1>7. ASSUME NEW p \in Proc, NEW st \in States, NEW t \in Session,
             NEW row \in Rows,
             Created(p, st, t, row) \/ Updated(p, st, t, row)
                \/ Forked(p, st, t, row)
      PROVE  \E q \in Holders(s) : m \in View(q) /\ proc'[q] # proc[q]
  <2>1. /\ sess' = [sess EXCEPT ![t] = row] /\ proc' = [proc EXCEPT ![p] = st]
    BY <1>7 DEF Created, Updated, Forked, Wrote
  <2>2. t = s /\ sess'[s] = row /\ proc'[p] = st
    BY <1>3, <2>1
  <2>3. Updated(p, st, s, row)
    BY <1>7, <2>2 DEF Created, Forked
  <2>4. /\ row.head = st.tip /\ sess[s].head = proc[p].tip
        /\ proc[p].open /\ proc[p].saved /\ proc[p].id = s
    BY <1>2, <2>2, <2>3 DEF Updated, Wrote
  <2>5. p \in Holders(s)
    BY <2>4 DEF Holders
  <2>6. m \in View(p)
    BY <1>1, <2>4 DEF View
  <2>7. proc'[p] # proc[p]
    BY <1>2, <2>2, <2>4
  <2>8. QED
    BY <2>5, <2>6, <2>7
<1>8. QED
  BY <1>4, <1>5, <1>6, <1>7, StepShape

\* A message leaves the active branch of a session only by a write of a
\* process that had the message in memory: a process overtaken by another one
\* drops nothing it has not seen.
THEOREM NothingDroppedUnseen == Spec => NoUnseenDrop
<1>1. IInv /\ IInv' /\ [Next]_vars =>
        \A s \in Session :
          sess[s].stored /\ sess'[s].stored /\ sess'[s] # sess[s] =>
          \A m \in Transcript(parent, sess[s])
                  \ Transcript(parent', sess'[s]) :
              \E p \in Holders(s) : m \in View(p) /\ proc'[p] # proc[p]
  BY DropsSeen
<1>2. QED
  BY Inductive, <1>1, PTL DEF Spec, NoUnseenDrop

LEMMA RowStep ==
    ASSUME IInv, [Next]_vars, NEW s \in Session, sess'[s].stored
    PROVE  /\ \/ /\ sess[s].stored
                 /\ KeepsManual(sess[s], sess'[s])
                 /\ sess'[s].forkedFrom = sess[s].forkedFrom
              \/ /\ ~sess[s].stored
                 /\ sess'[s].forkedFrom # None =>
                       KeepsManual(sess[sess'[s].forkedFrom], sess'[s])
           /\ sess'[s].snap \in {sess[s].snap, sess'[s].head}
<1>1. sess \in [Session -> Rows]
  BY DEF IInv, TypeOK
<1>2. ~sess[s].stored => sess[s].snap = None
  BY DEF IInv, AbsentEmpty
<1>3. CASE SameMemory \/ \E p \in Proc : Swapped(p)
  BY <1>3 DEF SameMemory, Swapped, SameBranches, KeepsManual
<1>4. CASE \E t \in Session : Delete(t)
  <2>1. PICK t \in Session : Delete(t)
    BY <1>4
  <2>2. sess' = [sess EXCEPT ![t] = NoRow] /\ ~NoRow.stored
    BY <2>1 DEF Delete, NoRow
  <2>3. sess'[s] = sess[s]
    BY <1>1, <2>2
  <2>4. QED
    BY <2>3 DEF KeepsManual
<1>5. CASE \E p \in Proc, st \in States : KeptRows(p, st)
  BY <1>5 DEF KeptRows, KeepsManual
<1>6. ASSUME NEW p \in Proc, NEW st \in States, NEW t \in Session,
             NEW row \in Rows,
             Created(p, st, t, row) \/ Updated(p, st, t, row)
                \/ Forked(p, st, t, row)
      PROVE  /\ \/ /\ sess[s].stored
                   /\ KeepsManual(sess[s], sess'[s])
                   /\ sess'[s].forkedFrom = sess[s].forkedFrom
                \/ /\ ~sess[s].stored
                   /\ sess'[s].forkedFrom # None =>
                         KeepsManual(sess[sess'[s].forkedFrom], sess'[s])
             /\ sess'[s].snap \in {sess[s].snap, sess'[s].head}
  <2>1. sess' = [sess EXCEPT ![t] = row]
    BY <1>6 DEF Created, Updated, Forked, Wrote
  <2>2. CASE t # s
    <3>1. sess'[s] = sess[s]
      BY <1>1, <2>1, <2>2
    <3>2. QED
      BY <3>1 DEF KeepsManual
  <2>3. CASE t = s
    <3>1. sess'[s] = row
      BY <1>1, <2>1, <2>3
    <3>2. CASE Created(p, st, s, row)
      BY <1>2, <3>1, <3>2 DEF Created
    <3>3. CASE Updated(p, st, s, row)
      BY <3>1, <3>3 DEF Updated
    <3>4. CASE Forked(p, st, s, row)
      BY <1>2, <3>1, <3>4 DEF Forked
    <3>5. QED
      BY <1>6, <2>3, <3>2, <3>3, <3>4
  <2>4. QED
    BY <2>2, <2>3
<1>7. QED
  BY <1>3, <1>4, <1>5, <1>6, StepShape

\* A title the user gave survives every automatic title, in the session and
\* in the forks of it.
THEOREM ManualTitleAlwaysSticks == Spec => ManualTitleSticks
<1>1. IInv /\ [Next]_vars =>
        \A s \in Session : sess'[s].stored =>
          /\ sess[s].stored /\ sess[s].title = "user"
                => sess'[s].title = "user"
          /\ LET source == sess'[s].forkedFrom
             IN  ~sess[s].stored /\ source # None
                   /\ sess[source].title = "user"
                   => sess'[s].title = "user"
  BY RowStep DEF KeepsManual
<1>2. QED
  BY Inductive, <1>1, PTL DEF Spec, ManualTitleSticks

\* File snapshots are only ever saved for the transcript the head names.
THEOREM SnapshotsAlwaysDescribeHead == Spec => SnapshotsDescribeHead
<1>1. IInv /\ [Next]_vars =>
        \A s \in Session :
          sess'[s].stored /\ sess'[s].snap # sess[s].snap =>
              sess'[s].snap = sess'[s].head
  BY RowStep
<1>2. QED
  BY Inductive, <1>1, PTL DEF Spec, SnapshotsDescribeHead
-----------------------------------------------------------------------------
(***************************************************************************)
(* The refinement of Conversations                                         *)
(***************************************************************************)
Exists == {s \in Session : sess[s].stored}
Branch == [s \in Session |-> Transcript(parent, sess[s])]
At     == [p \in Proc |-> IF Writing(p) THEN proc[p].id ELSE None]
Seen   == [p \in Proc |-> IF Writing(p) THEN View(p) ELSE {}]

Observed == <<Exists, Branch, At, Seen>>

\* What processes that a step leaves alone see of it.
LEMMA OthersSee ==
    ASSUME IInv, parent' \in Parents, Extends(parent, parent'),
           NEW p \in Proc, NEW st, proc' = [proc EXCEPT ![p] = st]
    PROVE  /\ At' = [At EXCEPT ![p] = At'[p]]
           /\ Seen' = [Seen EXCEPT ![p] = Seen'[p]]
           /\ At'[p] = IF st.open /\ st.saved /\ ~st.stopped
                         THEN st.id ELSE None
           /\ Seen'[p] = IF st.open /\ st.saved /\ ~st.stopped
                           THEN Chain(parent', Msg, st.tip) ELSE {}
<1>1. /\ proc \in [Proc -> States] /\ parent \in Parents /\ Forest(parent)
      /\ \A q \in Proc : Written(parent, proc[q].tip)
  BY DEF IInv, TypeOK, Counted, Sound, Tallies, Tallied
<1>2. /\ proc'[p] = st
      /\ \A q \in Proc \ {p} :
            /\ proc'[q] = proc[q]
            /\ Chain(parent', Msg, proc[q].tip)
                  = Chain(parent, Msg, proc[q].tip)
  BY <1>1, ChainKept
<1>3. ASSUME NEW q \in Proc \ {p}
      PROVE  At'[q] = At[q] /\ Seen'[q] = Seen[q]
  BY <1>2 DEF At, Seen, Writing, View
<1>4. /\ At'[p] = IF st.open /\ st.saved /\ ~st.stopped THEN st.id ELSE None
      /\ Seen'[p] = IF st.open /\ st.saved /\ ~st.stopped
                      THEN Chain(parent', Msg, st.tip) ELSE {}
  BY <1>2 DEF At, Seen, Writing, View
<1>5. /\ At = [q \in Proc |-> At[q]] /\ At' = [q \in Proc |-> At'[q]]
      /\ Seen = [q \in Proc |-> Seen[q]] /\ Seen' = [q \in Proc |-> Seen'[q]]
  BY DEF At, Seen
<1> HIDE DEF At, Seen
<1>6. QED
  BY <1>3, <1>4, <1>5

\* A row that a step leaves alone, and one it writes.
LEMMA RowsSeen ==
    ASSUME IInv, IInv', parent' \in Parents, Extends(parent, parent'),
           NEW s \in Session, NEW row \in Rows,
           sess' = [sess EXCEPT ![s] = row], row.stored
    PROVE  /\ Exists' = Exists \cup {s}
           /\ Branch' = [Branch EXCEPT ![s] = Chain(parent', Msg, row.head)]
<1>1. sess \in [Session -> Rows]
  BY DEF IInv, TypeOK
<1>2. \A t \in Session : sess'[t] = IF t = s THEN row ELSE sess[t]
  BY <1>1
<1>3. Exists' = Exists \cup {s}
  BY <1>2 DEF Exists
<1>4. ASSUME NEW t \in Session
      PROVE  Branch'[t] = IF t = s THEN Chain(parent', Msg, row.head)
                                   ELSE Branch[t]
  BY <1>2, StepTranscripts DEF Branch
<1>5. /\ Branch = [t \in Session |-> Branch[t]]
      /\ Branch' = [t \in Session |-> Branch'[t]]
  BY DEF Branch
<1> HIDE DEF Branch
<1>6. QED
  BY <1>3, <1>4, <1>5

LEMMA SameSeen ==
    ASSUME IInv, IInv', parent' \in Parents, Extends(parent, parent'),
           \A s \in Session : /\ sess'[s].stored = sess[s].stored
                              /\ sess'[s].head = sess[s].head
    PROVE  Exists' = Exists /\ Branch' = Branch
BY StepTranscripts DEF Exists, Branch

\* A process that another one overtook holds another branch than its session:
\* two different tips never end the same chain.
LEMMA TipsDiffer ==
    ASSUME Sound(parent), NEW x \in MsgOrNull, NEW y \in MsgOrNull,
           Chain(parent, Msg, x) = Chain(parent, Msg, y)
    PROVE  x = y
<1>1. CASE x \in Msg /\ y \in Msg
  BY <1>1, ChainInRows DEF Sound, Acyclic
<1>2. CASE x = None \/ y = None
  <2>1. Chain(parent, Msg, None) = {}
    BY RowsAssumption DEF Chain
  <2>2. QED
    BY <1>2, <2>1, ChainInRows DEF MsgOrNull
<1>3. QED
  BY <1>1, <1>2 DEF MsgOrNull

ConversationStep ==
    \/ UNCHANGED Observed
    \/ \E p \in Proc : Promised!Write(p) \/ Promised!Leave(p)
    \/ \E p \in Proc, s \in Session :
          Promised!Create(p, s) \/ Promised!Fork(p, s) \/ Promised!Open(p, s)
    \/ \E s \in Session : Promised!Delete(s)

LEMMA Leaves ==
    ASSUME NEW p \in Proc, Exists' = Exists, Branch' = Branch,
           At' = [At EXCEPT ![p] = None], Seen' = [Seen EXCEPT ![p] = {}]
    PROVE  Promised!Leave(p)
BY DEF Promised!Leave, Exists, Branch, At, Seen

LEMMA KeptStep ==
    ASSUME IInv, IInv', parent' \in Parents, Extends(parent, parent'),
           NEW p \in Proc, NEW st \in States, KeptRows(p, st)
    PROVE  ConversationStep
<1>1. Exists' = Exists /\ Branch' = Branch
  BY SameSeen DEF KeptRows
<1>2. /\ At' = [At EXCEPT ![p] = At'[p]]
      /\ Seen' = [Seen EXCEPT ![p] = Seen'[p]]
      /\ At'[p] = IF st.open /\ st.saved /\ ~st.stopped
                    THEN st.id ELSE None
      /\ Seen'[p] = IF st.open /\ st.saved /\ ~st.stopped
                      THEN Chain(parent', Msg, st.tip) ELSE {}
  BY OthersSee DEF KeptRows
<1>3. CASE st.open /\ st.saved /\ ~st.stopped
  <2>1. /\ proc[p].open /\ proc[p].saved /\ ~proc[p].stopped
        /\ st.tip = proc[p].tip /\ st.id = proc[p].id
    <3>1. proc[p].open /\ proc[p].saved /\ ~proc[p].stopped
            /\ st.tip = proc[p].tip /\ st.id = proc[p].id
      BY <1>3 DEF KeptRows
    <3>2. QED
      BY <3>1
  <2>2. Chain(parent', Msg, proc[p].tip) = View(p)
    BY StepTranscripts
  <2>3. At[p] = st.id /\ Seen[p] = View(p)
    BY <2>1 DEF At, Seen, Writing
  <2>4. At'[p] = At[p] /\ Seen'[p] = Seen[p]
    BY <1>2, <1>3, <2>1, <2>2, <2>3
  <2>5. At' = At /\ Seen' = Seen
    <3>1. At = [q \in Proc |-> At[q]] /\ Seen = [q \in Proc |-> Seen[q]]
      BY DEF At, Seen
    <3> HIDE DEF At, Seen
    <3>2. QED
      BY <1>2, <2>4, <3>1
  <2>6. QED
    BY <1>1, <2>5 DEF ConversationStep, Observed
<1>4. CASE ~(st.open /\ st.saved /\ ~st.stopped)
  <2>1. At' = [At EXCEPT ![p] = None] /\ Seen' = [Seen EXCEPT ![p] = {}]
    BY <1>2, <1>4
  <2>2. QED
    BY <1>1, <2>1, Leaves DEF ConversationStep
<1>5. QED
  BY <1>3, <1>4

LEMMA WroteStep ==
    ASSUME IInv, IInv', parent' \in Parents, Extends(parent, parent'),
           NEW p \in Proc, NEW st \in States, NEW s \in Session,
           NEW row \in Rows,
           Created(p, st, s, row) \/ Updated(p, st, s, row)
              \/ Forked(p, st, s, row)
    PROVE  ConversationStep
<1>1. /\ Wrote(p, st, s, row) /\ None \notin Session
      /\ proc[p].tip \in MsgOrNull /\ proc[p].id \in Session
      /\ Sound(parent) /\ sess \in [Session -> Rows]
  BY RowsAssumption
     DEF Created, Updated, Forked, Wrote, IInv, TypeOK, States, OpenNamed,
         Counted
<1>2. /\ Exists' = Exists \cup {s}
      /\ Branch' = [Branch EXCEPT ![s] = Chain(parent', Msg, row.head)]
  BY <1>1, RowsSeen DEF Wrote
<1>3. /\ At' = [At EXCEPT ![p] = s]
      /\ Seen' = [Seen EXCEPT ![p] = Seen'[p]]
      /\ Seen'[p] = Chain(parent', Msg, st.tip)
  BY <1>1, OthersSee DEF Wrote
<1>4. /\ Branch[s] = Chain(parent, Msg, sess[s].head)
      /\ Chain(parent', Msg, sess[s].head) = Chain(parent, Msg, sess[s].head)
      /\ Chain(parent', Msg, proc[p].tip) = View(p)
      /\ Branch[proc[p].id] = Chain(parent, Msg, sess[proc[p].id].head)
  BY <1>1, StepTranscripts DEF Branch
<1>5. ASSUME proc[p].saved
      PROVE  At[p] = proc[p].id /\ Seen[p] = View(p)
  BY <1>1, <1>5 DEF At, Seen, Writing, Wrote
<1>6. CASE Created(p, st, s, row)
  <2>1. At[p] = None /\ s \notin Exists /\ row.head = st.tip
    BY <1>6 DEF Created, At, Writing, Exists
  <2>2. /\ Exists' = Exists \cup {s}
        /\ Branch' = [Branch EXCEPT ![s] = Seen'[p]]
        /\ At' = [At EXCEPT ![p] = s]
        /\ Seen' = [Seen EXCEPT ![p] = Seen'[p]]
    BY <1>2, <1>3, <2>1
  <2>3. Promised!Create(p, s)
    BY <2>1, <2>2
       DEF Promised!Create, Promised!Land, Exists, Branch, At, Seen
  <2>4. QED
    BY <2>3 DEF ConversationStep
<1>7. CASE Forked(p, st, s, row)
  <2>1. /\ row.head = st.tip /\ proc[p].saved /\ s \notin Exists
        /\ sess[proc[p].id].head # proc[p].tip
    BY <1>7 DEF Forked, Exists
  <2>2. At[p] # None /\ Branch[At[p]] # Seen[p]
    <3>1. sess[proc[p].id].head \in MsgOrNull
      BY <1>1 DEF Rows
    <3>2. Branch[proc[p].id] # View(p)
      BY <1>1, <1>4, <2>1, <3>1, TipsDiffer DEF View
    <3>3. QED
      BY <1>1, <1>5, <2>1, <3>2
  <2>3. /\ Exists' = Exists \cup {s}
        /\ Branch' = [Branch EXCEPT ![s] = Seen'[p]]
        /\ At' = [At EXCEPT ![p] = s]
        /\ Seen' = [Seen EXCEPT ![p] = Seen'[p]]
    BY <1>2, <1>3, <2>1
  <2>4. Promised!Fork(p, s)
    BY <2>1, <2>2, <2>3
       DEF Promised!Fork, Promised!Land, Exists, Branch, At, Seen
  <2>5. QED
    BY <2>4 DEF ConversationStep
<1>8. CASE Updated(p, st, s, row) /\ row.head = st.tip
                                  /\ sess[s].head = proc[p].tip
  <2>1. proc[p].saved /\ proc[p].id = s
    BY <1>8 DEF Updated
  <2>2. /\ At[p] = s /\ At[p] # None /\ Branch[At[p]] = Seen[p]
    BY <1>1, <1>4, <1>5, <1>8, <2>1 DEF View
  <2>3. /\ Exists' = Exists \cup {At[p]}
        /\ Branch' = [Branch EXCEPT ![At[p]] = Seen'[p]]
        /\ At' = [At EXCEPT ![p] = At[p]]
        /\ Seen' = [Seen EXCEPT ![p] = Seen'[p]]
    BY <1>2, <1>3, <1>8, <2>2
  <2>4. Promised!Write(p)
    BY <2>2, <2>3
       DEF Promised!Write, Promised!Land, Exists, Branch, At, Seen
  <2>5. QED
    BY <2>4 DEF ConversationStep
<1>9. CASE Updated(p, st, s, row) /\ row.head = sess[s].head
                                  /\ st.tip = proc[p].tip
  <2>1. proc[p].saved /\ proc[p].id = s /\ s \in Exists
    BY <1>9 DEF Updated, Exists
  <2>2. /\ At[p] = s /\ Seen[p] = View(p) /\ Seen'[p] = View(p)
        /\ Chain(parent', Msg, row.head) = Branch[s]
    BY <1>3, <1>4, <1>5, <1>9, <2>1
  <2>3. /\ At = [q \in Proc |-> At[q]] /\ Seen = [q \in Proc |-> Seen[q]]
        /\ Branch = [t \in Session |-> Branch[t]]
    BY DEF At, Seen, Branch
  <2> HIDE DEF At, Seen, Branch, Exists
  <2>4. At' = At /\ Seen' = Seen /\ Branch' = Branch /\ Exists' = Exists
    BY <1>2, <1>3, <2>1, <2>2, <2>3
  <2>5. QED
    BY <2>4 DEF ConversationStep, Observed
<1>10. QED
  BY <1>6, <1>7, <1>8, <1>9 DEF Updated

LEMMA SwapStep ==
    ASSUME IInv, IInv', parent' \in Parents, Extends(parent, parent'),
           NEW p \in Proc, Swapped(p)
    PROVE  ConversationStep
<1>1. PICK st \in States :
         /\ proc' = [proc EXCEPT ![p] = st]
         /\ \/ st = Off
            \/ \E f \in FreshIds : st = Fresh(f)
            \/ \E s \in Session : sess[s].stored /\ st = Resumed(s)
  BY DEF Swapped
<1>2. parent' = parent /\ Exists' = Exists /\ Branch' = Branch
  BY SameSeen DEF Swapped, SameBranches
<1>3. /\ At' = [At EXCEPT ![p] = At'[p]]
      /\ Seen' = [Seen EXCEPT ![p] = Seen'[p]]
      /\ At'[p] = IF st.open /\ st.saved /\ ~st.stopped
                    THEN st.id ELSE None
      /\ Seen'[p] = IF st.open /\ st.saved /\ ~st.stopped
                      THEN Chain(parent', Msg, st.tip) ELSE {}
  BY <1>1, OthersSee
<1>4. CASE ~st.saved
  <2>1. At' = [At EXCEPT ![p] = None] /\ Seen' = [Seen EXCEPT ![p] = {}]
    BY <1>3, <1>4
  <2>2. QED
    BY <1>2, <2>1, Leaves DEF ConversationStep
<1>5. ASSUME NEW s \in Session, sess[s].stored, st = Resumed(s)
      PROVE  ConversationStep
  <2>1. /\ st.open /\ st.saved /\ ~st.stopped /\ st.id = s
        /\ st.tip = sess[s].head
    BY <1>5, ResumedState DEF IInv
  <2>2. Chain(parent', Msg, sess[s].head) = Branch[s] /\ s \in Exists
    BY <1>5, StepTranscripts DEF Branch, Exists
  <2>3. /\ At' = [At EXCEPT ![p] = s]
        /\ Seen' = [Seen EXCEPT ![p] = Branch[s]]
    BY <1>3, <2>1, <2>2
  <2>4. Promised!Open(p, s)
    BY <1>2, <2>2, <2>3 DEF Promised!Open, Exists, Branch, At, Seen
  <2>5. QED
    BY <2>4 DEF ConversationStep
<1>6. ~Off.saved /\ \A f \in FreshIds : ~Fresh(f).saved
  BY FreshState DEF Off, FreshIds
<1>7. QED
  BY <1>1, <1>4, <1>5, <1>6

LEMMA DeleteStep ==
    ASSUME IInv, IInv', NEW s \in Session, Delete(s)
    PROVE  ConversationStep
<1>1. /\ sess' = [sess EXCEPT ![s] = NoRow] /\ proc' = proc /\ parent' = parent
      /\ sess[s].stored /\ Holders(s) = {}
      /\ sess \in [Session -> Rows] /\ parent \in Parents
      /\ Extends(parent, parent)
  BY DEF Delete, IInv, TypeOK, Extends
<1>2. ~NoRow.stored /\ NoRow.head = None
  BY DEF NoRow
<1>3. \A t \in Session : sess'[t] = IF t = s THEN NoRow ELSE sess[t]
  BY <1>1
<1>4. s \in Exists /\ Exists' = Exists \ {s}
  BY <1>1, <1>2, <1>3 DEF Exists
<1>5. Branch' = [Branch EXCEPT ![s] = {}]
  <2>1. Chain(parent', Msg, None) = {}
    BY RowsAssumption DEF Chain
  <2>2. ASSUME NEW t \in Session
        PROVE  Branch'[t] = IF t = s THEN {} ELSE Branch[t]
    BY <1>1, <1>2, <1>3, <2>1, StepTranscripts DEF Branch
  <2>3. /\ Branch = [t \in Session |-> Branch[t]]
        /\ Branch' = [t \in Session |-> Branch'[t]]
    BY DEF Branch
  <2> HIDE DEF Branch
  <2>4. QED
    BY <2>2, <2>3
<1>6. /\ At' = At /\ Seen' = Seen
      /\ \A p \in Proc : At[p] # s
  BY <1>1, RowsAssumption DEF At, Seen, Writing, View, Holders
<1>7. Promised!Delete(s)
  BY <1>4, <1>5, <1>6 DEF Promised!Delete, Exists, Branch, At, Seen
<1>8. QED
  BY <1>7 DEF ConversationStep

LEMMA EveryStepPromised ==
    ASSUME IInv, IInv', [Next]_vars
    PROVE  ConversationStep
<1>1. parent' \in Parents /\ Extends(parent, parent')
  BY StepShape
<1>2. CASE SameMemory
  <2>1. Exists' = Exists /\ Branch' = Branch
    BY <1>1, <1>2, SameSeen DEF SameMemory, SameBranches
  <2>2. At' = At /\ Seen' = Seen
    BY <1>2 DEF SameMemory, At, Seen, Writing, View
  <2>3. QED
    BY <2>1, <2>2 DEF ConversationStep, Observed
<1>3. QED
  BY <1>1, <1>2, StepShape, DeleteStep, SwapStep, KeptStep, WroteStep

\* The head check with the lazy fork is a compare-and-swap of whole branches:
\* every process works on its session as if it were alone, or in a fork that
\* holds its own line, and what it does not write it does not change.
THEOREM ConversationsImplemented == Spec => ImplementsConversations
<1>1. Init => Promised!CInit
  <2>1. SUFFICES ASSUME Init PROVE Promised!CInit
    OBVIOUS
  <2>2. /\ ~NoRow.stored /\ NoRow.head = None /\ NoRow.msgs = {} /\ ~Off.open
    BY DEF NoRow, Off
  <2>3. \A s \in Session : Transcript(parent, sess[s]) = {}
    BY <2>1, <2>2 DEF Init, Transcript, Chain
  <2>4. \A p \in Proc : ~Writing(p)
    BY <2>1, <2>2 DEF Init, Writing
  <2>5. QED
    BY <2>1, <2>2, <2>3, <2>4 DEF Promised!CInit, Init
<1>2. IInv /\ IInv' /\ [Next]_vars => [Promised!CNext]_(Promised!cvars)
  <2>1. SUFFICES ASSUME IInv, IInv', [Next]_vars
                 PROVE  Promised!CNext \/ UNCHANGED Promised!cvars
    OBVIOUS
  <2>2. ConversationStep
    BY <2>1, EveryStepPromised
  <2>3. CASE UNCHANGED Observed
    BY <2>3 DEF Observed, Exists, Branch, At, Seen, Promised!cvars
  <2>4. QED
    BY <2>2, <2>3 DEF ConversationStep, Promised!CNext
<1>3. QED
  BY Inductive, <1>1, <1>2, PTL
     DEF Spec, ImplementsConversations, Promised!CSpec
=============================================================================
