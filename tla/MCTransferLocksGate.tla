------------------------ MODULE MCTransferLocksGate ------------------------
(***************************************************************************)
(* Bounds for SessionTransfer, SessionLocks and PermissionRules.  The      *)
(* three share no state, so one run checks them: a behavior is one of      *)
(* transfers between stores, one of the lock file of a session or one of   *)
(* the permission gate, as `part` says, while the others stay as they      *)
(* began.                                                                  *)
(***************************************************************************)
EXTENDS SessionTransfer, SessionLocks, PermissionRules, TLC

VARIABLE part   \* the component this behavior is one of

-----------------------------------------------------------------------------
(* Words that fold, lose a directory or assign, and the commands of them.  *)
-----------------------------------------------------------------------------
Words == {"run", "RUN", "bin/run", "arg", "V=1"}
Folded == [w \in Words |-> IF w = "RUN" THEN "run" ELSE w]
Within == [w \in Words |-> IF w = "run" THEN {"bin/run"} ELSE {}]
Bared == [w \in Words |-> IF w = "bin/run" THEN "run" ELSE w]

Literal(texts) == [i \in DOMAIN texts |-> [text |-> texts[i], literal |-> TRUE]]
Simple(assigns, argv, odd) ==
    [assigns |-> Literal(assigns), argv |-> Literal(argv), odd |-> odd]
Run == Simple(<<>>, <<"run", "arg">>, FALSE)

Calls == {
    Parsed(<<Simple(<<>>, <<"run">>, FALSE)>>),
    Parsed(<<Simple(<<>>, <<"bin/run">>, FALSE)>>),
    Parsed(<<Simple(<<"V=1">>, <<"RUN", "V=1", "arg">>, FALSE)>>),
    Parsed(<<Run, Simple(<<>>, <<"arg">>, FALSE)>>),
    Parsed(<<Simple(<<>>, <<"arg">>, TRUE), Run>>),
    Parsed(<<Simple(<<"V=1">>, <<>>, FALSE)>>),
    Parsed(<<[Run EXCEPT !.argv[2].literal = FALSE]>>),
    [class |-> "edit", kind |-> "path", canonical |-> "run", requested |-> "run"],
    [class |-> "edit", kind |-> "path", canonical |-> "arg", requested |-> "RUN"],
    [class |-> "edit", kind |-> "path", canonical |-> "bin/run", requested |-> "arg"],
    [class |-> "read", kind |-> "none"]}

On(class, pattern) == [class |-> class, pattern |-> pattern]
Written == {
    On("exec", Star), On("exec", <<"run", Star>>), On("exec", <<"arg">>),
    On("exec", <<"V=1", Star, "arg">>), On("edit", <<"run">>)}

\* At most one rule in each tier, and a deny or an ask rule.
Few == {{}} \cup {{r} : r \in Written}
Configs == {c \in [deny : Few, ask : Few, allow : Few] : c.deny = {} \/ c.ask = {}}

-----------------------------------------------------------------------------
Init ==
    /\ part \in {"transfer", "locks", "gate"} /\ TInit /\ LInit
    /\ config \in Configs /\ PermInit
    /\ part # "gate" => config = [deny |-> {}, ask |-> {}, allow |-> {}] /\ attended /\ mode = "plan"

Next ==
    \/ part = "transfer" /\ TNext /\ UNCHANGED <<lvars, permvars, part>>
    \/ part = "locks" /\ LNext /\ UNCHANGED <<tvars, permvars, part>>
    \/ part = "gate" /\ PermNext /\ UNCHANGED <<tvars, lvars, part>>

Spec == Init /\ [][Next]_<<tvars, lvars, permvars, part>>

Interchangeable ==
    Permutations(Store) \cup Permutations(Session) \cup Permutations(Msg)
=============================================================================
