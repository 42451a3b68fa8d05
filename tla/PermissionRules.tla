-------------------------- MODULE PermissionRules --------------------------
(***************************************************************************)
(* The permission gate of one session: what the deny, ask and allow rules, *)
(* the mode and the rules the user granted make of a call.  A shell        *)
(* command is the list of the simple commands the analysis finds in it,    *)
(* a path the names it is known by; file system, globs and quoting are     *)
(* data.                                                                   *)
(***************************************************************************)
EXTENDS Naturals, Sequences, FiniteSets

CONSTANTS
    Word,        \* the texts of words and the names of files
    Fold,        \* fold_name: the text two names compare by
    Bare,        \* basename: a program without its directory
    Below,       \* the names below a name that is a directory
    Star,        \* PatternWord::Any, and the pattern `*`
    Rules,       \* the rules a configuration or a user may write
    Accesses,    \* what calls access
    Modes,       \* the permission modes the user switches to
    NoAccess,    \* no call at the gate
    MaxGrants    \* bound on the rules granted in one session

Classes == {"read", "edit", "exec", "net", "mcp"}

\* ShellWord: its text, and whether the shell runs it as written.
ShellWord == [text : Word, literal : BOOLEAN]
\* Segment: named words, of which the first `start` are assignments.
Segment == {s \in [named : Seq(ShellWord), start : Nat] : s.start < Len(s.named)}
Command == [class : {"exec"}, kind : {"command"}, segments : Seq(Segment), complete : BOOLEAN]
Path == [class : {"read", "edit"}, kind : {"path"}, canonical : Word, requested : Word]
Other == [class : Classes, kind : {"none"}]
Rule == [class : Classes, pattern : {Star} \cup Seq(Word \cup {Star})]

ASSUME RulesAssumption ==
    /\ Star \notin Word \cup Seq(Word \cup {Star})
    /\ Fold \in [Word -> Word] /\ Bare \in [Word -> Word]
    /\ Below \in [Word -> SUBSET Word]
    /\ \A n \in Word : \A below \in Below[n] : Fold[below] \in Below[Fold[n]]
    /\ Rules \subseteq Rule
    /\ Accesses \subseteq Command \cup Path \cup Other
    /\ NoAccess \notin Accesses
    /\ MaxGrants \in Nat

VARIABLES
    config,      \* the deny, ask and allow tiers
    attended,    \* a person can answer
    mode,        \* Mode
    session,     \* session_allow
    gate,        \* the call at the gate: its step, and the call
    granted      \* history: the calls a rule of this session was granted for

policy == <<config, attended, mode, session>>
permvars == <<policy, gate, granted>>

-----------------------------------------------------------------------------
(***************************************************************************)
(* Commands                                                                *)
(***************************************************************************)
\* A simple command of a script: assignments, the words of a program, and
\* whether a redirection, an expansion or other syntax is in or around it.
\* Walk::command keeps it as a segment if it names a program.
Parsed(script) ==
    LET programs == SelectSeq(script, LAMBDA c : c.argv # <<>>)
    IN  [class |-> "exec", kind |-> "command",
         segments |-> [i \in DOMAIN programs |->
                           [named |-> programs[i].assigns \o programs[i].argv,
                            start |-> Len(programs[i].assigns)]],
         complete |-> \A i \in DOMAIN script :
                          LET words == script[i].assigns \o script[i].argv
                          IN  /\ script[i].argv # <<>> /\ ~script[i].odd
                              /\ \A j \in DOMAIN words : words[j].literal]

Program(segment) == SubSeq(segment.named, segment.start + 1, Len(segment.named))
BareProgram(segment) ==
    LET program == Program(segment)
    IN  [program EXCEPT ![1] = [@ EXCEPT !.text = Bare[@]]]

-----------------------------------------------------------------------------
(***************************************************************************)
(* Matching                                                                *)
(***************************************************************************)
\* words_allowed: word by word, and a trailing Any for whatever remains.
WordsAllowed(pattern, words) ==
    LET open == pattern # <<>> /\ pattern[Len(pattern)] = Star
        fixed == IF open THEN Len(pattern) - 1 ELSE Len(pattern)
    IN  /\ IF open THEN fixed <= Len(words) ELSE fixed = Len(words)
        /\ \A i \in 1..fixed : words[i].literal /\ pattern[i] \in {Star, words[i].text}

\* word_held
WordHeld(pw, word) == pw = Star \/ ~word.literal \/ Fold[word.text] = Fold[pw]

\* Mutant: the words of a pattern are matched one for one, as an allow rule's are.
WordsHeldAdjacent(pattern, words) ==
    /\ pattern # <<>> /\ Len(pattern) <= Len(words)
    /\ \A i \in DOMAIN pattern : WordHeld(pattern[i], words[i])

\* words_held: the first word, then each later literal word among the rest, in
\* order.  Taking the first match of each finds such places if there are any.
WordsHeld(pattern, words) ==
    LET later == {i \in DOMAIN pattern : i > 1 /\ pattern[i] # Star}
    IN  /\ pattern # <<>> /\ words # <<>>
        /\ WordHeld(pattern[1], words[1])
        /\ \E place \in [later -> DOMAIN words] :
              \A i \in later :
                  /\ place[i] > 1 /\ WordHeld(pattern[i], words[place[i]])
                  /\ \A j \in later : i < j => place[i] < place[j]

\* segment_held
SegmentHeld(pattern, segment) ==
    \/ WordsHeld(pattern, segment.named)
    \/ WordsHeld(pattern, Program(segment))
    \/ WordsHeld(pattern, BareProgram(segment))

\* Rule::allows, of one simple command.
AllowsSegment(rule, segment) ==
    /\ rule.class = "exec"
    /\ rule.pattern = Star \/ WordsAllowed(rule.pattern, segment.named)

\* PathGlob::is_match: a pattern matches what it names and all below.  An allow
\* rule sees where a path resolves, as written; a deny or ask rule also the name
\* the call used, both folded.
Under(name) == {name} \cup Below[name]
PathAllowed(pattern, path) == \E n \in Word : pattern = <<n>> /\ path.canonical \in Under(n)
PathHeld(pattern, path) ==
    \E n \in Word : /\ pattern = <<n>>
                   /\ Under(Fold[n]) \cap {Fold[path.canonical], Fold[path.requested]} # {}

\* Rule::matches under MatchDiscipline::Allow, and under Deny.
Allows(rule, access) ==
    /\ rule.class = access.class
    /\ \/ rule.pattern = Star
       \/ access.kind = "path" /\ PathAllowed(rule.pattern, access)
       \/ /\ access.kind = "command" /\ access.complete /\ access.segments # <<>>
          /\ \A i \in DOMAIN access.segments : AllowsSegment(rule, access.segments[i])
Holds(rule, access) ==
    /\ rule.class = access.class
    /\ \/ rule.pattern = Star
       \/ access.kind = "path" /\ PathHeld(rule.pattern, access)
       \/ access.kind = "command"
          /\ \E i \in DOMAIN access.segments : SegmentHeld(rule.pattern, access.segments[i])

-----------------------------------------------------------------------------
(***************************************************************************)
(* The policy                                                              *)
(***************************************************************************)
\* Mode::denies
Denies(m, class) == m = "plan" /\ class \in {"edit", "exec", "net"}

\* Mutant: a command is let through by one of its parts.
AllowedByAny(rules, access) ==
    \/ \E r \in rules : Allows(r, access)
    \/ /\ access.kind = "command" /\ access.complete
       /\ \E i \in DOMAIN access.segments : \E r \in rules : AllowsSegment(r, access.segments[i])

\* Policy::allows and allows_command: different rules may let the parts of a
\* command through.
Allowed(rules, access) ==
    IF access.kind = "command"
    THEN \/ \E r \in rules : r.class = "exec" /\ r.pattern = Star
         \/ /\ access.complete /\ access.segments # <<>>
            /\ \A i \in DOMAIN access.segments :
                  \E r \in rules : AllowsSegment(r, access.segments[i])
    ELSE \E r \in rules : Allows(r, access)

Fallback(m) == IF m = "auto" THEN "Classify" ELSE IF m = "manual" THEN "Ask" ELSE "Allow"

\* Policy::settle, under the session rules `rules`: the first that applies.
Settle(rules, access) ==
    IF \E r \in config.deny : Holds(r, access) THEN "Deny"
    ELSE IF Denies(mode, access.class) THEN "Deny"
    ELSE IF \E r \in config.ask : Holds(r, access) THEN "Ask"
    ELSE IF access.class = "read" /\ access.kind = "none" THEN "Allow"
    ELSE IF Allowed(config.allow \cup rules, access) THEN "Allow"
    ELSE Fallback(mode)

\* Policy::verdict: nobody to ask is a denial.
Attended(decision) == IF decision = "Ask" /\ ~attended THEN "Unapproved" ELSE decision
Verdict(access) == Attended(Settle(session, access))

\* Rule::for_call: exactly these words, or this path.  The empty set is None.
ForCall(access) ==
    {r \in [class : {access.class},
            pattern : IF access.kind = "path" THEN {<<access.canonical>>}
                      ELSE IF access.kind = "command" /\ Len(access.segments) = 1
                      THEN LET words == access.segments[1].named
                           IN  {[i \in DOMAIN words |-> words[i].text]}
                      ELSE {}] :
        Allows(r, access)}

\* Policy::session_grant: the suggested rule, if it would let the call through.
SessionGrant(access) == {r \in ForCall(access) : Settle(session \cup {r}, access) = "Allow"}

\* Mutant: any rule of the call's class is taken.
AdmitsClass(access, rule) == SessionGrant(access) # {} /\ rule.class = access.class

\* SessionGrant::admit, of the rule as the user edited it, for a call with a grant.
Admits(access, rule) == SessionGrant(access) # {} /\ Allows(rule, access)

-----------------------------------------------------------------------------
(***************************************************************************)
(* One call at the gate at a time: check_permission                        *)
(***************************************************************************)
Idle == [step |-> "idle", access |-> NoAccess]

PermInit ==
    /\ config \in [deny : SUBSET Rules, ask : SUBSET Rules, allow : SUBSET Rules]
    /\ attended \in BOOLEAN
    /\ mode \in Modes
    /\ session = {} /\ granted = {} /\ gate = Idle

Judged(access, decision) ==
    gate' = IF decision \in {"Classify", "Ask"} THEN [step |-> decision, access |-> access]
            ELSE Idle

Gate ==
    /\ gate = Idle
    /\ \E a \in Accesses : Judged(a, Verdict(a))
    /\ UNCHANGED <<policy, granted>>

\* The classifier's answer counts only if the policy, consulted again, still
\* leaves the call to it.
Assess ==
    /\ gate.step = "Classify"
    /\ \E assessed \in {"Allow", "Ask"} :
          LET again == Verdict(gate.access)
          IN  Judged(gate.access, IF again = "Classify" THEN Attended(assessed) ELSE again)
    /\ UNCHANGED <<policy, granted>>

\* A rule is admitted, or refused with the call.
AllowForSession ==
    /\ gate.step = "Ask"
    /\ Cardinality(granted) < MaxGrants
    /\ \E r \in Rules \cup ForCall(gate.access) :
          IF Admits(gate.access, r)
          THEN session' = session \cup {r} /\ granted' = granted \cup {gate.access}
          ELSE UNCHANGED <<session, granted>>
    /\ gate' = Idle
    /\ UNCHANGED <<config, attended, mode>>

\* Approved or denied, this once.
ReplyOnce == gate.step = "Ask" /\ gate' = Idle /\ UNCHANGED <<policy, granted>>

\* A switch takes effect at the next consultation of the policy.
SwitchMode ==
    /\ gate.step # "Ask"
    /\ mode' \in Modes \ {mode}
    /\ UNCHANGED <<config, attended, session, gate, granted>>

\* Mutant: the rules of the last session stay.
AdoptKeeping ==
    /\ gate = Idle /\ granted' = {}
    /\ UNCHANGED <<policy, gate>>

\* adopt_session: another session begins, with no rule granted in it.
Adopt ==
    /\ gate = Idle
    /\ session' = {} /\ granted' = {}
    /\ UNCHANGED <<config, attended, mode, gate>>

PermNext == Gate \/ Assess \/ AllowForSession \/ ReplyOnce \/ SwitchMode \/ Adopt

PermSpec == PermInit /\ [][PermNext]_permvars

-----------------------------------------------------------------------------
(***************************************************************************)
(* Properties                                                              *)
(***************************************************************************)
\* Every variable has its type: the gate holds a call only while it is judged.
PermTypeOK ==
    /\ config \in [deny : SUBSET Rules, ask : SUBSET Rules, allow : SUBSET Rules]
    /\ attended \in BOOLEAN /\ mode \in Modes
    /\ session \subseteq Rule
    /\ granted \subseteq Accesses
    /\ gate = Idle \/ gate \in [step : {"Classify", "Ask"}, access : Accesses]

\* A rule moved from an allow tier to a deny or ask tier holds every call it let
\* through: the two disciplines, word by word in order and word among words,
\* directory and all, never leave a call between them.
AllowedIsHeld ==
    \A r \in Rules \cup session, a \in Accesses : Allows(r, a) => Holds(r, a)

Strictness(decision) ==
    IF decision = "Allow" THEN 0 ELSE IF decision = "Classify" THEN 1
    ELSE IF decision = "Deny" THEN 3 ELSE 2

\* One part of a command as a call of its own, whole or not.
Part(access, i, whole) == [access EXCEPT !.segments = <<@[i]>>, !.complete = whole]

\* A command is judged at least as strictly as each part of it alone, so
\* that chaining, piping or nesting a command never gets it through the gate.
PartsJudged ==
    \A a \in Accesses : a.kind = "command" =>
        \A i \in DOMAIN a.segments : \A whole \in {TRUE, a.complete} :
            Strictness(Verdict(Part(a, i, whole))) <= Strictness(Verdict(a))

\* b is the same access as a, to the word, or one of a file below the directory a.
SameAccess(a, b) ==
    /\ a.class = b.class /\ a.kind = b.kind
    /\ a.kind = "path" => b.canonical \in Under(a.canonical)
    /\ a.kind = "command" =>
          \A i \in DOMAIN b.segments : b.segments[i].named = a.segments[1].named

\* What "allow for this session" says is what happens: until the session ends, a
\* call it was chosen for passes again in every mode that does not deny its
\* class, no rule is there that was not chosen for a call of this session, and
\* the rule that is suggested covers that very call and no other, a directory
\* with what is below it.
GrantsHold ==
    /\ PermTypeOK
    /\ \A a \in granted : Denies(mode, a.class) \/ Verdict(a) = "Allow"
    /\ \A r \in session : \E a \in granted : Allows(r, a)
    /\ gate.step = "Ask" =>
          \A r \in ForCall(gate.access), a \in Accesses :
              Allows(r, a) => SameAccess(gate.access, a)
=============================================================================
