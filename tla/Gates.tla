--------------------------------- MODULE Gates ---------------------------------
(***************************************************************************)
(* The gates engine (core/gates/engine.ts): rules in nested AND and OR     *)
(* groups, the failures that count, and the verdict they lead to.          *)
(*                                                                         *)
(* A gate is a record: its mode, the logic of each group, the group each   *)
(* rule and each nested group is within, and for each rule its severity,   *)
(* its action and whether its condition holds of the context at hand.      *)
(* The engine refuses a fourth level of groups, so its recursion is        *)
(* written out: Root, the groups in Root, the groups in those.             *)
(***************************************************************************)
EXTENDS Naturals

CONSTANTS Groups, Rules, Root, Nowhere

ASSUME GateAssumption ==
    /\ Root \in Groups
    /\ Groups \intersect Rules = {}
    /\ Nowhere \notin Groups

Modes == {"auto", "skip", "hold", "manual", "rules"}
Severities == {"block", "required", "warn"}
Actions == {"proceed", "notify", "escalate", "hold", "rework", "abort"}
Verdicts == {"proceed", "hold", "rework", "abort"}

Gate == [mode : Modes,
         logic : [Groups -> {"AND", "OR"}],
         within : [Groups \union Rules -> Groups \union {Nowhere}],
         holds : [Rules -> BOOLEAN],
         severity : [Rules -> Severities],
         onFail : [Rules -> Actions]]

RulesIn(g, group) == {r \in Rules : g.within[r] = group}
GroupsIn(g, group) == {h \in Groups : g.within[h] = group}

Below(g, groups) == UNION {GroupsIn(g, h) : h \in groups}

Middle(g) == GroupsIn(g, Root)
Inner(g) == Below(g, Middle(g))

\* evaluateGroup throws at depth MAX_NESTING_DEPTH.
TooDeep(g) == Below(g, Inner(g)) # {}

-------------------------------------------------------------------------------
(* Passing *)

\* A rule of severity block never passes.
RulePasses(g, r) == g.severity[r] # "block" /\ g.holds[r]

\* every and some: an empty AND group passes, an empty OR group fails.
GroupPasses(g, group, passing) ==
    IF g.logic[group] = "AND"
    THEN /\ \A r \in RulesIn(g, group) : RulePasses(g, r)
         /\ GroupsIn(g, group) \subseteq passing
    ELSE \/ \E r \in RulesIn(g, group) : RulePasses(g, r)
         \/ GroupsIn(g, group) \intersect passing # {}

InnerPasses(g, h) == GroupPasses(g, h, {})
MiddlePasses(g, h) == GroupPasses(g, h, {x \in GroupsIn(g, h) : InnerPasses(g, x)})
GatePasses(g) == GroupPasses(g, Root, {x \in Middle(g) : MiddlePasses(g, x)})

-------------------------------------------------------------------------------
(* The failures that count *)

Failures(g, group) == {r \in RulesIn(g, group) : ~RulePasses(g, r)}

\* collectEffectiveFailures at each level: nothing from a group that passed.
InnerFailures(g, h) == IF InnerPasses(g, h) THEN {} ELSE Failures(g, h)

\* Mutant of MiddleFailures: the failures of every member count, whether the
\* group passed or not.
MiddleFailuresAll(g, h) ==
    Failures(g, h) \union UNION {InnerFailures(g, x) : x \in GroupsIn(g, h)}

MiddleFailures(g, h) ==
    IF MiddlePasses(g, h) THEN {}
    ELSE Failures(g, h) \union UNION {InnerFailures(g, x) : x \in GroupsIn(g, h)}

EffectiveFailures(g) ==
    IF GatePasses(g) THEN {}
    ELSE Failures(g, Root) \union UNION {MiddleFailures(g, x) : x \in Middle(g)}

-------------------------------------------------------------------------------
(* The verdict *)

SeverityWeight(s) == CASE s = "block" -> 3 [] s = "required" -> 2 [] s = "warn" -> 1

ActionWeight(a) ==
    CASE a = "abort" -> 6 [] a = "rework" -> 5 [] a = "hold" -> 4
      [] a = "escalate" -> 3 [] a = "notify" -> 2 [] a = "proceed" -> 1

\* Mutant of Worse: the action alone decides.
WorseAction(g, r, s) == ActionWeight(g.onFail[r]) > ActionWeight(g.onFail[s])

\* Severity decides, then the action.
Worse(g, r, s) ==
    \/ SeverityWeight(g.severity[r]) > SeverityWeight(g.severity[s])
    \/ /\ g.severity[r] = g.severity[s]
       /\ ActionWeight(g.onFail[r]) > ActionWeight(g.onFail[s])

\* The scan of resolveWorstAction stops at one of these; all of them have one
\* severity and one action, so that the order of the rules plays no part.
Worst(g) ==
    {r \in EffectiveFailures(g) : \A s \in EffectiveFailures(g) : ~Worse(g, s, r)}

\* Mutant of ActionToVerdict: the action is taken for the verdict.
ActionAsVerdict(a) == a

ActionToVerdict(a) ==
    CASE a = "abort" -> "abort"
      [] a = "rework" -> "rework"
      [] a \in {"hold", "escalate", "notify"} -> "hold"
      [] a = "proceed" -> "proceed"

\* Failures of severity warn alone do not hold anything up.
RulesVerdict(g) ==
    IF \E r \in Worst(g) : g.severity[r] # "warn"
    THEN ActionToVerdict(g.onFail[CHOOSE r \in Worst(g) : TRUE])
    ELSE "proceed"

EvaluateGate(g) ==
    CASE g.mode \in {"auto", "skip"} -> "proceed"
      [] g.mode \in {"hold", "manual"} -> "hold"
      [] g.mode = "rules" -> RulesVerdict(g)

-------------------------------------------------------------------------------
(* What the engine promises of them *)

\* The gate as it would be had the rules in F passed.
Repaired(g, F) ==
    [g EXCEPT !.holds = [r \in Rules |-> r \in F \/ g.holds[r]],
              !.severity = [r \in Rules |-> IF r \in F THEN "required"
                                            ELSE g.severity[r]]]

\* No group offers an alternative between nothing.
NoEmptyAlternative(g) ==
    \A h \in {Root} \union Middle(g) \union Inner(g) :
        g.logic[h] = "OR" => RulesIn(g, h) \union GroupsIn(g, h) # {}

\* The failures the verdict is drawn from are the whole reason why a gate does
\* not pass: had they passed, so would the gate.  (An OR group without members
\* fails and gives no reason; the engine then proceeds.)
BlameSuffices(g) ==
    NoEmptyAlternative(g) => GatePasses(Repaired(g, EffectiveFailures(g)))

\* None of them is an alternative that was not needed: no group around it passed.
BlameNeeded(g) ==
    \A r \in EffectiveFailures(g) :
        /\ ~GatePasses(g) /\ ~RulePasses(g, r)
        /\ \A h \in Middle(g) :
              r \in RulesIn(g, h) \union UNION {RulesIn(g, x) : x \in GroupsIn(g, h)}
              => ~MiddlePasses(g, h)
        /\ \A h \in Inner(g) : r \in RulesIn(g, h) => ~InnerPasses(g, h)

\* Passing more rules never makes the outcome worse: a stage that was to proceed
\* is not held, one that was to be reworked not aborted, because a rule that
\* failed now holds.  (A failed rule of severity block speaks in place of all
\* others, with whatever action it has; once its group passes, they are heard.)
MendingNeverHurts(g) ==
    LET now == ActionWeight(EvaluateGate(g)) IN
    (\A r \in EffectiveFailures(g) : g.severity[r] # "block")
    => \A F \in SUBSET Rules : ActionWeight(EvaluateGate(Repaired(g, F))) <= now

===============================================================================
