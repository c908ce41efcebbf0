----------------------------- MODULE Gates_proofs -----------------------------
(***************************************************************************)
(* The failures a gate's verdict is drawn from, for every set of rules and *)
(* groups: they suffice to explain why the gate did not pass, none of them *)
(* belongs to a group that passed, and with fewer the verdict is no worse. *)
(***************************************************************************)
EXTENDS Gates, TLAPS

(***************************************************************************)
(* Repairing changes neither groups nor logic, keeps what passes passing,  *)
(* and makes the repaired rules pass.                                      *)
(***************************************************************************)
LEMMA RepairedShape ==
    ASSUME NEW g \in Gate, NEW F \in SUBSET Rules
    PROVE  /\ \A h : RulesIn(Repaired(g, F), h) = RulesIn(g, h)
           /\ \A h : GroupsIn(Repaired(g, F), h) = GroupsIn(g, h)
           /\ Repaired(g, F).logic = g.logic
           /\ \A r \in Rules : RulePasses(g, r) => RulePasses(Repaired(g, F), r)
           /\ \A r \in F : RulePasses(Repaired(g, F), r)
<1> DEFINE w == Repaired(g, F)
<1>1. /\ w.within = g.within /\ w.logic = g.logic
      /\ w.holds = [r \in Rules |-> r \in F \/ g.holds[r]]
      /\ w.severity = [r \in Rules |-> IF r \in F THEN "required" ELSE g.severity[r]]
  BY DEF Gate, Repaired
<1>2. /\ \A h : RulesIn(w, h) = RulesIn(g, h)
      /\ \A h : GroupsIn(w, h) = GroupsIn(g, h)
  BY <1>1 DEF RulesIn, GroupsIn
<1>3. \A r \in Rules : w.holds[r] = (r \in F \/ g.holds[r])
  BY <1>1, Zenon
<1>4. \A r \in Rules : w.severity[r] = IF r \in F THEN "required" ELSE g.severity[r]
  BY <1>1, Zenon
<1> HIDE DEF w
<1>5. \A r \in Rules : RulePasses(g, r) => RulePasses(w, r)
  BY <1>3, <1>4 DEF RulePasses
<1>6. \A r \in F : RulePasses(w, r)
  BY <1>3, <1>4 DEF RulePasses
<1> QED BY <1>1, <1>2, <1>5, <1>6, Zenon DEF w

(***************************************************************************)
(* What evaluateGroup asks of one group, whatever its level: a group that  *)
(* passed passes when more of its members do, and one all of whose members *)
(* pass passes, unless it is an empty alternative.                         *)
(***************************************************************************)
LEMMA GroupMonotone ==
    ASSUME NEW g \in Gate, NEW F \in SUBSET Rules, NEW h, NEW p, NEW q, p \subseteq q,
           GroupPasses(g, h, p)
    PROVE  GroupPasses(Repaired(g, F), h, q)
<1>1. RulesIn(g, h) \subseteq Rules
  BY DEF RulesIn
<1> QED BY <1>1, RepairedShape DEF GroupPasses

LEMMA GroupRestored ==
    ASSUME NEW g \in Gate, NEW F \in SUBSET Rules, NEW h, NEW q,
           Failures(g, h) \subseteq F, GroupsIn(g, h) \subseteq q,
           g.logic[h] \in {"AND", "OR"},
           g.logic[h] = "OR" => RulesIn(g, h) \union GroupsIn(g, h) # {}
    PROVE  GroupPasses(Repaired(g, F), h, q)
<1>1. \A r \in RulesIn(g, h) : RulePasses(Repaired(g, F), r)
  BY RepairedShape DEF RulesIn, Failures
<1> QED BY <1>1, RepairedShape DEF GroupPasses

(***************************************************************************)
(* At each level: a group that passed still passes when rules are          *)
(* repaired, and one that did not does when its failures are among them    *)
(* (evaluateGroup, collectEffectiveFailures).                              *)
(***************************************************************************)
LEMMA InnerRepaired ==
    ASSUME NEW g \in Gate, NEW F \in SUBSET Rules, NEW h
    PROVE  /\ InnerPasses(g, h) => InnerPasses(Repaired(g, F), h)
           /\ h \in Inner(g) /\ ~TooDeep(g) /\ NoEmptyAlternative(g)
              /\ InnerFailures(g, h) \subseteq F
              => InnerPasses(Repaired(g, F), h)
<1>1. InnerPasses(g, h) => InnerPasses(Repaired(g, F), h)
  BY GroupMonotone DEF InnerPasses
<1>2. ASSUME h \in Inner(g), ~TooDeep(g), NoEmptyAlternative(g), ~InnerPasses(g, h),
             InnerFailures(g, h) \subseteq F
      PROVE  InnerPasses(Repaired(g, F), h)
  <2>1. GroupsIn(g, h) = {}
    BY <1>2 DEF TooDeep, Below
  <2>2. g.logic[h] \in {"AND", "OR"}
    BY <1>2 DEF Inner, Below, GroupsIn, Gate
  <2>3. g.logic[h] = "OR" => RulesIn(g, h) \union GroupsIn(g, h) # {}
    BY <1>2 DEF NoEmptyAlternative
  <2>4. Failures(g, h) \subseteq F
    BY <1>2 DEF InnerFailures
  <2> QED BY <2>1, <2>2, <2>3, <2>4, GroupRestored DEF InnerPasses
<1> QED BY <1>1, <1>2

LEMMA MiddleRepaired ==
    ASSUME NEW g \in Gate, NEW F \in SUBSET Rules, NEW h
    PROVE  /\ MiddlePasses(g, h) => MiddlePasses(Repaired(g, F), h)
           /\ h \in Middle(g) /\ ~TooDeep(g) /\ NoEmptyAlternative(g)
              /\ MiddleFailures(g, h) \subseteq F
              => MiddlePasses(Repaired(g, F), h)
<1> DEFINE w == Repaired(g, F)
           Passing(v) == {x \in GroupsIn(v, h) : InnerPasses(v, x)}
<1>1. GroupsIn(w, h) = GroupsIn(g, h)
  BY RepairedShape
<1>2. \A v : MiddlePasses(v, h) = GroupPasses(v, h, Passing(v))
  BY DEF MiddlePasses
<1> HIDE DEF w
<1>3. Passing(g) \subseteq Passing(w)
  BY <1>1, InnerRepaired DEF w
<1>4. MiddlePasses(g, h) => MiddlePasses(w, h)
  BY <1>2, <1>3, GroupMonotone DEF w
<1>5. ASSUME h \in Middle(g), ~TooDeep(g), NoEmptyAlternative(g), ~MiddlePasses(g, h),
             MiddleFailures(g, h) \subseteq F
      PROVE  MiddlePasses(w, h)
  <2>1. Failures(g, h) \subseteq F /\ \A x \in GroupsIn(g, h) : InnerFailures(g, x) \subseteq F
    BY <1>5 DEF MiddleFailures
  <2>2. \A x \in GroupsIn(g, h) : x \in Inner(g)
    BY <1>5 DEF Inner, Below
  <2>3. GroupsIn(g, h) \subseteq Passing(w)
    BY <1>1, <1>5, <2>1, <2>2, InnerRepaired DEF w
  <2>4. g.logic[h] \in {"AND", "OR"}
    BY <1>5 DEF Middle, GroupsIn, Gate
  <2>5. g.logic[h] = "OR" => RulesIn(g, h) \union GroupsIn(g, h) # {}
    BY <1>5 DEF NoEmptyAlternative
  <2>6. GroupPasses(w, h, Passing(w))
    BY <2>1, <2>3, <2>4, <2>5, GroupRestored DEF w
  <2> QED BY <1>2, <2>6
<1> QED BY <1>4, <1>5 DEF w

(***************************************************************************)
(* A gate whose effective failures are repaired passes: the verdict is     *)
(* drawn from the whole reason why the gate did not                        *)
(* (collectEffectiveFailures, evaluateGate).                               *)
(***************************************************************************)
THEOREM BlameSufficient ==
    ASSUME NEW g \in Gate, ~TooDeep(g)
    PROVE  BlameSuffices(g)
<1> DEFINE F == EffectiveFailures(g)
           w == Repaired(g, F)
           Passing(v) == {x \in Middle(v) : MiddlePasses(v, x)}
<1>1. F \in SUBSET Rules
  BY DEF EffectiveFailures, MiddleFailures, InnerFailures, Failures, RulesIn
<1>2. \A v : GatePasses(v) = GroupPasses(v, Root, Passing(v))
  BY DEF GatePasses
<1> HIDE DEF F
<1>3. Middle(w) = Middle(g)
  BY <1>1, RepairedShape DEF Middle
<1> HIDE DEF w
<1>4. \A x : MiddlePasses(g, x) => MiddlePasses(w, x)
  BY <1>1, MiddleRepaired DEF w
<1>5. GatePasses(g) => GatePasses(w)
  <2>1. Passing(g) \subseteq Passing(w)
    BY <1>3, <1>4
  <2> QED BY <1>1, <1>2, <2>1, GroupMonotone DEF w
<1>6. ASSUME NoEmptyAlternative(g), ~GatePasses(g)
      PROVE  GatePasses(w)
  <2>1. Failures(g, Root) \subseteq F /\ \A x \in Middle(g) : MiddleFailures(g, x) \subseteq F
    BY <1>6 DEF EffectiveFailures, F
  <2>2. Middle(g) \subseteq Passing(w)
    BY <1>1, <1>3, <1>6, <2>1, MiddleRepaired DEF w
  <2>3. g.logic[Root] \in {"AND", "OR"}
    BY GateAssumption DEF Gate
  <2>4. g.logic[Root] = "OR" => RulesIn(g, Root) \union GroupsIn(g, Root) # {}
    BY <1>6 DEF NoEmptyAlternative
  <2>5. GroupPasses(w, Root, Passing(w))
    BY <1>1, <2>1, <2>2, <2>3, <2>4, GroupRestored DEF w, Middle
  <2> QED BY <1>2, <2>5
<1> QED BY <1>5, <1>6 DEF BlameSuffices, w, F

(***************************************************************************)
(* No group is on two levels: a gate in which one is has groups nested in  *)
(* a circle, which the engine refuses as too deep.                         *)
(***************************************************************************)
LEMMA LevelsApart ==
    ASSUME NEW g \in Gate, ~TooDeep(g)
    PROVE  /\ Root \notin Middle(g) /\ Root \notin Inner(g)
           /\ Middle(g) \intersect Inner(g) = {}
<1>1. Root \notin Middle(g)
  <2> SUFFICES ASSUME Root \in Middle(g) PROVE FALSE
    OBVIOUS
  <2>1. Root \in GroupsIn(g, Root)
    BY DEF Middle
  <2>2. Root \in Inner(g)
    BY <2>1 DEF Inner, Below, Middle
  <2> QED BY <2>1, <2>2 DEF TooDeep, Below
<1>2. Root \notin Inner(g)
  <2> SUFFICES ASSUME Root \in Inner(g) PROVE FALSE
    OBVIOUS
  <2>1. PICK h \in Middle(g) : Root \in GroupsIn(g, h)
    BY DEF Inner, Below
  <2>2. h \in Below(g, Inner(g))
    BY <2>1 DEF Below, Middle
  <2> QED BY <2>2 DEF TooDeep
<1>3. Middle(g) \intersect Inner(g) = {}
  <2> SUFFICES ASSUME NEW h \in Middle(g), h \in Inner(g) PROVE FALSE
    OBVIOUS
  <2>1. PICK m \in Middle(g) : h \in GroupsIn(g, m)
    BY DEF Inner, Below
  <2>2. g.within[h] = m /\ g.within[h] = Root
    BY <2>1 DEF Middle, GroupsIn
  <2> QED BY <1>1, <2>1, <2>2
<1> QED BY <1>1, <1>2, <1>3

(***************************************************************************)
(* Nothing among the effective failures is an alternative that was not     *)
(* needed: every group around it failed (collectEffectiveFailures).        *)
(***************************************************************************)
THEOREM BlameNecessary ==
    ASSUME NEW g \in Gate, ~TooDeep(g)
    PROVE  BlameNeeded(g)
<1> SUFFICES ASSUME NEW r \in EffectiveFailures(g)
             PROVE  /\ ~GatePasses(g) /\ ~RulePasses(g, r)
                    /\ \A h \in Middle(g) :
                          r \in RulesIn(g, h)
                                \union UNION {RulesIn(g, x) : x \in GroupsIn(g, h)}
                          => ~MiddlePasses(g, h)
                    /\ \A h \in Inner(g) : r \in RulesIn(g, h) => ~InnerPasses(g, h)
  BY DEF BlameNeeded
<1>1. ~GatePasses(g)
  BY DEF EffectiveFailures
<1>2. \A h : r \in RulesIn(g, h) <=> r \in Rules /\ g.within[r] = h
  BY DEF RulesIn
<1>3. CASE r \in Failures(g, Root)
  <2>1. g.within[r] = Root /\ ~RulePasses(g, r)
    BY <1>2, <1>3 DEF Failures
  <2>2. \A h \in Middle(g) : \A x \in GroupsIn(g, h) : x \in Inner(g)
    BY DEF Inner, Below
  <2> QED BY <1>1, <1>2, <2>1, <2>2, LevelsApart
<1>4. ASSUME NEW m \in Middle(g), r \in MiddleFailures(g, m)
      PROVE  /\ ~RulePasses(g, r)
             /\ \A h \in Middle(g) :
                   r \in RulesIn(g, h) \union UNION {RulesIn(g, x) : x \in GroupsIn(g, h)}
                   => ~MiddlePasses(g, h)
             /\ \A h \in Inner(g) : r \in RulesIn(g, h) => ~InnerPasses(g, h)
  <2>1. ~MiddlePasses(g, m)
    BY <1>4 DEF MiddleFailures
  <2>2. \A h \in Middle(g) : \A x \in GroupsIn(g, h) : x \in Inner(g) /\ g.within[x] = h
    BY DEF Inner, Below, GroupsIn
  <2>3. CASE r \in Failures(g, m)
    <3>1. g.within[r] = m /\ ~RulePasses(g, r)
      BY <1>2, <2>3 DEF Failures
    <3> QED BY <1>2, <2>1, <2>2, <3>1, LevelsApart
  <2>4. ASSUME NEW x \in GroupsIn(g, m), r \in InnerFailures(g, x)
        PROVE  /\ ~RulePasses(g, r)
               /\ \A h \in Middle(g) :
                     r \in RulesIn(g, h) \union UNION {RulesIn(g, y) : y \in GroupsIn(g, h)}
                     => ~MiddlePasses(g, h)
               /\ \A h \in Inner(g) : r \in RulesIn(g, h) => ~InnerPasses(g, h)
    <3>1. ~InnerPasses(g, x) /\ g.within[r] = x /\ ~RulePasses(g, r)
      BY <1>2, <2>4 DEF InnerFailures, Failures
    <3>2. x \in Inner(g) /\ g.within[x] = m
      BY <2>2
    <3> QED BY <1>2, <2>1, <2>2, <3>1, <3>2, LevelsApart
  <2> QED BY <1>4, <2>1, <2>3, <2>4 DEF MiddleFailures
<1> QED BY <1>1, <1>3, <1>4 DEF EffectiveFailures

(***************************************************************************)
(* Among failures some is worst: there are no more than six weights of     *)
(* either kind (resolveWorstAction finds a worst one by a scan).           *)
(***************************************************************************)
LEMMA SomeHeaviest ==
    ASSUME NEW S, S # {}, NEW f, \A x \in S : f[x] \in 1..6
    PROVE  \E x \in S : \A y \in S : f[y] <= f[x]
<1>1. CASE \E x \in S : f[x] = 6
  BY <1>1
<1>2. CASE (\E x \in S : f[x] = 5) /\ \A x \in S : f[x] < 6
  BY <1>2
<1>3. CASE (\E x \in S : f[x] = 4) /\ \A x \in S : f[x] < 5
  BY <1>3
<1>4. CASE (\E x \in S : f[x] = 3) /\ \A x \in S : f[x] < 4
  BY <1>4
<1>5. CASE (\E x \in S : f[x] = 2) /\ \A x \in S : f[x] < 3
  BY <1>5
<1>6. CASE \A x \in S : f[x] < 2
  BY <1>6
<1> QED BY <1>1, <1>2, <1>3, <1>4, <1>5, <1>6

LEMMA SomeWorst ==
    ASSUME NEW g \in Gate, EffectiveFailures(g) # {}
    PROVE  Worst(g) # {}
<1> DEFINE E == EffectiveFailures(g)
           sw == [r \in E |-> SeverityWeight(g.severity[r])]
           aw == [r \in E |-> ActionWeight(g.onFail[r])]
<1>1. E \subseteq Rules
  BY DEF EffectiveFailures, MiddleFailures, InnerFailures, Failures, RulesIn
<1>2. \A s \in E : g.severity[s] \in Severities /\ g.onFail[s] \in Actions
  BY <1>1 DEF Gate
<1>3. \A r \in E : sw[r] \in 1..6
  BY <1>2 DEF SeverityWeight, Severities
<1>4. \A r \in E : aw[r] \in 1..6
  BY <1>2 DEF ActionWeight, Actions
<1>5. \A r, s \in E : Worse(g, r, s) => sw[r] > sw[s] \/ (sw[r] = sw[s] /\ aw[r] > aw[s])
  BY DEF Worse
<1>6. E # {}
  OBVIOUS
<1> HIDE DEF sw, aw, E
<1>7. PICK top \in E : \A s \in E : sw[s] <= sw[top]
  BY <1>3, <1>6, SomeHeaviest
<1> DEFINE T == {s \in E : sw[s] = sw[top]}
<1>8. T # {} /\ \A x \in T : aw[x] \in 1..6
  BY <1>4
<1>9. PICK r \in T : \A s \in T : aw[s] <= aw[r]
  <2> HIDE DEF T
  <2> QED BY <1>8, SomeHeaviest
<1>10. \A s \in E : ~Worse(g, s, r)
  BY <1>3, <1>4, <1>5, <1>7, <1>9
<1> QED BY <1>9, <1>10 DEF Worst, E

(***************************************************************************)
(* A gate that is repaired has no failure it did not have: repairing a     *)
(* rule takes away failures, those of the groups that pass for it among    *)
(* them (collectEffectiveFailures).                                        *)
(***************************************************************************)
LEMMA FailuresShrink ==
    ASSUME NEW g \in Gate, NEW F \in SUBSET Rules
    PROVE  EffectiveFailures(Repaired(g, F)) \subseteq EffectiveFailures(g) \ F
<1> DEFINE w == Repaired(g, F)
           Passing(v) == {x \in Middle(v) : MiddlePasses(v, x)}
<1>1. \A h : Failures(w, h) \subseteq Failures(g, h) \ F
  BY RepairedShape DEF Failures, RulesIn
<1>2. \A h : GroupsIn(w, h) = GroupsIn(g, h)
  BY RepairedShape
<1>3. \A h : InnerPasses(g, h) => InnerPasses(w, h)
  BY InnerRepaired
<1>4. \A h : MiddlePasses(g, h) => MiddlePasses(w, h)
  BY MiddleRepaired
<1>5. GatePasses(g) => GatePasses(w)
  <2>1. Passing(g) \subseteq Passing(w)
    BY <1>2, <1>4 DEF Middle
  <2>2. \A v : GatePasses(v) = GroupPasses(v, Root, Passing(v))
    BY DEF GatePasses
  <2> QED BY <2>1, <2>2, GroupMonotone
<1> HIDE DEF w
<1>6. \A h : InnerFailures(w, h) \subseteq InnerFailures(g, h) \ F
  BY <1>1, <1>3 DEF InnerFailures
<1>7. \A h : MiddleFailures(w, h) \subseteq MiddleFailures(g, h) \ F
  BY <1>1, <1>2, <1>4, <1>6 DEF MiddleFailures
<1>8. EffectiveFailures(w) \subseteq EffectiveFailures(g) \ F
  BY <1>1, <1>2, <1>5, <1>7 DEF EffectiveFailures, Middle
<1> QED BY <1>8 DEF w

(***************************************************************************)
(* Of a gate none of whose failures blocks: no rule that failed makes the  *)
(* verdict worse by passing.  What remains of the failures are some of     *)
(* those there were, the worst of them no worse than the worst there was   *)
(* (resolveWorstAction, actionToVerdict).                                  *)
(***************************************************************************)
THEOREM MendingHarmless ==
    ASSUME NEW g \in Gate
    PROVE  MendingNeverHurts(g)
<1> SUFFICES ASSUME \A r \in EffectiveFailures(g) : g.severity[r] # "block",
                    NEW F \in SUBSET Rules
             PROVE  ActionWeight(EvaluateGate(Repaired(g, F)))
                    <= ActionWeight(EvaluateGate(g))
  BY DEF MendingNeverHurts
<1> DEFINE w == Repaired(g, F)
<1>1. w.mode = g.mode /\ w.onFail = g.onFail /\ w \in Gate
  BY DEF Repaired, Gate, Severities
<1>2. \A r \in Rules \ F : w.severity[r] = g.severity[r]
  BY DEF Repaired, Gate
<1>3. EffectiveFailures(w) \subseteq EffectiveFailures(g) \ F
  BY FailuresShrink
<1> HIDE DEF w
<1>4. EffectiveFailures(g) \subseteq Rules
  BY DEF EffectiveFailures, MiddleFailures, InnerFailures, Failures, RulesIn
<1>5. \A r \in Rules : g.severity[r] \in Severities /\ g.onFail[r] \in Actions
  BY DEF Gate
<1>6. \A v \in Verdicts : ActionWeight(v) \in Nat /\ ActionWeight(v) >= 1
  BY DEF ActionWeight, Verdicts
<1>7. \A a \in Actions : ActionToVerdict(a) \in Verdicts
  BY DEF ActionToVerdict, Actions, Verdicts
<1>8. \A a, b \in Actions : ActionWeight(a) <= ActionWeight(b) =>
          ActionWeight(ActionToVerdict(a)) <= ActionWeight(ActionToVerdict(b))
  BY DEF ActionWeight, ActionToVerdict, Actions
<1> DEFINE worst == CHOOSE r \in Worst(g) : TRUE
           left == CHOOSE r \in Worst(w) : TRUE
<1>9. CASE ~\E r \in Worst(w) : w.severity[r] # "warn"
  <2>1. RulesVerdict(w) = "proceed"
    BY <1>9 DEF RulesVerdict
  <2>2. RulesVerdict(g) \in Verdicts
    <3>1. Worst(g) # {} => worst \in Worst(g)
      BY Zenon
    <3> QED BY <1>4, <1>5, <1>7, <3>1 DEF RulesVerdict, Worst, Verdicts
  <2>3. ActionWeight(RulesVerdict(w)) <= ActionWeight(RulesVerdict(g))
    BY <1>6, <2>1, <2>2 DEF ActionWeight
  <2> QED BY <1>1, <1>6, <2>3 DEF EvaluateGate, w, Gate, Modes, Verdicts
<1>10. ASSUME NEW r \in Worst(w), w.severity[r] # "warn"
       PROVE  ActionWeight(EvaluateGate(w)) <= ActionWeight(EvaluateGate(g))
  <2>1. left \in Worst(w)
    BY <1>10, Zenon
  <2> HIDE DEF left
  <2>2. /\ r \in EffectiveFailures(g) /\ left \in EffectiveFailures(g)
        /\ r \in Rules /\ left \in Rules /\ ~Worse(w, r, left)
        /\ w.severity[r] = g.severity[r] /\ w.severity[left] = g.severity[left]
    BY <1>2, <1>3, <1>4, <2>1 DEF Worst
  <2>3. g.severity[r] = "required" /\ g.severity[left] = "required"
    BY <1>5, <1>10, <2>2 DEF Worse, SeverityWeight, Severities
  <2>4. RulesVerdict(w) = ActionToVerdict(g.onFail[left])
    BY <1>1, <1>10 DEF RulesVerdict, left
  <2>5. worst \in Worst(g)
    <3>1. Worst(g) # {}
      BY <2>2, SomeWorst
    <3> QED BY <3>1, Zenon
  <2> HIDE DEF worst
  <2>6. worst \in EffectiveFailures(g) /\ worst \in Rules /\ ~Worse(g, left, worst)
    BY <1>4, <2>2, <2>5 DEF Worst
  <2>7. g.severity[worst] = "required"
    BY <1>5, <2>3, <2>6 DEF Worse, SeverityWeight, Severities
  <2>8. ActionWeight(g.onFail[left]) <= ActionWeight(g.onFail[worst])
    <3>1. ~(ActionWeight(g.onFail[left]) > ActionWeight(g.onFail[worst]))
      BY <2>3, <2>6, <2>7 DEF Worse
    <3>2. g.onFail[left] \in Actions /\ g.onFail[worst] \in Actions
      BY <1>5, <2>2, <2>6
    <3>3. \A a \in Actions : ActionWeight(a) \in Nat
      BY DEF ActionWeight, Actions
    <3> QED BY <3>1, <3>2, <3>3
  <2>9. RulesVerdict(g) = ActionToVerdict(g.onFail[worst])
    BY <2>5, <2>7 DEF RulesVerdict, worst
  <2>10. ActionWeight(RulesVerdict(w)) <= ActionWeight(RulesVerdict(g))
    BY <1>5, <1>8, <2>2, <2>4, <2>6, <2>8, <2>9
  <2> QED BY <1>1, <1>6, <2>10 DEF EvaluateGate, Gate, Modes, Verdicts
<1> QED BY <1>9, <1>10 DEF w
===============================================================================
