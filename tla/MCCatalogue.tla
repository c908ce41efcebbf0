------------------------------ MODULE MCCatalogue ------------------------------
(***************************************************************************)
(* Constants for the model checking of Catalogue: skills of the catalog    *)
(* and of one project, drivers, a persona, a stage, and the gates that two *)
(* levels of groups and two rules make.                                    *)
(***************************************************************************)
EXTENDS Catalogue, TLC

CONSTANTS skill, skill2, own, driver1, driver2, persona1, stage1, plan, build, review, r1, r2,
          saveSkill, resaveSkill, revertSkill, renameSkill, addOwn, renameOwn, deleteSkill,
          attachSkill, detachSkill, saveDriver, resaveDriver, revertDriver, addDriver,
          deleteDriver, setDriver, clearDriver, savePersona, deletePersona, setPersona,
          attachToo, setRules, evaluate

AtStart == skill :> plan @@ skill2 :> review @@ driver1 :> plan @@ persona1 :> plan

Layers == [id \in Rows |-> IF id = own THEN "project" ELSE "catalog"]

Waterfalls == {<<"project", "catalog">>, <<"catalog">>}

Asked(o, n, t) == [op |-> o, on |-> n, to |-> t]

Calls ==
    saveSkill :> Asked("save", skill, build) @@ resaveSkill :> Asked("save", skill, plan)
    @@ revertSkill :> Asked("revert", skill, 1) @@ renameSkill :> Asked("save", skill2, build)
    @@ addOwn :> Asked("create", own, build) @@ renameOwn :> Asked("save", own, plan)
    @@ deleteSkill :> Asked("delete", skill, None)
    @@ attachSkill :> Asked("attach", persona1, skill)
    @@ detachSkill :> Asked("detach", persona1, skill)
    @@ saveDriver :> Asked("save", driver1, build) @@ resaveDriver :> Asked("save", driver1, plan)
    @@ revertDriver :> Asked("revert", driver1, 1)
    @@ addDriver :> Asked("create", driver2, plan)
    @@ deleteDriver :> Asked("delete", driver1, None)
    @@ setDriver :> Asked("driver", stage1, driver1)
    @@ clearDriver :> Asked("driver", stage1, None)
    @@ savePersona :> Asked("save", persona1, build)
    @@ deletePersona :> Asked("delete", persona1, None)
    @@ setPersona :> Asked("persona", stage1, persona1)
    @@ attachToo :> Asked("attach", persona1, skill2)
    @@ setRules :> Asked("rules", stage1, None) @@ evaluate :> Asked("gate", stage1, None)

Together ==
    {{saveSkill, resaveSkill, revertSkill, renameSkill},      \* races for a skill
     {saveSkill, renameSkill, addOwn, renameOwn, revertSkill},     \* and for a name
     {saveSkill, resaveSkill, deleteSkill, attachSkill, detachSkill},
     {saveDriver, resaveDriver, revertDriver, addDriver},
     {saveDriver, deleteDriver, setDriver, clearDriver},
     {savePersona, deletePersona, setPersona, attachToo},
     {setRules, evaluate}}

-------------------------------------------------------------------------------
(* A rule passes, or fails in one of several ways. *)

Kind(h, s, f) == [holds |-> h, severity |-> s, onFail |-> f]

Kinds == {Kind(TRUE, "required", "abort"), Kind(FALSE, "required", "notify"),
          Kind(FALSE, "required", "rework"), Kind(FALSE, "warn", "abort"),
          Kind(FALSE, "required", "proceed"), Kind(TRUE, "block", "hold"),
          Kind(TRUE, "block", "proceed")}

Built(mode, logic, within, kind) ==
    [mode |-> mode, logic |-> logic, within |-> within,
     holds |-> [r \in Rules |-> kind[r].holds],
     severity |-> [r \in Rules |-> kind[r].severity],
     onFail |-> [r \in Rules |-> kind[r].onFail]]

\* Group 1 is in the root, group 2 in either.
Trees == {t \in [Groups \union Rules -> Groups \union {Nowhere}] :
             t[0] = Nowhere /\ t[1] = 0 /\ t[2] \in {0, 1} /\ t[3] = Nowhere
             /\ \A r \in Rules : t[r] \in {0, 1, 2}}

SomeTree == CHOOSE t \in Trees : t[2] = 1

Plain(mode) == Built(mode, [h \in Groups |-> "AND"], SomeTree,
                     [r \in Rules |-> Kind(FALSE, "required", "abort")])

AtFirst == Plain("auto")

TestedGates ==
    {Built("rules", [h \in Groups |-> IF h \in ors THEN "OR" ELSE "AND"], t, k) :
        ors \in SUBSET {0, 1, 2}, t \in Trees, k \in [Rules -> Kinds]}
    \union {Plain(m) : m \in Modes}
    \union {[Plain("rules") EXCEPT !.within = [@ EXCEPT ![3] = 2]]}      \* too deep

===============================================================================
