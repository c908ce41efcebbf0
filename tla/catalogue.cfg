CONSTANTS
    skill = skill
    skill2 = skill2
    own = own
    driver1 = driver1
    driver2 = driver2
    persona1 = persona1
    stage1 = stage1
    plan = plan
    build = build
    review = review
    r1 = r1
    r2 = r2
    saveSkill = saveSkill
    resaveSkill = resaveSkill
    revertSkill = revertSkill
    renameSkill = renameSkill
    addOwn = addOwn
    renameOwn = renameOwn
    deleteSkill = deleteSkill
    attachSkill = attachSkill
    detachSkill = detachSkill
    saveDriver = saveDriver
    resaveDriver = resaveDriver
    revertDriver = revertDriver
    addDriver = addDriver
    deleteDriver = deleteDriver
    setDriver = setDriver
    clearDriver = clearDriver
    savePersona = savePersona
    deletePersona = deletePersona
    setPersona = setPersona
    attachToo = attachToo
    setRules = setRules
    evaluate = evaluate
    None = None
    Nowhere = Nowhere
    Groups = {0, 1, 2, 3}
    Root = 0
    Rules = {r1, r2}
    Skills = {skill, skill2, own}
    Drivers = {driver1, driver2}
    Personas = {persona1}
    Stages = {stage1}
    Names = {plan, build, review}
    FirstName <- AtStart
    Scopes = {"project", "catalog"}
    ScopeOf <- Layers
    Contexts <- Waterfalls
    GateConfigs <- TestedGates
    FirstGate <- AtFirst
    Requests = {saveSkill, resaveSkill, revertSkill, renameSkill, addOwn, renameOwn, deleteSkill, attachSkill, detachSkill, saveDriver, resaveDriver, revertDriver, addDriver, deleteDriver, setDriver, clearDriver, savePersona, deletePersona, setPersona, attachToo, setRules, evaluate}
    Ask <- Calls
    MayVanish = {saveSkill, saveDriver}
    Batches <- Together

SPECIFICATION Spec

INVARIANTS
    TypeOK
    HistoryFollowsDriver
    SavedIsRecorded
    NoOrphans
    EffectiveIsDetermined
    BlameIsExact
    MendingHelps

PROPERTY NoLostUpdate

CHECK_DEADLOCK FALSE
