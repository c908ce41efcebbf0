CONSTANTS
    theme = theme
    epic = epic
    left = left
    right = right
    added = added
    note = note
    reply = reply
    retort = retort
    closeLeft = closeLeft
    closeRight = closeRight
    closeUnlogged = closeUnlogged
    reopenLeft = reopenLeft
    moveEpic = moveEpic
    editEpic = editEpic
    blockEpic = blockEpic
    add = add
    drop = drop
    retire = retire
    addReply = addReply
    addRetort = addRetort
    editNote = editNote
    rewriteNote = rewriteNote
    eraseNote = eraseNote
    None = None
    Issues = {theme, epic, left, right, added}
    Comments = {note, reply, retort}
    FirstNumber <- AtStart
    MaxNumber = 6
    Parent <- Tree
    NumStates = 4
    Terminal = {3, 4}
    Requests = {closeLeft, closeRight, closeUnlogged, reopenLeft, moveEpic, editEpic, blockEpic, add, drop, retire, addReply, addRetort, editNote, rewriteNote, eraseNote}
    Ask <- Calls
    EventFails = {closeUnlogged, rewriteNote, addReply}
    MayVanish = {closeLeft, addRetort}
    Batches <- Together

SPECIFICATION Spec

INVARIANTS
    TypeOK
    EpicClosesWithLastChild
    OpenChildKeepsEpicOpen
    CommentsNumberedInTurn
    CommentTrailComplete

PROPERTY NoLostUpdate

CHECK_DEADLOCK FALSE
