SPECIFICATION Spec
CONSTANTS
    Revisions <- PathRevisions
    Parent <- PathParent
    Content <- PathContent
    Sites <- SafeSites
    Appliers = {"a1", "a2"}
    MaxEdits = 2
INVARIANT ApplyInv
PROPERTIES NothingLost NoRollback ApplySettles
