SPECIFICATION Spec
CONSTANTS
    Revisions <- PathRevisions
    Parent <- PathParent
    Content <- PathContent
    Sites <- MissedSites
    Appliers = {"a1"}
    MaxEdits = 0
PROPERTY RetriesCommit
