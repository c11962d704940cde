SPECIFICATION FairSpec
CONSTANTS
    Rows = {r1}
    Nos = {1}
    Files = {f1, f2}
    Editors = {u1}
    Lookups = {l1}
    Airs = {"draft", "published"}
    Edits <- MCEdits
    Procedure = TRUE
    None = None
INVARIANTS TypeOK ReadyPlaysOwnFile
PROPERTY TranscodedGetsReady
