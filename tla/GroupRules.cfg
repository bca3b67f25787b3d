SPECIFICATION Spec
CONSTANTS
    Groups = {"default", "vip", "svip"}
    Ratios = {0, 2}
    Texts <- Retyped
    Starts <- Examples
    Editors = {"rules"}
    Faults = {}
    MaxRows = 3
    MaxEdits = 1
    MaxSaves = 1
PROPERTIES
    DeletesAllRules
CHECK_DEADLOCK FALSE
