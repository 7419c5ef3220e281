SPECIFICATION Spec
CONSTANTS
    None = None
    List = List
    MaxEdits = 2
    MaxCalls = 2
    MaxLost = 1
CONSTRAINT Careful
INVARIANTS SavedAsShown EditsKept
PROPERTIES EditsSettle
