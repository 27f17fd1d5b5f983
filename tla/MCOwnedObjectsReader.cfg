\* Four possible objects, pages of two, up to three transfers during the run.
CONSTANTS
    Ids <- MCIds
    Limit = 2
    MaxChanges = 3
    None = None
SPECIFICATION FairSpec
INVARIANTS TypeOK ResultIsConsistentRead
PROPERTIES CallReturns
