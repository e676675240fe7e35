CONSTANT LIMIT = 8
SPECIFICATION FairSpec
PROPERTY LeavesTheEnd
