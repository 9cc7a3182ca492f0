SPECIFICATION Spec
CONSTANT MaxRevision = 12
PROPERTY StateFollowsDiagram
CHECK_DEADLOCK FALSE
