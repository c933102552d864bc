SPECIFICATION Spec
CONSTANTS
  PageRows = 2
  RunRows = 2
  Order = 2
  MaxPages = 3
  MaxMeanwhile = 1
  Tables <- MCTables
  Schemas <- MCSchemas
  Inserts <- MCInserts
  Deletes <- MCDeletes
  Updates <- MCUpdates
  Queries <- MCQueries
  Selects <- MCSelects
  IndexDefs <- MCIndexDefs
  IndexEntries <- MCIndexEntries
  NoQuery = NoQuery
  NoAnswer = NoAnswer
INVARIANT IndexKeepsAnswer
CHECK_DEADLOCK FALSE
