\* A user who repeats lines, browses the list and changes its limit, with entries that
\* may fail to be allocated.
CONSTANTS
  Line = {l1, l2, l3, l4}
  NoLine = NoLine
  Limit = {0, 1, 3}
  GrowBy = 2
  ReallocFails = TRUE
  EntryFails = TRUE
  MaxIndex = 6
SPECIFICATION Spec
INVARIANTS TypeOK EntriesSound StifleHonoured ViewsAnEntry
PROPERTIES RecallsLast ImplementsCommandList
CHECK_DEADLOCK FALSE
