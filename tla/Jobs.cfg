\* A table of two slots that grows once; full, empty and with free slots between.
CONSTANTS
  JobSlots = 2
  MaxJobs = 3
SPECIFICATION Spec
INVARIANTS TypeOK CommandsStayValid IdsAreJobNumbers FieldsAgree CrashesOnlyWhenFull ListedUpToFreeSlot
\* The process crashes, or the loop ends.
CHECK_DEADLOCK FALSE
