CONSTANT SlotOnly = FALSE
SPECIFICATION Spec
INVARIANTS TypeOK HandlerReady AssertsHold ResumedOnce
PROPERTY ImplementsOneShot
CHECK_DEADLOCK FALSE
