SPECIFICATION Spec
CONSTANT MaxRecords = 8
INVARIANTS TypeOK ReturnedSurvive NoAmnesia OneTimeline
