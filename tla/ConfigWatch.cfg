SPECIFICATION FairSpec
CONSTANT MaxSaves = 3
INVARIANT TypeOK
PROPERTIES Debounced FirstSaveLoaded
CHECK_DEADLOCK FALSE
