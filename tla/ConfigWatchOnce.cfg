SPECIFICATION FairSpec
CONSTANT MaxSaves = 2
PROPERTY EverySaveLoaded
CHECK_DEADLOCK FALSE
