SPECIFICATION TabSpec
PROPERTIES
    TabTruthful
    InputRespected
CHECK_DEADLOCK FALSE
