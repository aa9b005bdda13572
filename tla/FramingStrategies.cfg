SPECIFICATION AllSpec
PROPERTIES
    EveryStrategyFrames
