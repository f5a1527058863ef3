CONSTANTS
    MaxFrames = 6
    MaxMisses = 2
    MaxOverrides = 3
    MaxOsd = 1
SPECIFICATION PipelineSpec
INVARIANTS LagIsTheMisses OverrideSticks VelocityIsNew
