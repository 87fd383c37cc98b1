SPECIFICATION LifecycleSpec
CONSTANTS
    Blocks = {1, 2}
    MaxReloads = 4
INVARIANTS OneInstanceRuns ServingBlocksRun
CHECK_DEADLOCK FALSE
