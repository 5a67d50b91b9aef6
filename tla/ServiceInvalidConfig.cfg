CONSTANT MaxRuns = 1
SPECIFICATION Spec
CHECK_DEADLOCK FALSE
INVARIANT InvalidConfigurationPreventsStartup
