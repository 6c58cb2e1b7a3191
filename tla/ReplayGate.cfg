SPECIFICATION Spec
CONSTANTS
    NoMeasure = NoMeasure
    Policy <- DefaultPolicy
    Cases <- MCCases
PROPERTY ReplayCaps
CHECK_DEADLOCK FALSE
