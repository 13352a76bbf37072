SPECIFICATION Spec
CONSTANT Faults = {}
PROPERTY CombinesBytes
