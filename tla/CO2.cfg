SPECIFICATION Spec
CONSTANT Faults = {"late", "silent", "loses"}
INVARIANTS CO2TypeOK BacklogBounded NeverCatchesUp
