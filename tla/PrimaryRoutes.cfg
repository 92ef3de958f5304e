\* Two callers, so that the older of two snapshots can be applied last.
CONSTANTS
    MaxNode = 2
    r1 = r1
    Routes = {r1}
    c1 = c1
    c2 = c2
    Callers = {c1, c2}

SPECIFICATION Spec
SYMMETRY Symmetry
INVARIANTS
    TypeOK
    PrimaryServes
PROPERTIES
    ElectionsPreferHealthy
    StickyPrimary
