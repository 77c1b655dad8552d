SPECIFICATION Spec
CONSTANTS
    ens1 = ens1
    wg0 = wg0
    Names = {ens1, wg0}
    Tunnels = {wg0}
    MaxIndex = 3
    MaxChanges = 4
    Families = {4, 6}
    Interval = 2
INVARIANTS
    TypeOK
    KindCached
PROPERTIES
    ExternalFresh
    ClassifiedRight
