\* Three lookups, two managers with one parameter each.
CONSTANTS
    Lookups = {l1, l2, l3}
    Managers = {m1, m2}
    Params = {p1}
    Outer = Outer
SPECIFICATION ManagerFairSpec
PROPERTIES
    RegistrySpec
    EveryLookupEnds
