CONSTANTS
    a1 = a1
    a2 = a2
    b1 = b1
    Threads = {a1, a2, b1}
    Processes = {"a", "b"}
    ProcessOf <- MCProcessOf
    Names = {n1}
    Addresses = {p1, p2}
    MaxSurfaces = 1
    MaxObjects = 2
    MaxDeaths = 1
    Nothing = Nothing
SPECIFICATION NamesSpec
INVARIANTS
    NamesHaveOwners
    TableTellsSurfaces
SYMMETRY Symmetry
