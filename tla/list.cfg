SPECIFICATION ListSpec
CONSTANTS
    a = a
    A = A
    b = b
    c = c
    junk = junk
    ida = ida
    idb = idb
    idc = idc
    Raw = {a, A, b, c, junk}
    ID = {ida, idb, idc}
    NotUUID = NotUUID
    Parse <- MCParse
    maxListIDs = 2
    MaxQuery = 4
INVARIANTS
    ListTypeOK
    ListsInQueryOrder
    CapCountsDistinct
    ListInv
PROPERTIES
    DeletesAllOrNothing
