SPECIFICATION CacheSpec
CONSTANTS
    UUIDs = {u1, u2, u3, u4}
    Names = {n1, n2, n3}
    NoUUID = NoUUID
    NoName = NoName
INVARIANTS LookupsAgree
PROPERTIES Implements
