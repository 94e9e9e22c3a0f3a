\* Three connections in one chain of each hash table.
CONSTANTS
    c1 = c1
    c2 = c2
    c3 = c3
    NULL = NULL
    Poison = Poison
    Conns <- MCConns
    Keys <- MCKeys
    KeyOf <- MCKeyOf
    BucketOf <- MCBucketOf
    ConnBucketOf <- MCConnBucketOf
SPECIFICATION Spec
INVARIANTS
    TypeOK
    WellLinked
    ChainsExact
PROPERTIES
    ImplementsLists
