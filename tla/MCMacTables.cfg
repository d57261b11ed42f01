\* Every sequence of commands with lists of up to two of two addresses.
SPECIFICATION Spec
CONSTANTS
    Macs = {m1, m2}
    Lists <- ShortLists
INVARIANTS
    NoMacInBoth
    RulesAreListed
    
