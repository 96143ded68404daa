SPECIFICATION Spec

CONSTANTS
    SubSec = 2
    NoEntry = NoEntry
    Garbage = Garbage
    c1 = c1
    c2 = c2
    l1a = l1a
    l2 = l2
    l3 = l3
    off = off
    k1 = k1
    client = c1
    key = k1
    Keys = {k1}
    NoOps = {}
    BigCaches = {l1a}
    KeyDBs = {l2}
    Chain <- TwoLevels
    Rank <- RankOfTwo
    MaxLate = 0
    KeyDBFaults = FALSE
    Corruption = FALSE
    Sizes = {FALSE}
    EnablePropagation = TRUE
    FillDelay = 0
    Clients = {c1, c2}
    Writers = {c1}
    TTLs <- OneTTL
    MaxTime = 2
    MaxWrites = 1

INVARIANTS
    Regular
