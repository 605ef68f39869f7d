\* One node, two versions of its tag metadata, two heartbeats on the wire.
SPECIFICATION FairSpec
CONSTANTS
    NoTags = NoTags
    Nodes = {n1}
    Tags = {t1, t2}
    MaxOnWire = 2
PROPERTIES
    MetaKept
    MetaConverges
    CrashNoticed
    ComesBack
