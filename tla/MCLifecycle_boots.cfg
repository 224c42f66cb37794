\* Two boots of a machine, killed or stopped anywhere, and two edits of the file.
CONSTANTS
    NICs <- MCNICs
    Virtio <- MCVirtio
    OriginalMTU <- MCOriginalMTU
    PageSize = 4096
    XDPLimit = 3506
    MaxBoots = 2
    MaxEdits = 2
SPECIFICATION Spec
INVARIANTS OriginalsKept CleanStop MigratedBeforeServing
PROPERTIES EditsApplied
CHECK_DEADLOCK FALSE
