SPECIFICATION Spec
CONSTANTS
    FileSystems = {"assets", "image", "gone"}
    Mutable = {"image"}
    Unopened = {"gone"}
    Names <- MCNames
    Dot = "."
    Begins <- MCBegins
    Roots <- MCRoots
    Operations = {"create"}
    MountPoints <- MCMountPoints
    Paths <- MCPaths
    MaxMounts = 3
    PageSizes = {1, 2}
    EntryPaths <- MCEntryPaths
    MaxEntries = 3
    Pullers = {p, q}
    Published <- MCPublished
    ImageFiles <- MCImageFiles
    Irregular <- MCIrregular
    SourceFiles <- MCSourceFiles
    GuestFile = 2
    FileContents <- MCFileContents
    EmptyFile = "nothing"
    GuestBinary = "guest86"
    ShortHash <- MCShortHash
    MaxCommands = 2
    MaxChanges = 1
SYMMETRY PullersAlike
INVARIANTS
    TypeOK
    ServedByNewest
    DirectoryWhole
    CopyFaithful
    CopyFailsForCause
    PulledWhole
    OneRelease
    CreatedServesFiles
CHECK_DEADLOCK FALSE
