SPECIFICATION Spec
CONSTANTS
    MaxVersion = 2
    Sizes <- MCSizes
    PartSize = 2
    NoFile = NoFile
INVARIANT SavedStateBoots
