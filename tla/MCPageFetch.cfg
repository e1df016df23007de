\* Every directory over seven names, built and fetched page by page, and trees
\* nobody built: what one check per edge still guarantees.
CONSTANTS
    Name <- MCName
    Content = {"c", "z"}
    Zero = "z"
    LeafMaxEntries = 3
    PageMaxBytes = 152
    Width = 4
    Directories <- MCDirectories
    Roots <- MCRoots
    Pool <- MCOthers
SPECIFICATION Spec
INVARIANTS
    LegalDirectoriesBuild
    HeldIsServed
    HonestNeverRefused
    OnePlace
    CountsAddUp
    PagesRoundTrip
PROPERTIES
    ImplementsListing
CHECK_DEADLOCK FALSE
