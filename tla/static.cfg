\* The static file server: two requests, two changes to the file system.
SPECIFICATION FairSpec
CONSTANTS
    Requests = {r1, r2}
    Keys <- MCKeys
    Dirs <- MCDirs
    Files <- MCFiles
    Html <- MCHtml
    Index <- MCIndex
    Listing <- MCListing
    NoPath = NoPath
    TooLarge = {3}
    auto_index = TRUE
    MaxVersion = 3
INVARIANTS
    NeverAhead
PROPERTIES
    EventuallyCurrent
