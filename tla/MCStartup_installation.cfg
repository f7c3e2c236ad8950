SPECIFICATION StartupSpec
CONSTANTS
    MaxCerts = 2
    SkiLen = 2
    SerialLen = 2
    MaxPort = 3
    MaxRequests = 2
    OptionFiles <- MCOptionFiles
    Host <- MCHost
    Requests <- MCRequests
INVARIANTS TypeOK IdentityStable AnnouncedIsLoadable SkiFileIsTrue StartsIfSensible SpellingIrrelevant RequestsNameRemotes
