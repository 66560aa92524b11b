SPECIFICATION FairSpec
CONSTANTS
    Client = "client"
    Server = "server"
    MaxId = 20
    MaxSends <- SendsOne
    MaxDrops = 1
    Kinds = {"notice", "request"}
INVARIANTS ChannelSound
PROPERTIES KeepsPromises Settles
CHECK_DEADLOCK FALSE
