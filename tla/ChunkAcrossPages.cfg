SPECIFICATION Spec
CONSTANTS
    HeaderLength = 2
    PageLength = 4
    ReplyLength = 2
    MaxChunk = 4
    StorageLength = 12
    MaxManifest = 6
    MaxDownloads = 2
INVARIANT FullPayload
