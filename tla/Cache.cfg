CONSTANTS
    worker = worker
    handler = handler
    None = None
    Key = {k}
    Caller <- MCCaller
    Writer = worker
    Ttl = 1
    MaxNow = 2
    MaxVersion = 2
SPECIFICATION FairSpec
INVARIANTS TypeOK ReadsLatest RespectsTtl
PROPERTY CallsReturn
