SPECIFICATION LiveSpec
CONSTANTS
    h1 = h1
    h2 = h2
    p1 = p1
    p2 = p2
    Hosts = {h1, h2}
    Proxies = {p1, p2}
    Asking = {p1}
    Delay = 2
    MinOnline = 1
    Wait = 2
    Limit = 1
    Factor = 2
    NoProxy = NoProxy
    Keep = Keep
    Setups <- AllSetups
INVARIANTS TypeOK RefsValid DbMatches AllServed CopyCurrent CopyExact
PROPERTIES Recovers
