\* Two agents, a server, native tools, the gateway; two saves, one accident
SPECIFICATION Spec
CONSTANTS
    a1 = a1
    a2 = a2
    m1 = m1
    native = native
    gateway = gateway
    turn = turn
    get = get
    lamp = lamp
    gets = gets
    Default = Default
    None = None
    Unsure = Unsure
    Agents = {a1, a2}
    Downstream = {m1}
    Local = {native}
    Hidden = {gateway}
    Assigned <- MCAssigned
    Tools = {turn, get}
    NameTools = {turn}
    Entities = {lamp}
    Patterns = {gets}
    Matched <- MCMatched
    Offered <- MCOffered
    ByHand <- MCByHand
    Installed <- MCInstalled
    MaxSaves = 2
    MaxAccidents = 1
INVARIANTS SavedStays
PROPERTIES ResaveIsHarmless ConstraintsStay
