SPECIFICATION Spec
CONSTANTS
    h1 = h1  h2 = h2
    Name = {h1, h2}
    Port = {22}
    None = None
    Line <- Lines
    Listing <- Listings
    MaxHosts = 2
    MaxTasks = 2
SYMMETRY Symmetry
INVARIANTS TypeOK BrowsersShowTheirSide EveryTaskIsChosen KeysFindARow OnlyOthersUnhighlight
PROPERTIES EscLeadsHome
