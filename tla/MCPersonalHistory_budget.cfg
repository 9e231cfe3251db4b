SPECIFICATION Spec
CONSTANTS
    tom = tom
    maria = maria
    People <- MCPeople
    Phones <- MCPhones
    Policies <- MCPolicies
    Alerts = {a1}
    Watchers = {maria}
    Patience = 2
    ChannelSize = 1
    MaxEvents = 2
    MaxChanges = 2
    MaxFailures = 0
PROPERTIES
    MutedIsHidden
