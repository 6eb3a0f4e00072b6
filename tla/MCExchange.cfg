SPECIFICATION Spec
CONSTANTS
    Structs <- MCStructs
    Enums <- MCEnums
    Parties <- MCParties
    Offers <- MCOffers
    MaxHops = 3
INVARIANTS ReceivedCanBeSent ExtentsAgree
PROPERTIES Promised Settled RelayChangesNothing ExceptionIsNoticed
CHECK_DEADLOCK FALSE
