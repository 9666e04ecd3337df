SPECIFICATION PartsSpec
INVARIANTS
    PartTypesOK
    DeliveredIsShown
PROPERTIES
    TransformsAgree
CHECK_DEADLOCK FALSE
