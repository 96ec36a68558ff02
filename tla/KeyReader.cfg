SPECIFICATION Spec
CONSTANTS
    Text <- MCText
    Keyboard <- MCKeyboard
    MaxKeys = 3
CHECK_DEADLOCK FALSE
INVARIANTS
    TypeOK
    DecodedAsTyped
    LittleTakenLate
PROPERTIES
    KeyObeyed
