SPECIFICATION Spec
CONSTANTS
    note = note
    NoMessage = NoMessage
    Notes <- MCNotes
    Messages <- MCMessages
    MaxRetries = 1
    MaxEntries = 2
    MaxLen = 1
    BatchCount = 2
    MaxFaults = 1
    MaxStops = 1
INVARIANTS
    AttemptsBounded
    AckedIsQueued
    OneLostEach
PROPERTIES
    ImplementsQueue
