SPECIFICATION Spec
CONSTANTS
    None = None
    l1 = l1  n1 = n1  c1 = c1
    Row = {l1, n1}
    Legacy = {l1}
    Client = {c1}
    MaxAttempts = 3
    MaxCrashes = 2
INVARIANTS ScrubbedForGood AnswersKept
PROPERTY PrivateTextGoes
CHECK_DEADLOCK FALSE
