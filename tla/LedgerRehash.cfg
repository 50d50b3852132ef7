CONSTANTS
    Cases = {c1}
    Statuses = {"open", "closed"}
    MaxEvents = 3
    MaxAlterations = 2
SPECIFICATION Spec

PROPERTY RehashedEditIsDetected
