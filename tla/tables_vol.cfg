SPECIFICATION Spec
CONSTANTS
    None = None
    Kinds = {"vol"}
    Date <- MCDate
    Value = {"u", "v"}
    From <- MCFrom
    Initial = 2
    MaxSize = 4
INVARIANTS VolSetIsRead
