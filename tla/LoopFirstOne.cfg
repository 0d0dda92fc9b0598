CONSTANTS
    Callers = {a1, a2, a3}
    Loop = Loop
    Nobody = Nobody
SPECIFICATION Spec
INVARIANT
    OneCallerSlipsIn
