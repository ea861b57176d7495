SPECIFICATION Spec
CONSTANTS
    c1 = c1
    c2 = c2
    s1 = s1
    Calls = {c1, c2}
    Sessions = {s1}
    Root = Root
    sessionOf <- MCSessionOf
    Closers = {k1}
    Listener = Listener
    Nobody = Nobody
INVARIANTS
    TypeOK
    SendersNeverBlock
    CallbackOnlyOnDrop
PROPERTIES
    ImplementsContract
    CallsReturn
    AnswersEndCalls
