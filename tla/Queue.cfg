SPECIFICATION Spec
CONSTANTS
    Envelope = {e1, e2, e3}
    QueueBound = 3
INVARIANT TypeOK
PROPERTY ImplementsFifo
