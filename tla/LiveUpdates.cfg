\* A socket or a stream, two changes, two faults, queues and wires of one message.
CONSTANTS
    Kinds = {"socket", "stream"}
    LineEnds = {"lf", "crlf"}
    QUEUE_SIZE = 1
    WIRE_SIZE = 1
    MaxVersion = 2
    MaxFaults = 2
SPECIFICATION FairSpec
INVARIANTS TypeOK NothingForgotten
PROPERTIES ShownAtLast
CHECK_DEADLOCK FALSE
