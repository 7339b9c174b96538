SPECIFICATION Spec
CONSTANTS
    StreamRequest = {s1}
    PubsubRequest = {q1}
    Peer = {p1}
    Object = {client, service}
    None = none
CHECK_DEADLOCK FALSE
INVARIANTS AnswersFindTheirRequest
PROPERTIES AnswersAreHandled
