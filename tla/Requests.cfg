SPECIFICATION Spec
CONSTANTS
    Calls <- MCCalls
    Combined <- MCCombined
    Users <- MCUsers
    Answers <- MCAnswers
    Notices <- MCNotices
    Returns = {1}
    Failures = {TRUE, FALSE}
    MaxRequests = 2
    MaxNames = 3
INVARIANTS TypeOK Attributed Answered Decoded
PROPERTIES Understood
CHECK_DEADLOCK FALSE
