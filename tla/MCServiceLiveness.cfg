\* MCServiceLiveness
SPECIFICATION FairSpec
PROPERTIES
    ServiceAnswers
CHECK_DEADLOCK FALSE
