SPECIFICATION FairSpec
CONSTANTS
    Acceptance = TRUE
    MaxClicks = 6
CHECK_DEADLOCK FALSE
 
PROPERTIES RequestsComplete
