SPECIFICATION MCSpec
CONSTANTS
    Machines = {0, 1}
    Boxes = {0, 1}
    Threads = {"main0", "main1", "other"}
    Host <- MCHost
    Program <- MCProgram
    Reliability = 60
    MaxTries = 2
    MaxStops = 1
INVARIANTS
    OneSendAtATime
    MailKept
PROPERTY TestEnds
