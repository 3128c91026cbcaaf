\* Two assignments one after the other; two commits around the console's arrival;
\* two submissions of a judge around the end of a window.
SPECIFICATION Spec
CONSTANTS
    MaxSeats = 2
    MaxQueue = 3
    MaxCommits = 2
    MaxDown = 2
    MaxReads = 2
    MaxVotes = 2
    VoteCommits = 1
    VoteReads = 1
INVARIANTS
    SubscribedConsoleHasTheNewest
PROPERTIES
    RetiredStaysRetired
    AssignmentConverges
    SubmissionEnds
\* Nothing has to happen on a revoked socket.
CHECK_DEADLOCK FALSE
