SPECIFICATION FairSpec
CONSTANTS
    Replies <- MCReplies
    Deployments <- MCDeployments
    CallTimeout = 2
INVARIANTS DraftIsTheAnswer OutcomeIsTrue
PROPERTIES EveryCallEnds
