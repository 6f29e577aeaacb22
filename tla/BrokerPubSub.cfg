SPECIFICATION Spec
CONSTANTS
    exact = exact
    topic = topic
    Session <- Sessions
    Pattern <- Patterns
    Publisher = {1}
    Subscriber = {1, 2}
    Leaving = {1}
    Slow = {2}
    Topic <- Topics
    Matches <- AllMatch
    Rank <- Ranks
    Forwards <- SameSerializer
    Customs <- Mixed
    MaxSub = 2
    MaxPub = 2
CHECK_DEADLOCK FALSE
INVARIANTS SubscriptionsAgree SubscribedIsTrue PubSubOrdered
PROPERTIES Delivered
