CONSTANTS
    m1 = m1
    m2 = m2
    fetcher = fetcher
    fetcher2 = fetcher2
    sender = sender
    sender2 = sender2
    poster = poster
    Msg <- MCMsg
    Sz = 2
    Fetchers <- TwoFetchers
    Senders <- TwoSenders
    Posters <- MCPosters
    MaxSends = 3
SPECIFICATION MCFairSpec
INVARIANTS TypeOK SemConsistent TokensConserved
PROPERTIES FifoSpec EveryMessageFetched
CHECK_DEADLOCK FALSE
