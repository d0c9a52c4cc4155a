\* Two registrations that overlap in every way, with a connection to spare.
CONSTANTS
    i1 = i1
    i2 = i2
    i3 = i3
    s1 = s1
    s2 = s2
    Sponsor <- MCSponsor
    Requests = {q1, q2}
    Invites = {i1, i3}
    Emails = {e1, e2}
    Conns = 3
    MaxInFlight = 2
    Failures = TRUE
    None = None
SPECIFICATION FairSpec
INVARIANTS SponsoredByTwo AnswerMatchesAccount
PROPERTIES InviteSpentOnce ImplementsAdmission EveryRegistrationEnds
CHECK_DEADLOCK FALSE
