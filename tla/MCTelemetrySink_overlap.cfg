\* Two submissions for one match at the same time, no I/O error.
CONSTANTS
    s1 = s1
    s2 = s2
    m1 = m1
    Submissions = {s1, s2}
    Files = {m1}
    FileOf <- OneMatch
    Disruptions = {}
SPECIFICATION Spec
INVARIANT SubmittedIsReadable
CHECK_DEADLOCK FALSE
