\* One browser, two tabs and two sessions: everything happens in one tab, the other connects.
SPECIFICATION Spec
CONSTANTS
    Nothing = Nothing
    Session = {s1, s2}
    t1 = t1  t2 = t2
    Tab = {t1, t2}
    Does <- MCDoes
SYMMETRY MCSymmetry
CHECK_DEADLOCK FALSE
INVARIANTS
    EndedStaysHidden
PROPERTIES
    SignedOutIsDeleted
    ActsOnWhatWasShown
