\* A browser polls an owned and an anonymous analysis, signed in or not, while workers and retention commit.
SPECIFICATION Spec
CONSTANTS
    owned = owned  open = open  alice = alice  browser = browser
    Nobody = Nobody
    Analysis = {owned, open}
    Client = {browser}
    Person = {alice}
    OwnerOf <- MCOwnerOf
    SessionOf <- MCSessionOf
CHECK_DEADLOCK FALSE
INVARIANTS
    ReaderInv
PROPERTIES
    PollsNeverGoBack
    
