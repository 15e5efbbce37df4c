SPECIFICATION Spec
CONSTANTS
    User = {u1, u2}
    Worker = {w1, w2}
    Scheduler = {s1, s2}
    NoteId = {1}
    ChatId = {1, 2}
    SearchCost = {2}
    RequestCost = 2
    MinMessages = 1
    Deposit = 3
    None = None
SYMMETRY MCSymmetry
INVARIANTS TypeOK OneActiveChat OneFakePerSearch CoinsOnlySpent
PROPERTY ImplementsContract
