SPECIFICATION Spec
CONSTANTS
    User = {u1, u2}
    Worker = {w1}
    Scheduler = {s1}
    NoteId = {1}
    ChatId = {1}
    SearchCost = {2}
    RequestCost = 2
    MinMessages = 1
    Deposit = 3
    None = None
PROPERTY RejectionStands
