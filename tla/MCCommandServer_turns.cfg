\* Clients that upload tmp1 to the server that writes it.
CONSTANTS
    run1 = run1
    run2 = run2
    command = command
    sentence = sentence
    letter = letter
    Empty = Empty
    Junk = Junk
    None = None
    Client = {run1, run2}
    Cmd = {command}
    Text = {sentence, letter, Junk}
    Line <- FirstLine
SPECIFICATION Spec
CHECK_DEADLOCK FALSE
INVARIANTS
    OwnReply
    Kept
PROPERTIES
    Progress
