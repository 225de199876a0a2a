\* An owner and a thief: the owner pushes a context, loses it to the thief, pushes
\* another and looks for it.
SPECIFICATION Spec
CONSTANTS
    Threads = {owner, thief}
    Owner = owner
    Contexts = {f, g}
    NoContext = NoContext
    Size = 2
INVARIANT
    EmptyWhenTaken
