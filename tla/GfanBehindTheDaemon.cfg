SPECIFICATION Spec
CONSTANTS
    Users = {u1, u2}
    Duties = {slow, fast}
    Low = {slow}
    Rounds = 5
    AUTO = AUTO
    None = None
PROPERTY NeverBehindTheDaemon
