CONSTANTS
    None = None  u1 = u1  u2 = u2  u3 = u3  ch1 = ch1  ch2 = ch2  s1 = s1  s2 = s2  o1 = o1  o2 = o2
    Users = {u1, u2, u3}
    Characters = {ch1, ch2}
    Sessions = {s1, s2}
    Owners = {o1, o2}
    CharactersPerUser = 1
SPECIFICATION AccountsSpec
SYMMETRY MCSymmetry
INVARIANTS LoggedInHasAccount
