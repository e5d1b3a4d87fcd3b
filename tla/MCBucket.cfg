CONSTANTS
    a = a
    b = b
    c = c
    l1 = l1
    l2 = l2
    Ids = {a, b, c}
    Nil = Nil
    K = 2
    Pending <- PendingMC
    Listeners = {l1, l2}
SPECIFICATION Spec
INVARIANT TypeOK
INVARIANT MembersDistinct
INVARIANT NoContactLost
