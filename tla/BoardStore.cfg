\* Restarts, two access generations, a clock that moves on and may be set back.
CONSTANTS
    MessageId = {1, 2, 3, 4}
    Token = {t1, t2, t3}
    Generation = {g1, g2}
    Unbound = Unbound
    Capacity = 2
    Lifetime = 2
    Cooldown = 2
    MaxTime = 5
SYMMETRY Interchangeable
SPECIFICATION Spec
INVARIANTS TypeOK WithinCapacity OneRecordPerToken CooldownIsEarned AcceptedOnce PostsAreSpaced BoardIsNewestPosts
