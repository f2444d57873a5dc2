SPECIFICATION Spec
CONSTANTS
    None = None
    Users = {1, 2}
    Handlers = {h1, h2, h3}
    MayFail = TRUE
SYMMETRY Alike
INVARIANTS TypeOK ConsentOfBoth OneRowPerPair ToldIsTrue
PROPERTIES FriendshipLasts
