CONSTANTS
    Entities = {e1, e2}
    Creations = {c1}
    Deletions = {d1, d2}
    Searches = {s1}
    TopK = 2
SPECIFICATION Spec
SYMMETRY Alike
INVARIANTS TypeOK EntitiesAreWhole HiddenForAReason DeletionsAreLogged AnswersAreSound RepliesAreTrue
