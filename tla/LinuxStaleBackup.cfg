SPECIFICATION Spec
CONSTANTS
    Links = {l1, l2}
    NoLink = NoLink
    MaxRoutes = 2
    Texts = {a, b}
    TroubleSets = {{"crash", "rewrite"}}
PROPERTY ExactPriorState
