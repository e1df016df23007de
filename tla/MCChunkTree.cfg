\* Trees of up to five pages (proofs of up to three steps), every index, every
\* page and every proof put together from the tree's hashes.
CONSTANTS
    Trees <- MCTrees
    Pages <- MCPages
SPECIFICATION Spec
INVARIANTS
    OnlyThePage
    HonestAccepted
CHECK_DEADLOCK FALSE
