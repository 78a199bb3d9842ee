SPECIFICATION RulesSpec
CONSTANTS
    m = m
    n = n
    Slash <- MCSlash
    Additions <- MCAdditions
    Trees <- MCTrees
    SystemDirs <- MCSystemDirs
    linear_limit = 1
    MaxRules = 3
INVARIANTS RulesTyped LongestPrefixDecides
PROPERTIES RulesKept
