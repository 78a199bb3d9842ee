SPECIFICATION TreesSpec
CONSTANTS
    Paths <- MCPaths
    Root = "/"
    Parent <- MCParent
    Above <- MCAbove
    StockTrees <- MCStockTrees
    SubMounts <- MCSubMounts
    ModuleSets <- MCModuleSets
INVARIANTS
    TreesTyped
    UnionShown
    CreditedShow
CHECK_DEADLOCK FALSE
