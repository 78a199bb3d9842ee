---------------------------- MODULE MCModuleTrees ----------------------------
(* A directory with an entry, a sub-directory and an entry in that: the least *)
(* that has all the cases of merging, for two modules; three of the plainest   *)
(* forms, and one or two where the odd kinds are the partition's own entries.  *)
EXTENDS ModuleTrees

MCPaths == {"etc", "etc/a", "etc/d", "etc/d/b"}
MCParent == [p \in MCPaths |-> CASE p = "etc" -> "/" [] p = "etc/d/b" -> "etc/d" [] OTHER -> "etc"]
MCAbove ==
    [p \in MCPaths \cup {"/"} |->
        CASE p = "/" -> {} [] p = "etc" -> {"/"} [] p = "etc/d/b" -> {"/", "etc", "etc/d"} [] OTHER -> {"/", "etc"}]
MCSubMounts == {"etc/d", "etc/d/b"}

Trees(roots, etcs, as, ds, bs) ==
    {t \in [MCPaths \cup {"/"} -> Kinds] :
        /\ t["/"] \in roots /\ t["etc"] \in etcs /\ t["etc/a"] \in as
        /\ t["etc/d"] \in ds /\ t["etc/d/b"] \in bs
        /\ \A p \in MCPaths : t[p] # "none" => t[MCParent[p]] \in {"dir", "opaque"}}
MCStockTrees ==
    Trees({"dir"}, {"dir"}, {"none", "file"}, {"none", "file", "dir"}, {"none", "file"})

Higher == Trees({"dir"}, {"none", "dir", "opaque"}, {"none", "file"},
                {"none", "file", "whiteout", "dir", "opaque"}, {"none", "file", "whiteout"})
Lower == Trees({"dir"}, {"dir", "opaque"}, {"none"}, {"none", "file", "link", "whiteout", "dir", "opaque"},
               {"none", "file"})
Plain == Trees({"dir"}, {"dir"}, {"none"}, {"none", "file", "dir", "opaque"}, {"none", "file"})
Odd == Trees({"none", "dir", "opaque"}, {"none", "file", "link", "link to directory", "whiteout"},
             {"none"}, {"none"}, {"none"})
MCModuleSets == (Higher \X Lower) \cup (Plain \X Plain \X Plain) \cup (Odd \X Plain) \cup (Plain \X Odd)
=============================================================================
