----------------------------- MODULE MCModuleRules -----------------------------
EXTENDS ModuleRules
CONSTANTS m, n

\* '-' comes before '/' in ASCII, letters come after it.
Dash == 1
MCSlash == 2
a == 3
Root == <<MCSlash, a>>
Dir == Root \o <<MCSlash, a>>
Near == Root \o <<MCSlash, a, Dash>>
In == Dir \o <<MCSlash, a>>

Say(id, path, mode, bypass) == [id |-> id, path |-> path, mode |-> mode, bypass |-> bypass]
MCAdditions ==
    {Say(m, p, md, FALSE) : p \in {Dir, In}, md \in {"kasumi", "none", "hide"}}
      \cup {Say(m, In, "magic", TRUE), Say(m, Near, "hide", FALSE), Say(m, Root, "none", FALSE),
            Say(m, Dir \o <<MCSlash>>, "none", FALSE), Say(m, <<MCSlash>>, "magic", TRUE),
            Say(n, Dir, "none", FALSE)}

\* A directory with a file, a deletion and perhaps what Kasumi refuses, and a file beside
\* it whose name comes between the directory's and those in it.
Tree(dir, kind) ==
    [p \in {Dir, Near, In, Dir \o <<MCSlash, Dash>>} |->
        CASE p = Dir -> dir [] p = Near -> "file" [] p = In -> "file" [] OTHER -> kind]
MCTrees == {Tree("directory", "whiteout"), Tree("opaque", "file"), Tree("directory", ".replace")}
MCSystemDirs == {Root, Dir}
===============================================================================
