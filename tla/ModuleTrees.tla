------------------------------ MODULE ModuleTrees ------------------------------
(***************************************************************************)
(* What a device shows once its modules are mounted: Magic Mount merges    *)
(* the modules' trees and walks the result (magic_mount.cpp), OverlayFS    *)
(* stacks their directories leaf by leaf and puts the sub-mounts it hides  *)
(* back (overlayfs.cpp), above what Magic Mount left. The reference both   *)
(* are checked against is one union of all layers, Union.                  *)
(*                                                                         *)
(* One partition is modelled, as a tree of paths below its root; a file's  *)
(* content is the layer it comes from.                                     *)
(***************************************************************************)
EXTENDS Naturals, Sequences, FiniteSetsExt

CONSTANTS
    Paths,       \* the paths below the partition's root
    Root,        \* the root of the partition
    Parent,      \* the directory each path is in
    Above,       \* the directories on the way to it from the root
    StockTrees,  \* the trees the partition may hold
    SubMounts,   \* the places below the root where the device may have mounts of its own
    ModuleSets   \* the modules that may be enabled, as sequences of such trees

Whole == Paths \cup {Root}
Kinds == {"none", "file", "link", "link to directory", "whiteout", "dir", "opaque"}
Dirs == {"dir", "opaque"}

\* The directories above a path are in a line from the root to its parent.
ASSUME PathAssumption ==
    /\ Root \notin Paths /\ Parent \in [Paths -> Whole] /\ Above \in [Whole -> SUBSET Whole]
    /\ Above[Root] = {}
    /\ \A p \in Paths :
          /\ p \notin Above[p] /\ Root \in Above[p]
          /\ Above[p] = {Parent[p]} \cup Above[Parent[p]]
          /\ \A q \in Above[p] : Above[q] \subseteq Above[p]
          /\ \A q, r \in Above[p] : q = r \/ q \in Above[r] \/ r \in Above[q]
          /\ \E q \in {p} \cup Above[p] : q # Root /\ Parent[q] = Root

\* The entries of a tree are in its directories. Its root is one, where there is any.
IsTree(t) ==
    /\ t \in [Whole -> Kinds] /\ t[Root] \in {"none"} \cup Dirs
    /\ \A p \in Paths : t[p] # "none" => \A q \in Above[p] : t[q] \in Dirs

ASSUME TreeAssumption ==
    /\ SubMounts \subseteq Paths
    /\ \A t \in StockTrees : IsTree(t) /\ t[Root] = "dir"
    /\ \A ms \in ModuleSets :
          ms \in Seq([Whole -> Kinds]) /\ \A i \in DOMAIN ms : IsTree(ms[i])

VARIABLES
    stock,     \* the partition as the device comes up
    mounted,   \* where it has mounts of its own
    modules,   \* the modules to be mounted, in the order of their names
    backend,   \* the backend each of them is given
    at,        \* "collect", "overlay", "leaves" or "done"
    todo,      \* the modules still to be collected, then the leaves still to be overlaid
    target,    \* the leaf overlaid last
    pinned,    \* what was shown before it was
    children,  \* the sub-mounts below it that are still to be put back
    tree,      \* Magic Mount's merged tree
    refused,   \* the backends that refused their modules
    view,      \* what is shown: for each path its kind, and the layer a file comes from
    covered    \* the paths below which the view is another mount's

inputs == <<stock, mounted, modules, backend>>
overlay == <<target, pinned, children>>
treevars == <<inputs, at, todo, tree, refused, view, covered, overlay>>

Ids == 1 .. Len(modules)
Level(p) == {q \in Paths : Parent[q] = p}
Leaves == Level(Root)
Below(p) == {q \in Whole : p \in Above[q]}
From(p) == {p} \cup Below(p)

\* A layer is a tree whose entries name the layer; stock is layer 0. What is shown
\* of it leaves out whiteouts and tells neither whose a directory is nor whether it
\* is opaque.
Layer(t, i) == [p \in Whole |-> <<t[p], i>>]
Nothing == <<"none", 0>>
Directory == <<"dir", 0>>
Shows(entry) == CASE entry[1] \in {"none", "whiteout"} -> Nothing
                  [] entry[1] \in Dirs -> Directory
                  [] OTHER -> entry

\* How the kernel stacks layers at a directory, the first on top: a path shows the
\* first layer that has it, and a layer hides all lower ones below what is not a
\* directory, or is an opaque one. The directory they are stacked at is merged
\* whatever it is marked.
Stacked(layers, dir) ==
    [p \in From(dir) |->
        LET visible == {j \in DOMAIN layers :
                          /\ layers[j][p][1] # "none"
                          /\ \A i \in 1 .. j - 1, q \in Above[p] \cap Below(dir) :
                                layers[i][q][1] \in {"none", "dir"}}
        IN  IF visible = {} THEN Nothing ELSE Shows(layers[Min(visible)][p])]

\* The layers of some of the modules, in the order of their names; the others add
\* nothing.
Empty == [p \in Whole |-> Nothing]
Layers(ids) == [i \in Ids |-> IF i \in ids THEN Layer(modules[i], i) ELSE Empty]
Given(who) == {i \in Ids : backend[i] = who}
LayersOf(who) == Layers(IF who \in refused THEN {} ELSE Given(who))

-----------------------------------------------------------------------------
(* Selecting a backend for a module left on "auto".                          *)

\* direct_files: an entry of the partition's root that is no directory, links to
\* directories being followed. The .replace marker is such an entry.
direct_files(t) == \E p \in Leaves : t[p] \notin Dirs \cup {"none", "link to directory"}
select(t) == CASE t[Root] = "none" -> "none"
               [] t[Root] = "opaque" \/ direct_files(t) -> "magic"
               [] OTHER -> "overlay"

\* validate_partition_tree and add_leaf: OverlayFS takes directories only, over
\* directories the partition has; links are not followed.
validate_partition_tree(t) == t[Root] = "dir" /\ \A p \in Leaves : t[p] \in Dirs \cup {"none"}
add_leaf(t) == \A p \in Leaves : t[p] \in Dirs => stock[p] \in Dirs

-----------------------------------------------------------------------------
(* Magic Mount: merging the modules' trees.                                  *)

Absent == [kind |-> "none", owner |-> 0, replace |-> FALSE, replace_owner |-> 0]
Node(t, p, m) == [kind |-> IF t[p] = "opaque" THEN "dir" ELSE t[p], owner |-> m,
                  replace |-> t[p] = "opaque", replace_owner |-> IF t[p] = "opaque" THEN m ELSE 0]

\* The directories collect_into enters for a module: those of its tree that are
\* new, or merge with a directory that is not cut off, all the way.
Enters(t, p) ==
    \A q \in {p} \cup Above[p] :
        /\ t[q] \in Dirs
        /\ q # Root => tree[q].kind = "none" \/ (tree[q].kind = "dir" /\ ~tree[q].replace)

\* Higher-priority entries win. What is not a directory, or is an opaque one, cuts
\* off the layers below the directory it meets.
collect_into(t, m) ==
    [p \in Whole |->
        IF p = Root \/ t[p] = "none" \/ ~Enters(t, Parent[p]) THEN tree[p]
        ELSE IF tree[p].kind = "none" THEN Node(t, p, m)
        ELSE IF tree[p].kind # "dir" \/ tree[p].replace \/ t[p] = "dir" THEN tree[p]
        ELSE [tree[p] EXCEPT !.replace = TRUE, !.replace_owner = m]]

-----------------------------------------------------------------------------
(* Magic Mount: the walk.                                                    *)

Children(p) == {q \in Level(p) : tree[q].kind # "none"}
\* A child that cannot be had by binding over what is there.
Needs(q) ==
    CASE tree[q].kind = "file" -> stock[q] # "file"
      [] tree[q].kind = "dir" -> stock[q] # "dir"
      [] tree[q].kind = "whiteout" -> stock[q] # "none"
      [] OTHER -> TRUE

\* do_directory: where a skeleton replaces the directory. Below one everything is
\* built in it; the partition's root has no module directory to build one from.
Builds(p) == p # Root /\ tree[p].kind = "dir" /\ (tree[p].replace \/ \E q \in Children(p) : Needs(q))
Skeleton == {p \in Paths : tree[p].kind = "dir" /\ \E q \in {p} \cup Above[p] : Builds(q)}
Refused == \E q \in Children(Root) : Needs(q)

\* Where the stock entry stays: outside the skeletons, or mirrored into one.
Mirrored(p) ==
    /\ stock[p] \in Dirs /\ tree[p].kind \in {"none", "dir"}
    /\ ~(p \in Skeleton /\ tree[p].replace)
M_StaysBelow(p) == p # Root => Mirrored(Parent[p])
StockStays(p) == \A q \in Above[p] : Mirrored(q)
MagicView ==
    [p \in Whole |->
        IF p # Root /\ tree[p].kind # "none" THEN Shows(<<tree[p].kind, tree[p].owner>>)
        ELSE IF StockStays(p) THEN Shows(<<stock[p], 0>>) ELSE Nothing]

\* Files are bound one by one: those of modules, and in a skeleton those of stock.
InSkeleton(p) == \E q \in Above[p] : q \in Skeleton
BoundFiles == {p \in Paths : MagicView[p][1] = "file" /\ (tree[p].kind = "file" \/ InSkeleton(p))}

\* contribution_owners of the skeletons, and the owners of the files bound.
M_OnlyEntries == {tree[p].owner : p \in {q \in Paths : tree[q].kind \notin {"none", "dir"}}}
contribution_owners ==
    LET built == {p \in Paths : p \in Skeleton \/ InSkeleton(p)}
    IN  {tree[p].owner : p \in {q \in built : tree[q].kind \in {"link", "link to directory"}}}
        \cup {tree[p].owner : p \in {q \in built : tree[q].kind = "whiteout" /\ stock[q] # "none"}}
        \cup {tree[p].replace_owner : p \in {q \in built : tree[q].replace}}
        \cup {tree[p].owner : p \in {q \in built : tree[q].kind = "dir" /\ stock[q] # "dir"}}
        \cup {tree[p].owner : p \in {q \in Paths : tree[q].kind = "file"}}

-----------------------------------------------------------------------------
(* OverlayFS.                                                                *)

\* select_layers for a path at or below a leaf: the layers down to the first that
\* cuts off what is below it, those of them that have the directory, and whether
\* what was there before still shows.
Between(leaf, p) == {p} \cup (Above[p] \cap From(leaf))
Cuts(t, leaf, p) == \E q \in Between(leaf, p) : t[q] \notin {"none", "dir"}
HasDir(t, leaf, p) == \A q \in Between(leaf, p) : t[q] \in Dirs
M_select_layers(ids, leaf, p) ==
    [dirs |-> {i \in ids : HasDir(modules[i], leaf, p)},
     include_stock |-> \A i \in ids : ~Cuts(modules[i], leaf, p)]
select_layers(ids, leaf, p) ==
    LET cutting == {i \in ids : Cuts(modules[i], leaf, p)}
    IN  [dirs |-> {i \in ids : HasDir(modules[i], leaf, p) /\ \A j \in cutting : i <= j},
         include_stock |-> cutting = {}]
Touching(leaf) == {i \in Given("overlay") : modules[i][leaf] \in Dirs}

\* The directory that was at p, without the mounts strictly below it: a mount point
\* shows an empty directory or file of the file system it is on.
Bare(shown, p) ==
    [q \in Whole |->
        LET points == covered \cap Below(p)
        IN  IF Above[q] \cap points # {} THEN Nothing
            ELSE IF q \in points /\ shown[q][1] = "file" THEN <<"file", 0>> ELSE shown[q]]

mount_overlayfs(selected, lowest, p) ==
    Stacked(Layers(selected.dirs) \o <<IF selected.include_stock THEN lowest ELSE Empty>>, p)

\* A sub-mount the leaf's overlay has hidden: left so if it is gone or of another
\* type there, else bound back, or overlaid with the layers that have it.
mount_overlay_child(c) ==
    LET selected == select_layers(Touching(target), target, c)
    IN  IF view[c][1] = pinned[c][1] /\ pinned[c][1] \in {"dir", "file"}
        THEN IF selected.dirs # {} THEN mount_overlayfs(selected, Bare(pinned, c), c)
             ELSE IF selected.include_stock THEN [p \in From(c) |-> pinned[p]] ELSE <<>>
        ELSE <<>>

\* What is shown once it is mounted.
Attached(mount) == [p \in Whole |-> IF p \in DOMAIN mount THEN mount[p] ELSE view[p]]

-----------------------------------------------------------------------------
(* The pass: OverlayFS is applied above Magic Mount.                         *)

TreesInit ==
    /\ stock \in StockTrees
    /\ mounted \in SUBSET {p \in SubMounts : stock[p] \in {"dir", "file"}}
    /\ modules \in ModuleSets
    /\ backend \in [Ids -> {"magic", "overlay", "none"}]
    /\ \A i \in Ids : backend[i] = "none" <=> select(modules[i]) = "none"
    /\ at = "collect" /\ todo = Given("magic")
    /\ tree = [p \in Whole |-> Absent]
    /\ refused = {} /\ view = Stacked(<<Layer(stock, 0)>>, Root) /\ covered = mounted
    /\ target = Root /\ pinned = view /\ children = {}

\* collect_module_files, a module at a time: a root that is opaque fails the pass.
Collect ==
    /\ at = "collect" /\ todo # {}
    /\ LET m == Min(todo)
       IN  IF modules[m][Root] = "opaque"
           THEN refused' = {"magic"} /\ at' = "overlay" /\ todo' = Leaves /\ UNCHANGED tree
           ELSE tree' = collect_into(modules[m], m) /\ todo' = todo \ {m} /\ UNCHANGED <<at, refused>>
    /\ UNCHANGED <<inputs, view, covered, overlay>>

Walk ==
    /\ at = "collect" /\ todo = {}
    /\ at' = "overlay" /\ todo' = Leaves
    /\ IF Refused THEN refused' = {"magic"} /\ UNCHANGED <<view, covered>>
       ELSE /\ view' = MagicView
            /\ covered' = BoundFiles \cup {p \in mounted : ~InSkeleton(p) /\ p \notin Skeleton}
            /\ UNCHANGED refused
    /\ UNCHANGED <<inputs, tree, overlay>>

\* sync_content and plan_overlays refuse before anything is attached.
Plan ==
    /\ at = "overlay"
    /\ at' = IF \A i \in Given("overlay") : validate_partition_tree(modules[i]) /\ add_leaf(modules[i])
             THEN "leaves" ELSE "done"
    /\ refused' = IF at' = "done" THEN refused \cup {"overlay"} ELSE refused
    /\ UNCHANGED <<inputs, todo, tree, view, covered, overlay>>

\* mount_overlay up to its children: what was shown stays within reach as the working
\* directory, which is pinned to it.
MountLeaf ==
    /\ at = "leaves" /\ children = {}
    /\ \E leaf \in todo :
          LET selected == select_layers(Touching(leaf), leaf, leaf)
          IN  /\ todo' = todo \ {leaf}
              /\ IF Touching(leaf) = {} THEN UNCHANGED <<view, overlay>>
                 ELSE /\ target' = leaf /\ pinned' = view
                      /\ view' = Attached(mount_overlayfs(selected, Bare(view, leaf), leaf))
                      /\ children' = IF selected.include_stock
                                     THEN (covered \cup mounted) \cap Below(leaf) ELSE {}
    /\ UNCHANGED <<inputs, at, tree, refused, covered>>

\* Its loop: child_mounts lists a mount before those below it.
MountChild ==
    /\ \E c \in children :
          /\ children \cap Above[c] = {}
          /\ view' = Attached(mount_overlay_child(c))
          /\ children' = children \ {c}
    /\ UNCHANGED <<inputs, at, todo, tree, refused, covered, target, pinned>>

Finish ==
    /\ at = "leaves" /\ todo = {} /\ children = {} /\ at' = "done"
    /\ UNCHANGED <<inputs, todo, tree, refused, view, covered, overlay>>

TreesNext == Collect \/ Walk \/ Plan \/ MountLeaf \/ MountChild \/ Finish
TreesSpec == TreesInit /\ [][TreesNext]_treevars

-----------------------------------------------------------------------------
(* Properties.                                                             *)

Views == [Whole -> Kinds \X (0 .. Len(modules))]
Connected(shown) == \A p \in Paths : shown[p] # Nothing => \A q \in Above[p] : shown[q] = Directory
TreesTyped ==
    /\ view \in Views /\ pinned \in Views /\ Connected(view) /\ Connected(pinned)
    /\ \A p \in Paths : tree[p].kind # "none" => (p \in Leaves \/ tree[Parent[p]].kind = "dir")
    /\ covered \subseteq Paths /\ children \subseteq Paths /\ target \in Whole
    /\ refused \subseteq {"magic", "overlay"}

\* Once the pass is over a path shows what the union of all accepted modules over
\* the stock tree has there: those OverlayFS mounts above those Magic Mount does,
\* in the order of their names, whatever sub-mounts had to be put back.
UnionShown ==
    at = "done" =>
        view = Stacked(LayersOf("overlay") \o LayersOf("magic") \o <<Layer(stock, 0)>>, Root)

\* The record of the walk names every module that changes what shows of the stock
\* tree below the modules above it: by showing something, or by hiding something.
Contributes(m) ==
    LET Over(n) == Stacked(Layers(Given("magic") \cap 1 .. n) \o <<Layer(stock, 0)>>, Root)
    IN  Over(m) # Over(m - 1)
CreditedShow ==
    (at = "overlay" /\ "magic" \notin refused) =>
        \A m \in Given("magic") : Contributes(m) => m \in contribution_owners
=============================================================================
