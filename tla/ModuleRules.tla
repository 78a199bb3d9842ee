------------------------------ MODULE ModuleRules ------------------------------
(***************************************************************************)
(* The path rules a user sets for the modules, and what the Kasumi planner *)
(* makes of them: module_rules.json and module_bypass.json as the commands *)
(* of the daemon update them (src/mount/module_settings.cpp, backend.cpp), *)
(* the index that finds the rule of a path (kasumi_rule_index.hpp), and    *)
(* the rules for the kernel that compile_tree plans from the tree of a     *)
(* module (kasumi.cpp). Paths are sequences of characters, for the order   *)
(* of strings is what the index searches by.                               *)
(***************************************************************************)
EXTENDS Naturals, Sequences, SequencesExt, FiniteSetsExt

CONSTANTS
    Slash,          \* the character '/', a number among its neighbours in ASCII
    Additions,      \* the rules users add: [id, path, mode, bypass]
    Trees,          \* the trees a module can have, each path of it with its kind
    SystemDirs,     \* the directories of the stock system
    linear_limit,   \* up to so many rules are searched one by one
    MaxRules        \* bounds the rules of all modules

Modules == {o.id : o \in Additions}
Kinds == {"directory", "opaque", "file", "whiteout", ".replace"}
Absolute(p) == p # <<>> /\ Head(p) = Slash

Modes == {"kasumi", "magic", "none", "hide"}

ASSUME ModuleRulesAssumption ==
    /\ \A o \in Additions :
         o.path \in Seq(Nat) /\ Absolute(o.path) /\ o.mode \in Modes /\ o.bypass \in BOOLEAN
    /\ \A t \in Trees : \A p \in DOMAIN t : p \in Seq(Nat) /\ Absolute(p) /\ t[p] \in Kinds
    /\ Slash \in Nat /\ linear_limit \in Nat /\ MaxRules \in Nat

VARIABLES
    rules,      \* module_rules.json: the rules of each module in file order
    bypasses,   \* module_bypass.json: the modules that are "on"
    tree,       \* the tree of the modules, under the root of a partition
    op,         \* the command the daemon runs
    draft       \* what it has read of the file it is about to replace

rulevars == <<rules, bypasses, tree, op, draft>>

Rule(o) == [path |-> o.path, mode |-> o.mode, bypass |-> o.bypass]
Commands ==
    [kind : {"add"}, of : Additions] \cup [kind : {"remove"}, of : Additions]
      \cup [kind : {"bypass"}, id : Modules, on : BOOLEAN]
Idle == [kind |-> "none"]

-------------------------------------------------------------------------------
\* RuleIndex: the rule of a path, by its ordinal, or 0. "order" is its member ordered_.

matches_path(path, prefix) ==
    \/ path = prefix
    \/ /\ prefix # <<>> /\ IsStrictPrefix(prefix, path)
       /\ Slash \in {Last(prefix), path[Len(prefix) + 1]}

\* std::string's operator <.
Less(s, t) ==
    \/ IsStrictPrefix(s, t)
    \/ \E i \in DOMAIN s \cap DOMAIN t :
         s[i] < t[i] /\ \A j \in 1 .. i - 1 : s[j] = t[j]

\* std::lower_bound, for a predicate that the elements in below meet.
lower_bound(s, below) ==
    LET search[count \in 0 .. Len(s)] ==
          [first \in 1 .. Len(s) + 1 |->
              LET half == count \div 2
              IN  IF count = 0 THEN first
                  ELSE IF s[first + half] \in below THEN search[count - half - 1][first + half + 1]
                  ELSE search[half][first]]
    IN  search[Len(s)][1]

\* The elements of S in the order a relation gives.
Sorted(S, before) ==
    CHOOSE s \in [1 .. Cardinality(S) -> S] :
        \A k, l \in DOMAIN s : k < l => <<s[k], s[l]>> \in before

\* The ordinals by path, the last of those with one path alone.
ordered(rs) ==
    LET last == {i \in DOMAIN rs : \A j \in i + 1 .. Len(rs) : rs[j].path # rs[i].path}
    IN  Sorted(last, {x \in last \X last : Less(rs[x[1]].path, rs[x[2]].path)})

exact(rs, order, path) ==
    LET it == lower_bound(order, {i \in DOMAIN rs : Less(rs[i].path, path)})
    IN  IF it \in DOMAIN order /\ rs[order[it]].path = path THEN order[it] ELSE 0

one_by_one(rs, path) ==
    LET M == {i \in DOMAIN rs : matches_path(path, rs[i].path)}
    IN  IF M = {} THEN 0
        ELSE CHOOSE i \in M : \A j \in M :
               LET a == Len(rs[i].path) b == Len(rs[j].path) IN b < a \/ (b = a /\ j <= i)

\* The path, then shorter and shorter prefixes of it, with and without a slash.
by_prefixes(rs, order, path) ==
    LET Cut(n) == IF path[n] = Slash THEN n - 1
                  ELSE Max({0} \cup {k \in 1 .. n - 1 : path[k] = Slash})
        walk[n \in 0 .. Len(path)] ==
          IF n = 0 THEN 0
          ELSE LET found == exact(rs, order, SubSeq(path, 1, n))
               IN  IF found # 0 THEN found ELSE walk[Cut(n)]
    IN  walk[Len(path)]

effective_rule(rs, order, path) ==
    IF Len(rs) <= linear_limit THEN one_by_one(rs, path) ELSE by_prefixes(rs, order, path)

any_nested(rs, path) ==
    \E i \in DOMAIN rs : Len(rs[i].path) > Len(path) /\ matches_path(rs[i].path, path)

\* The search for path + '/' without putting that string together.
M_nested_at(rs, order, path) ==
    lower_bound(order, {i \in DOMAIN rs : Less(rs[i].path, path) \/ rs[i].path = path})
nested_at(rs, order, path) ==
    LET Below(i) ==
          LET candidate == rs[i].path
              head == SubSeq(candidate, 1, Min({Len(path), Len(candidate)}))
          IN  IF head # path THEN Less(head, path)
              ELSE \/ candidate = path
                   \/ path # <<>> /\ Last(path) # Slash /\ candidate[Len(path) + 1] < Slash
    IN  lower_bound(order, {i \in DOMAIN rs : Below(i)})

nested_found(rs, order, path) ==
    LET it == nested_at(rs, order, path)
    IN  /\ it \in DOMAIN order
        /\ LET rule == rs[order[it]]
           IN  Len(rule.path) > Len(path) /\ matches_path(rule.path, path)

has_nested_rule(rs, order, path) ==
    IF Len(rs) <= linear_limit THEN any_nested(rs, path) ELSE nested_found(rs, order, path)

-------------------------------------------------------------------------------
\* compile_tree, for the rules and the bypass switch of a module.

Ancestors(n) == {a \in DOMAIN tree : a # n /\ matches_path(n, a)}
Inside(n) == {d \in DOMAIN tree : matches_path(d, n)}
IsDirectory(n) == tree[n] \in {"directory", "opaque"}

\* A node, its mode and flag, and whether rules are about part of it. Rules for the other
\* backends cannot be kept in a module that is Kasumi's.
Decided(rs, order, bypass, n) ==
    LET i == effective_rule(rs, order, n)
    IN  [mode |-> IF i # 0 /\ rs[i].mode \in {"hide", "none"} THEN rs[i].mode ELSE "kasumi",
         flag |-> bypass \/ (i # 0 /\ rs[i].bypass),
         nested |-> has_nested_rule(rs, order, n)]
Decisions(rs, order, bypass) == [n \in DOMAIN tree |-> Decided(rs, order, bypass, n)]

\* A directory the system has too is mapped as a whole if no rule is about part of it.
Merged(of, n) ==
    of[n].mode = "kasumi" /\ IsDirectory(n) /\ n \in SystemDirs /\ ~of[n].nested
Pruned(of, n) ==
    of[n].mode = "hide" \/ (of[n].mode = "none" /\ ~of[n].nested) \/ Merged(of, n)
Visited(of) == {n \in DOMAIN tree : \A a \in Ancestors(n) : ~Pruned(of, a)}

merge_tree_supported(n) == \A d \in Inside(n) : tree[d] \notin {"opaque", ".replace"}

planned(rs, of) ==
    LET mine == {n \in Visited(of) : of[n].mode = "kasumi"}
        Mapping(n, merge) == [path |-> n, merge |-> merge, bypass |-> of[n].flag]
    IN  [ok |-> \A n \in mine : /\ tree[n] # ".replace"
                                /\ Merged(of, n) => merge_tree_supported(n),
         mappings |-> {Mapping(n, TRUE) : n \in {d \in mine : Merged(of, d)}}
                        \cup {Mapping(n, FALSE) : n \in {f \in mine : tree[f] = "file"}},
         hide |-> {rs[i].path : i \in {j \in DOMAIN rs : rs[j].mode = "hide"}}
                    \cup {n \in Visited(of) : of[n].mode = "hide"}
                    \cup {n \in mine : tree[n] = "whiteout"}]

compile_tree(rs, bypass) == planned(rs, Decisions(rs, ordered(rs), bypass))

-------------------------------------------------------------------------------
\* The commands.

\* Adding a rule for a path that has one replaces its first, removing drops them all.
Without(rs, path) ==
    LET kept == {i \in DOMAIN rs : rs[i].path # path}
        s == Sorted(kept, {x \in kept \X kept : x[1] < x[2]})
    IN  [k \in DOMAIN s |-> rs[s[k]]]
M_write_update(rs, o) ==
    IF o.kind = "remove" THEN Without(rs, o.of.path) ELSE Append(rs, Rule(o.of))
write_update(rs, o) ==
    LET same == {i \in DOMAIN rs : rs[i].path = o.of.path}
    IN  IF o.kind = "remove" THEN Without(rs, o.of.path)
        ELSE IF same = {} THEN Append(rs, Rule(o.of))
        ELSE [rs EXCEPT ![Min(same)] = Rule(o.of)]

RulesInit ==
    /\ rules = [m \in Modules |-> <<>>] /\ bypasses = {} /\ tree \in Trees
    /\ op = Idle /\ draft = <<>>

\* What a command reads of the file: a missing one has nothing, and one that cannot be
\* read ends the command (Fail).
M_load == {[m \in Modules |-> <<>>], rules}
load == {rules}

\* update_module_rule and update_module_mode take no lock: the daemon alone writes these
\* files and runs one command at a time.
Bounded == MapThenSumSet(LAMBDA m : Len(rules[m]), Modules) < MaxRules
Load ==
    /\ op = Idle
    /\ \E o \in Commands :
         /\ o.kind = "remove" => rules[o.of.id] # <<>>
         /\ o.kind = "add" => Bounded
         /\ op' = o
    /\ \E f \in load : draft' = f
    /\ UNCHANGED <<rules, bypasses, tree>>

Done == op' = Idle /\ draft' = <<>> /\ UNCHANGED tree

\* The rename that write_file_atomic ends with.
Save ==
    /\ op.kind \in {"add", "remove"}
    /\ rules' = [draft EXCEPT ![op.of.id] = write_update(@, op)]
    /\ Done /\ UNCHANGED bypasses

SaveBypass ==
    /\ op.kind = "bypass"
    /\ bypasses' = IF op.on THEN bypasses \cup {op.id} ELSE bypasses \ {op.id}
    /\ Done /\ UNCHANGED rules

\* The file cannot be read or written, or the daemon is killed.
Fail == op # Idle /\ Done /\ UNCHANGED <<rules, bypasses>>

RulesNext == Load \/ Save \/ SaveBypass \/ Fail
RulesSpec == RulesInit /\ [][RulesNext]_rulevars

-------------------------------------------------------------------------------
RulesFor(rs, p) == {rs[i] : i \in {j \in DOMAIN rs : rs[j].path = p}}
PathsSaid == {o.path : o \in Additions}

\* The variables hold values of their kinds, and no path has two rules in one module.
RulesTyped ==
    /\ DOMAIN rules = Modules /\ bypasses \subseteq Modules /\ tree \in Trees
    /\ op \in Commands \cup {Idle}
    /\ \A m \in Modules :
         /\ \A i \in DOMAIN rules[m] : \E o \in Additions : o.id = m /\ rules[m][i] = Rule(o)
         /\ \A i, j \in DOMAIN rules[m] : rules[m][i].path = rules[m][j].path => i = j

\* A command changes the rule of the path it names, to what it says, and no other rule:
\* not one of another path or module, and none when its file could not be read or written.
RulesKept == [][
    /\ \A m \in Modules, p \in PathsSaid :
         RulesFor(rules'[m], p) # RulesFor(rules[m], p) =>
           /\ op.kind \in {"add", "remove"} /\ op.of.id = m /\ op.of.path = p
           /\ RulesFor(rules'[m], p) = IF op.kind = "add" THEN {Rule(op.of)} ELSE {}]_rulevars

\* A path's rule is found to be the same one by one and by prefixes, and so is whether a
\* rule is about part of it: adding the rule that passes linear_limit changes no other.
Agree(rs, order) ==
    \A p \in DOMAIN tree \cup PathsSaid :
        /\ one_by_one(rs, p) = by_prefixes(rs, order, p)
        /\ any_nested(rs, p) = nested_found(rs, order, p)

\* README.md: "a single path rule uses the existing longest-prefix selection. Effective
\* bypass is the module flag OR the selected path-rule flag." What is planned for the
\* kernel does that for every file, with the trees it maps as a whole, unless a directory
\* above it is hidden; what the module deletes is hidden, or left to the tree's mapping.
Follows(rs, bypass, plan) ==
    LET Longest(p) == {r \in {rs[i] : i \in DOMAIN rs} :
                         /\ matches_path(p, r.path)
                         /\ \A i \in DOMAIN rs :
                              matches_path(p, rs[i].path) => Len(rs[i].path) <= Len(r.path)}
        Mode(p, md) == \E r \in Longest(p) : r.mode = md
        Covering(p) == {x \in plan.mappings : x.path = p \/ (x.merge /\ matches_path(p, x.path))}
        Hidden(p) == Mode(p, "hide") \/ \E a \in Ancestors(p) : Mode(a, "hide")
    IN  plan.ok =>
          \A p \in {q \in DOMAIN tree : tree[q] \in {"file", "whiteout"}} :
            IF Hidden(p) THEN Covering(p) = {} /\ \E h \in plan.hide : matches_path(p, h)
            ELSE IF Mode(p, "none") THEN Covering(p) = {} /\ p \notin plan.hide
            ELSE /\ Covering(p) # {} \/ (tree[p] = "whiteout" /\ p \in plan.hide)
                 /\ \A x \in Covering(p) :
                      x.bypass = (bypass \/ \E r \in Longest(p) : r.bypass)

\* The planner's index and what it plans with it are right after every command.
LongestPrefixDecides ==
    op = Idle =>
        \A m \in Modules :
            /\ Agree(rules[m], ordered(rules[m]))
            /\ Follows(rules[m], m \in bypasses, compile_tree(rules[m], m \in bypasses))

===============================================================================
