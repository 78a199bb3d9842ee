------------------------------- MODULE BootProofs -------------------------------
(***************************************************************************)
(* Theorems about a boot. Of ModuleTrees, for every tree, every number of  *)
(* modules and every place of sub-mounts: what is shown is the union of    *)
(* the accepted modules over stock, and who shows it is on record. Of      *)
(* BootRecovery, for every limit, ceiling and number of boots.             *)
(***************************************************************************)
EXTENDS BootRecovery, ModuleTrees, SequenceTheorems, WellFoundedInduction, TLAPS

(***************************************************************************)
(*                               ModuleTrees                               *)
(***************************************************************************)

\* What the modules A say of a path, as the kernel would stack them at dir: none of
\* them cuts off the way to it; the module whose entry shows; what is below them all
\* shows through.
Upper(A, i) == {j \in A : j < i}
Free(ms, A, dir, p) == \A i \in A : \A q \in Above[p] \cap Below(dir) : ms[i][q] \in {"none", "dir"}
Top(ms, A, dir, p, i) ==
    /\ i \in A /\ ms[i][p] # "none"
    /\ \A j \in Upper(A, i) : ms[j][p] = "none"
    /\ Free(ms, Upper(A, i), dir, p)
Lets(ms, A, dir, p) == Free(ms, A, dir, p) /\ \A i \in A : ms[i][p] = "none"
TopOf(ms, A, dir, p) == CHOOSE i \in A : Top(ms, A, dir, p, i)
Merged(ms, A, e, dir, p) ==
    IF \E i \in A : Top(ms, A, dir, p, i)
    THEN Shows(<<ms[TopOf(ms, A, dir, p)][p], TopOf(ms, A, dir, p)>>)
    ELSE IF Lets(ms, A, dir, p) THEN Shows(e) ELSE Nothing
Forest(ms, A) == A \subseteq Nat /\ \A i \in A : IsTree(ms[i])

-----------------------------------------------------------------------------
(* Numbers and paths.                                                        *)

\* A set of naturals has a least element.
LEMMA Least ==
    ASSUME NEW S, S \subseteq Nat, S # {}
    PROVE  \E n \in S : \A k \in S : n <= k
<1> DEFINE Lower == OpToRel(<, Nat)
<1>1. \A x, y \in Nat : x < y => <<x, y>> \in Lower
  BY DEF OpToRel
<1>2. IsWellFoundedOn(Lower, Nat)
  BY NatLessThanWellFounded
<1> HIDE DEF Lower
<1>3. PICK n \in S : \A k \in S : <<k, n>> \notin Lower
  BY <1>2, WFMin
<1>4. ASSUME NEW k \in S PROVE n <= k
  <2>1. k \in Nat /\ n \in Nat /\ <<k, n>> \notin Lower
    BY <1>3
  <2>2. ~(k < n)
    BY <1>1, <2>1
  <2> QED BY <2>1, <2>2
<1> QED BY <1>4

\* The root is above every other path and nothing is above it.
LEMMA Rooted ==
    /\ Root \in Whole /\ Above[Root] = {} /\ Root \notin Paths
    /\ \A p \in Paths : p \in Whole /\ p \in Below(Root) /\ Root \in Above[p]
    /\ \A p \in Whole : p \in Paths \/ p = Root
    /\ From(Root) = Whole /\ Below(Root) = Paths
<1>1. \A p \in Paths : p \in Whole /\ Root \in Above[p]
  BY PathAssumption DEF Whole
<1>2. Root \in Whole /\ Above[Root] = {} /\ Root \notin Paths
  BY PathAssumption DEF Whole
<1>3. \A p \in Whole : p \in Paths \/ p = Root
  BY DEF Whole
<1> QED BY <1>1, <1>2, <1>3 DEF Below, From

LEMMA AboveAll ==
    ASSUME NEW p \in Whole, NEW q \in Above[p]
    PROVE  /\ p \in Paths /\ q \in Whole /\ p # q /\ p \in Below(q)
           /\ \A r \in Above[q] : r \in Above[p]
           /\ \A r \in Above[p] : q = r \/ q \in Above[r] \/ r \in Above[q]
           /\ q \notin Above[q] /\ p \notin Above[q]
<1>1. p \in Paths /\ q \in Whole
  BY PathAssumption, Rooted
<1>2. Above[q] \subseteq Above[p] /\ p \notin Above[p]
  BY <1>1, PathAssumption
<1>3. q \notin Above[q]
  BY <1>1, PathAssumption, Rooted
<1> QED BY <1>1, <1>2, <1>3, PathAssumption DEF Below

\* The way to what is below dir: to dir, dir itself, and on from it.
LEMMA WayThrough ==
    ASSUME NEW dir \in Whole, NEW p \in Below(dir), NEW q \in Above[p] \cap Below(Root)
    PROVE  q \in Above[p] \cap Below(dir) \/ q = dir \/ q \in Above[dir]
<1>1. p \in Whole /\ dir \in Above[p]
  BY DEF Below
<1>2. dir = q \/ dir \in Above[q] \/ q \in Above[dir]
  BY <1>1, AboveAll
<1> QED BY <1>1, <1>2, AboveAll DEF Below

-----------------------------------------------------------------------------
(* What a stack of layers shows of a path.                                   *)

LEMMA ShowsTwice == \A e : Shows(Shows(e)) = Shows(e)
<1> TAKE e
<1>1. Shows(e) = Nothing \/ Shows(e) = Directory
      \/ (Shows(e) = e /\ e[1] \notin {"none", "whiteout"} \cup Dirs)
  BY DEF Shows
<1>2. Shows(Nothing) = Nothing /\ Shows(Directory) = Directory
  BY DEF Shows, Nothing, Directory, Dirs
<1> QED BY <1>1, <1>2

LEMMA StackedTop ==
    ASSUME NEW n \in Nat, NEW layers, DOMAIN layers = 1 .. n, NEW dir \in Whole, NEW p \in From(dir),
           NEW j \in 1 .. n, layers[j][p][1] # "none",
           \A i \in 1 .. j - 1 : layers[i][p][1] = "none",
           \A i \in 1 .. j - 1 : \A q \in Above[p] \cap Below(dir) : layers[i][q][1] \in {"none", "dir"}
    PROVE  Stacked(layers, dir)[p] = Shows(layers[j][p])
<1> DEFINE visible == {k \in DOMAIN layers :
                          /\ layers[k][p][1] # "none"
                          /\ \A i \in 1 .. k - 1, q \in Above[p] \cap Below(dir) :
                                layers[i][q][1] \in {"none", "dir"}}
<1>1. j \in visible
  OBVIOUS
<1>2. \A k \in visible : k \in 1 .. n /\ layers[k][p][1] # "none"
  OBVIOUS
<1>3. Stacked(layers, dir)[p] = IF visible = {} THEN Nothing ELSE Shows(layers[Min(visible)][p])
  BY DEF Stacked
<1> HIDE DEF visible
<1>4. \A k \in visible : j <= k
  <2> TAKE k \in visible
  <2>1. k \in 1 .. n /\ ~(k \in 1 .. j - 1)
    BY <1>2
  <2> QED BY <2>1
<1>5. Min(visible) = j
  <2>1. \A k \in visible : (\A l \in visible : k <= l) => k = j
    BY <1>1, <1>2, <1>4
  <2> QED BY <1>1, <1>4, <2>1 DEF Min
<1> QED BY <1>1, <1>3, <1>5

LEMMA StackedHidden ==
    ASSUME NEW n \in Nat, NEW layers, DOMAIN layers = 1 .. n, NEW dir \in Whole, NEW p \in From(dir),
           \A j \in 1 .. n : layers[j][p][1] # "none" =>
              \E i \in 1 .. j - 1 : \E q \in Above[p] \cap Below(dir) : layers[i][q][1] \notin {"none", "dir"}
    PROVE  Stacked(layers, dir)[p] = Nothing
<1> DEFINE visible == {k \in DOMAIN layers :
                          /\ layers[k][p][1] # "none"
                          /\ \A i \in 1 .. k - 1, q \in Above[p] \cap Below(dir) :
                                layers[i][q][1] \in {"none", "dir"}}
<1>1. visible = {}
  OBVIOUS
<1>2. Stacked(layers, dir)[p] = IF visible = {} THEN Nothing ELSE Shows(layers[Min(visible)][p])
  BY DEF Stacked
<1> QED BY <1>1, <1>2

\* The three ways a path can fare among modules: one of them shows, none of them
\* has a say, or what is there is cut off.
LEMMA ThreeWays ==
    ASSUME NEW ms, NEW A \in SUBSET Nat, NEW dir, NEW p, ~ \E i \in A : Top(ms, A, dir, p, i)
    PROVE  /\ Free(ms, A, dir, p) => Lets(ms, A, dir, p)
           /\ \A i \in A : ms[i][p] # "none" => ~Free(ms, Upper(A, i), dir, p)
<1> DEFINE has == {i \in A : ms[i][p] # "none"}
<1>1. ASSUME NEW i \in has PROVE ~Free(ms, Upper(A, i), dir, p)
  <2>1. PICK m \in has : \A k \in has : m <= k
    BY <1>1, Least
  <2>2. m \in A /\ m \in Nat /\ \A j \in Upper(A, m) : j \in A /\ j \in Nat /\ j < m
    BY <2>1 DEF Upper
  <2>3. \A j \in Upper(A, m) : j \notin has
    BY <2>1, <2>2
  <2>4. ~Free(ms, Upper(A, m), dir, p)
    BY <2>1, <2>2, <2>3 DEF Top
  <2>5. Upper(A, m) \subseteq Upper(A, i)
    <3>1. i \in Nat /\ m <= i
      BY <2>1
    <3>2. ASSUME NEW j \in A, j < m PROVE j < i
      <4>1. j \in Nat /\ m \in Nat
        BY <2>2
      <4> QED BY <3>1, <3>2, <4>1
    <3> QED BY <3>2 DEF Upper
  <2> QED BY <2>4, <2>5 DEF Free
<1>2. Free(ms, A, dir, p) => Lets(ms, A, dir, p)
  <2>1. \A i \in A : Upper(A, i) \subseteq A
    BY DEF Upper
  <2>2. Free(ms, A, dir, p) => \A i \in A : Free(ms, Upper(A, i), dir, p)
    BY <2>1 DEF Free
  <2> QED BY <1>1, <2>2 DEF Lets
<1> QED BY <1>1, <1>2

LEMMA OneTop ==
    ASSUME NEW ms, NEW A \in SUBSET Nat, NEW dir, NEW p, NEW i, NEW e, Top(ms, A, dir, p, i)
    PROVE  /\ \A j : Top(ms, A, dir, p, j) => j = i
           /\ ~Lets(ms, A, dir, p)
           /\ Merged(ms, A, e, dir, p) = Shows(<<ms[i][p], i>>)
<1>1. ASSUME NEW j, Top(ms, A, dir, p, j) PROVE j = i
  <2>1. i \in Nat /\ j \in Nat /\ i \in A /\ j \in A
    BY <1>1 DEF Top
  <2>2. ~(i < j) /\ ~(j < i)
    BY <1>1, <2>1 DEF Top, Upper
  <2> QED BY <2>1, <2>2
<1>2. i \in A /\ ~Lets(ms, A, dir, p)
  BY DEF Top, Lets
<1>3. TopOf(ms, A, dir, p) = i
  BY <1>1, <1>2 DEF TopOf
<1> QED BY <1>1, <1>2, <1>3 DEF Merged

LEMMA NoTop ==
    ASSUME NEW ms, NEW A \in SUBSET Nat, NEW dir, NEW p, NEW e
    PROVE  /\ Lets(ms, A, dir, p) => Merged(ms, A, e, dir, p) = Shows(e)
           /\ (~ \E i \in A : Top(ms, A, dir, p, i)) /\ ~Lets(ms, A, dir, p) => Merged(ms, A, e, dir, p) = Nothing
<1>1. Lets(ms, A, dir, p) => ~ \E i \in A : Top(ms, A, dir, p, i)
  BY DEF Lets, Top
<1> QED BY <1>1 DEF Merged

\* The model's stacks, above one more layer and above another stack and that.
Width == Len(modules)

LEMMA LayersAre ==
    ASSUME NEW A, Width \in Nat
    PROVE  /\ DOMAIN Layers(A) = 1 .. Width
           /\ \A i \in 1 .. Width : \A p \in Whole :
                Layers(A)[i][p] = IF i \in A THEN <<modules[i][p], i>> ELSE Nothing
BY DEF Layers, Ids, Width, Layer, Empty

LEMMA StackIs ==
    ASSUME NEW A, NEW low, Width \in Nat
    PROVE  /\ DOMAIN (Layers(A) \o <<low>>) = 1 .. Width + 1
           /\ \A i \in 1 .. Width : (Layers(A) \o <<low>>)[i] = Layers(A)[i]
           /\ (Layers(A) \o <<low>>)[Width + 1] = low
<1> DEFINE s == Layers(A)
           S == {s[i] : i \in 1 .. Width} \cup {low}
<1>1. s = [i \in 1 .. Width |-> s[i]]
  BY DEF Layers, Ids, Width
<1> HIDE DEF s
<1>2. s \in Seq(S) /\ Len(s) = Width
  BY <1>1
<1>3. <<low>> \in Seq(S) /\ Len(<<low>>) = 1 /\ <<low>>[1] = low
  OBVIOUS
<1> HIDE DEF S
<1>4. /\ Len(s \o <<low>>) = Width + 1
      /\ \A i \in 1 .. Width + 1 : (s \o <<low>>)[i] = IF i <= Width THEN s[i] ELSE <<low>>[i - Width]
      /\ s \o <<low>> \in Seq(S)
  BY <1>2, <1>3, ConcatProperties
<1>5. DOMAIN (s \o <<low>>) = 1 .. Width + 1
  BY <1>4
<1> QED BY <1>3, <1>4, <1>5 DEF s

TwoStacks(A, B, low) == Layers(A) \o Layers(B) \o <<low>>

LEMMA TwoStacksAre ==
    ASSUME NEW A, NEW B, NEW low, Width \in Nat
    PROVE  /\ DOMAIN TwoStacks(A, B, low) = 1 .. Width + Width + 1
           /\ \A i \in 1 .. Width : /\ TwoStacks(A, B, low)[i] = Layers(A)[i]
                                  /\ TwoStacks(A, B, low)[Width + i] = Layers(B)[i]
           /\ TwoStacks(A, B, low)[Width + Width + 1] = low
<1> DEFINE s == Layers(A)
           t == Layers(B)
           S == {s[i] : i \in 1 .. Width} \cup {t[i] : i \in 1 .. Width} \cup {low}
<1>1. s = [i \in 1 .. Width |-> s[i]] /\ t = [i \in 1 .. Width |-> t[i]]
  BY DEF Layers, Ids, Width
<1> HIDE DEF s, t
<1>2. s \in Seq(S) /\ Len(s) = Width /\ t \in Seq(S) /\ Len(t) = Width
  <2>1. s \in [1 .. Width -> S] /\ t \in [1 .. Width -> S]
    BY <1>1
  <2> HIDE DEF S
  <2> QED BY <2>1
<1>3. <<low>> \in Seq(S) /\ Len(<<low>>) = 1 /\ <<low>>[1] = low
  OBVIOUS
<1> HIDE DEF S
<1>4. /\ Len(s \o t) = Width + Width
      /\ \A i \in 1 .. Width + Width : (s \o t)[i] = IF i <= Width THEN s[i] ELSE t[i - Width]
      /\ s \o t \in Seq(S)
  BY <1>2, ConcatProperties
<1> DEFINE u == s \o t
<1> HIDE DEF u
<1>5. u \in Seq(S) /\ Len(u) = Width + Width
  BY <1>4 DEF u
<1>6. /\ Len(u \o <<low>>) = Width + Width + 1
      /\ \A i \in 1 .. Width + Width + 1 :
           (u \o <<low>>)[i] = IF i <= Width + Width THEN u[i] ELSE <<low>>[i - (Width + Width)]
      /\ u \o <<low>> \in Seq(S)
  BY <1>3, <1>5, ConcatProperties
<1>7. DOMAIN (u \o <<low>>) = 1 .. Width + Width + 1
  BY <1>6
<1>8. ASSUME NEW i \in 1 .. Width
      PROVE  (u \o <<low>>)[i] = s[i] /\ (u \o <<low>>)[Width + i] = t[i]
  <2>1. i \in 1 .. Width + Width /\ Width + i \in 1 .. Width + Width /\ ~(Width + i <= Width)
        /\ (Width + i) - Width = i
    OBVIOUS
  <2>2. u[i] = s[i] /\ u[Width + i] = t[i]
    BY <1>4, <2>1 DEF u
  <2> QED BY <1>6, <2>1, <2>2
<1>9. (u \o <<low>>)[Width + Width + 1] = low
  BY <1>3, <1>6
<1> QED BY <1>7, <1>8, <1>9 DEF s, t, u, TwoStacks

\* What a list of layers has at a path before its m-th is what modules say of it.
Kind(A, i, q) == IF i \in A THEN modules[i][q] ELSE "none"

LEMMA LayerKinds ==
    ASSUME NEW A, Width \in Nat, NEW i \in 1 .. Width, NEW q \in Whole
    PROVE  Layers(A)[i][q][1] = Kind(A, i, q)
<1>1. Layers(A)[i][q] = IF i \in A THEN <<modules[i][q], i>> ELSE Nothing
  BY LayersAre
<1>2. <<modules[i][q], i>>[1] = modules[i][q] /\ Nothing[1] = "none"
  BY DEF Nothing
<1> QED BY <1>1, <1>2 DEF Kind

LEMMA FreeKinds ==
    ASSUME NEW A \in SUBSET (1 .. Width), Width \in Nat, NEW dir, NEW p, NEW m \in 1 .. Width + 1
    PROVE  Free(modules, {j \in A : j < m}, dir, p)
           <=> \A i \in 1 .. m - 1 : \A q \in Above[p] \cap Below(dir) : Kind(A, i, q) \in {"none", "dir"}
<1>1. \A j \in A : j < m <=> j \in 1 .. m - 1
  OBVIOUS
<1> QED BY <1>1 DEF Free, Kind

LEMMA NothingShows == \A e : e[1] \in {"none", "whiteout"} => Shows(e) = Nothing
BY DEF Shows, Dirs

LEMMA LayersOver ==
    ASSUME Width \in Nat, NEW A \in SUBSET (1 .. Width), NEW low, NEW dir \in Whole, NEW p \in From(dir)
    PROVE  Stacked(Layers(A) \o <<low>>, dir)[p] = Merged(modules, A, low[p], dir, p)
<1> DEFINE stack == Layers(A) \o <<low>>
<1>1. /\ DOMAIN stack = 1 .. Width + 1 /\ Width + 1 \in Nat
      /\ \A i \in 1 .. Width : stack[i] = Layers(A)[i]
      /\ stack[Width + 1] = low
  BY StackIs
<1> HIDE DEF stack
<1>2. p \in Whole /\ Above[p] \subseteq Whole
  BY PathAssumption DEF From, Below
<1>3. \A i \in 1 .. Width : \A q \in Whole : stack[i][q][1] = Kind(A, i, q)
  BY <1>1, LayerKinds
<1>4. A \in SUBSET Nat /\ {j \in A : j < Width + 1} = A
  <2>1. \A j \in 1 .. Width : j \in Nat /\ j < Width + 1
    OBVIOUS
  <2> QED BY <2>1
<1>5. CASE \E i \in A : Top(modules, A, dir, p, i)
  <2>1. PICK i \in A : Top(modules, A, dir, p, i)
    BY <1>5
  <2>2. i \in 1 .. Width /\ i \in 1 .. Width + 1 /\ i \in Nat
    OBVIOUS
  <2>3. Kind(A, i, p) # "none" /\ \A j \in 1 .. i - 1 : j \in 1 .. Width /\ Kind(A, j, p) = "none"
    <3>1. \A j \in 1 .. i - 1 : j \in 1 .. Width /\ (j \in A => j \in Upper(A, i))
      BY <2>2 DEF Upper
    <3> QED BY <2>1, <3>1 DEF Top, Kind
  <2>4. \A j \in 1 .. i - 1 : \A q \in Above[p] \cap Below(dir) : Kind(A, j, q) \in {"none", "dir"}
    BY <2>1, <2>2, FreeKinds DEF Top, Upper
  <2>5. Stacked(stack, dir)[p] = Shows(stack[i][p])
    BY <1>1, <1>2, <1>3, <2>2, <2>3, <2>4, StackedTop
  <2>6. stack[i][p] = <<modules[i][p], i>>
    BY <1>1, <1>2, <2>2, LayersAre
  <2>7. Merged(modules, A, low[p], dir, p) = Shows(<<modules[i][p], i>>)
    BY <1>4, <2>1, OneTop
  <2> QED BY <2>5, <2>6, <2>7 DEF stack
<1>6. CASE Lets(modules, A, dir, p)
  <2>1. \A j \in 1 .. Width : Kind(A, j, p) = "none"
    BY <1>6 DEF Lets, Kind
  <2>2. \A j \in 1 .. Width : \A q \in Above[p] \cap Below(dir) : Kind(A, j, q) \in {"none", "dir"}
    BY <1>6 DEF Lets, Kind, Free
  <2>3. Merged(modules, A, low[p], dir, p) = Shows(low[p])
    BY <1>4, <1>6, NoTop
  <2>4. CASE low[p][1] = "none"
    <3>1. \A j \in 1 .. Width + 1 : stack[j][p][1] = "none"
      <4>1. \A j \in 1 .. Width + 1 : j \in 1 .. Width \/ j = Width + 1
        OBVIOUS
      <4> QED BY <1>1, <1>2, <1>3, <2>1, <2>4, <4>1
    <3>2. Stacked(stack, dir)[p] = Nothing
      BY <1>1, <3>1, StackedHidden
    <3> QED BY <2>3, <2>4, <3>2, NothingShows DEF stack
  <2>5. CASE low[p][1] # "none"
    <3>1. Width + 1 \in 1 .. Width + 1 /\ \A j : j \in 1 .. Width + 1 - 1 => j \in 1 .. Width
      OBVIOUS
    <3>2. Stacked(stack, dir)[p] = Shows(stack[Width + 1][p])
      BY <1>1, <1>2, <1>3, <2>1, <2>2, <2>5, <3>1, StackedTop
    <3> QED BY <1>1, <2>3, <3>2 DEF stack
  <2> QED BY <2>4, <2>5
<1>7. CASE (~ \E i \in A : Top(modules, A, dir, p, i)) /\ ~Lets(modules, A, dir, p)
  <2>1. Merged(modules, A, low[p], dir, p) = Nothing
    BY <1>4, <1>7, NoTop
  <2>2. ~Free(modules, A, dir, p) /\ \A i \in A : modules[i][p] # "none" => ~Free(modules, Upper(A, i), dir, p)
    BY <1>4, <1>7, ThreeWays
  <2>3. ASSUME NEW j \in 1 .. Width + 1, stack[j][p][1] # "none"
        PROVE  \E i \in 1 .. j - 1 : \E q \in Above[p] \cap Below(dir) : stack[i][q][1] \notin {"none", "dir"}
    <3>1. ~Free(modules, {i \in A : i < j}, dir, p)
      <4>1. CASE j = Width + 1
        BY <1>4, <2>2, <4>1
      <4>2. CASE j \in 1 .. Width
        <5>1. j \in A /\ modules[j][p] # "none"
          BY <1>2, <1>3, <2>3, <4>2 DEF Kind
        <5> QED BY <2>2, <5>1 DEF Upper
      <4> QED BY <4>1, <4>2
    <3>2. PICK i \in 1 .. j - 1 : \E q \in Above[p] \cap Below(dir) : Kind(A, i, q) \notin {"none", "dir"}
      BY <3>1, FreeKinds
    <3>3. i \in 1 .. Width
      OBVIOUS
    <3> QED BY <1>2, <1>3, <3>2, <3>3
  <2>4. Stacked(stack, dir)[p] = Nothing
    BY <1>1, <2>3, StackedHidden
  <2> QED BY <2>1, <2>4 DEF stack
<1> QED BY <1>5, <1>6, <1>7

\* One stack of both backends' layers shows what the one backend's layers show above
\* what the other's do.
LEMMA LayersOverLayers ==
    ASSUME Width \in Nat, NEW A \in SUBSET (1 .. Width), NEW B \in SUBSET (1 .. Width),
           NEW low, NEW dir \in Whole, NEW p \in From(dir)
    PROVE  Stacked(Layers(A) \o Layers(B) \o <<low>>, dir)[p]
             = Merged(modules, A, Merged(modules, B, low[p], dir, p), dir, p)
<1> SUFFICES Stacked(TwoStacks(A, B, low), dir)[p] = Merged(modules, A, Merged(modules, B, low[p], dir, p), dir, p)
  BY DEF TwoStacks
<1> DEFINE stack == TwoStacks(A, B, low)
           last == Width + Width + 1
           e == Merged(modules, B, low[p], dir, p)
<1>1. /\ DOMAIN stack = 1 .. last /\ last \in Nat
      /\ \A i \in 1 .. Width : stack[i] = Layers(A)[i] /\ stack[Width + i] = Layers(B)[i]
      /\ stack[last] = low
  <2>1. last \in Nat
    OBVIOUS
  <2> HIDE DEF e
  <2> QED BY <2>1, TwoStacksAre
<1> HIDE DEF stack
<1>2. p \in Whole /\ Above[p] \subseteq Whole
  BY PathAssumption DEF From, Below
<1>3. \A i \in 1 .. Width : \A q \in Whole :
         stack[i][q][1] = Kind(A, i, q) /\ stack[Width + i][q][1] = Kind(B, i, q)
  BY <1>1, LayerKinds
<1>4. A \in SUBSET Nat /\ B \in SUBSET Nat /\ {j \in A : j < Width + 1} = A /\ {j \in B : j < Width + 1} = B
  <2>1. \A j \in 1 .. Width : j \in Nat /\ j < Width + 1
    OBVIOUS
  <2> QED BY <2>1
<1>5. \A j \in 1 .. last : j \in 1 .. Width \/ j = last \/ \E k \in 1 .. Width : j = Width + k
  <2> TAKE j \in 1 .. last
  <2>1. CASE j <= Width \/ j = last
    BY <2>1
  <2>2. CASE ~(j <= Width) /\ j # last
    <3>1. j - Width \in 1 .. Width /\ j = Width + (j - Width)
      BY <2>2
    <3> QED BY <3>1
  <2> QED BY <2>1, <2>2
<1>6. \A k \in 1 .. Width : \A j \in 1 .. Width + k - 1 :
         j \in 1 .. Width \/ \E l \in 1 .. k - 1 : l \in 1 .. Width /\ j = Width + l
  <2> TAKE k \in 1 .. Width
  <2> TAKE j \in 1 .. Width + k - 1
  <2>1. CASE j <= Width
    BY <2>1
  <2>2. CASE ~(j <= Width)
    <3>1. j - Width \in 1 .. k - 1 /\ j - Width \in 1 .. Width /\ j = Width + (j - Width)
      BY <2>2
    <3> QED BY <3>1
  <2> QED BY <2>1, <2>2
<1>7. CASE \E i \in A : Top(modules, A, dir, p, i)
  <2>1. PICK i \in A : Top(modules, A, dir, p, i)
    BY <1>7
  <2>2. i \in 1 .. Width /\ i \in 1 .. last /\ i \in Nat /\ i \in 1 .. Width + 1
    OBVIOUS
  <2>3. Kind(A, i, p) # "none" /\ \A j \in 1 .. i - 1 : j \in 1 .. Width /\ Kind(A, j, p) = "none"
    <3>1. \A j \in 1 .. i - 1 : j \in 1 .. Width /\ (j \in A => j \in Upper(A, i))
      BY <2>2 DEF Upper
    <3> QED BY <2>1, <3>1 DEF Top, Kind
  <2>4. \A j \in 1 .. i - 1 : \A q \in Above[p] \cap Below(dir) : Kind(A, j, q) \in {"none", "dir"}
    BY <2>1, <2>2, FreeKinds DEF Top, Upper
  <2>5. Stacked(stack, dir)[p] = Shows(stack[i][p])
    <3>1. stack[i][p][1] # "none" /\ \A j \in 1 .. i - 1 : stack[j][p][1] = "none"
      BY <1>2, <1>3, <2>2, <2>3
    <3>2. \A j \in 1 .. i - 1 : \A q \in Above[p] \cap Below(dir) : stack[j][q][1] \in {"none", "dir"}
      BY <1>2, <1>3, <2>3, <2>4
    <3> HIDE DEF last, e
    <3>3. DOMAIN stack = 1 .. last /\ last \in Nat /\ i \in 1 .. last
      BY <1>1, <2>2
    <3> QED BY <3>1, <3>2, <3>3, StackedTop
  <2>6. stack[i][p] = <<modules[i][p], i>>
    <3>1. Layers(A)[i][p] = <<modules[i][p], i>>
      BY <1>2, <2>2, LayersAre
    <3> QED BY <1>1, <2>2, <3>1
  <2>7. Merged(modules, A, e, dir, p) = Shows(<<modules[i][p], i>>)
    BY <1>4, <2>1, OneTop
  <2> QED BY <2>5, <2>6, <2>7 DEF stack
<1>8. CASE Lets(modules, A, dir, p)
  <2>1. \A j \in 1 .. Width : Kind(A, j, p) = "none"
    BY <1>8 DEF Lets, Kind
  <2>2. \A j \in 1 .. Width : \A q \in Above[p] \cap Below(dir) : Kind(A, j, q) \in {"none", "dir"}
    BY <1>8 DEF Lets, Kind, Free
  <2>3. Merged(modules, A, e, dir, p) = Shows(e)
    BY <1>4, <1>8, NoTop
  <2>4. CASE \E i \in B : Top(modules, B, dir, p, i)
    <3>1. PICK i \in B : Top(modules, B, dir, p, i)
      BY <2>4
    <3>2. i \in 1 .. Width /\ Width + i \in 1 .. last /\ i \in Nat /\ i \in 1 .. Width + 1
      OBVIOUS
    <3>3. Kind(B, i, p) # "none" /\ \A j \in 1 .. i - 1 : j \in 1 .. Width => Kind(B, j, p) = "none"
      <4>1. \A j \in 1 .. i - 1 : j \in B => j \in Upper(B, i)
        BY <3>2 DEF Upper
      <4> QED BY <3>1, <4>1 DEF Top, Kind
    <3>4. \A j \in 1 .. i - 1 : \A q \in Above[p] \cap Below(dir) : Kind(B, j, q) \in {"none", "dir"}
      BY <3>1, <3>2, FreeKinds DEF Top, Upper
    <3>5. \A j \in 1 .. Width + i - 1 : stack[j][p][1] = "none"
      BY <1>2, <1>3, <1>6, <2>1, <3>2, <3>3
    <3>6. \A j \in 1 .. Width + i - 1 : \A q \in Above[p] \cap Below(dir) : stack[j][q][1] \in {"none", "dir"}
      BY <1>2, <1>3, <1>6, <2>2, <3>2, <3>4
    <3>7. stack[Width + i][p][1] # "none"
      BY <1>2, <1>3, <3>2, <3>3
    <3>8. Stacked(stack, dir)[p] = Shows(stack[Width + i][p])
      BY <1>1, <3>2, <3>5, <3>6, <3>7, StackedTop
    <3>9. stack[Width + i][p] = <<modules[i][p], i>>
      <4>1. Layers(B)[i][p] = <<modules[i][p], i>>
        BY <1>2, <3>2, LayersAre
      <4> QED BY <1>1, <3>2, <4>1
    <3>10. e = Shows(<<modules[i][p], i>>)
      BY <1>4, <3>1, OneTop
    <3> QED BY <2>3, <3>8, <3>9, <3>10, ShowsTwice DEF stack
  <2>5. CASE Lets(modules, B, dir, p)
    <3>1. \A j \in 1 .. Width : Kind(B, j, p) = "none"
      BY <2>5 DEF Lets, Kind
    <3>2. \A j \in 1 .. Width : \A q \in Above[p] \cap Below(dir) : Kind(B, j, q) \in {"none", "dir"}
      BY <2>5 DEF Lets, Kind, Free
    <3>3. e = Shows(low[p])
      BY <1>4, <2>5, NoTop
    <3>4. \A j \in 1 .. last : j # last => stack[j][p][1] = "none"
      BY <1>2, <1>3, <1>5, <2>1, <3>1
    <3>5. \A j \in 1 .. last : j # last =>
             \A q \in Above[p] \cap Below(dir) : stack[j][q][1] \in {"none", "dir"}
      BY <1>2, <1>3, <1>5, <2>2, <3>2
    <3>6. CASE low[p][1] = "none"
      <4>1. Stacked(stack, dir)[p] = Nothing
        BY <1>1, <3>4, <3>6, StackedHidden
      <4>2. Shows(low[p]) = Nothing
        BY <3>6, NothingShows
      <4> QED BY <2>3, <3>3, <4>1, <4>2, ShowsTwice DEF stack
    <3>7. CASE low[p][1] # "none"
      <4>1. last \in 1 .. last /\ \A j : j \in 1 .. last - 1 => j \in 1 .. last /\ j # last
        OBVIOUS
      <4>2. Stacked(stack, dir)[p] = Shows(stack[last][p])
        BY <1>1, <3>4, <3>5, <3>7, <4>1, StackedTop
      <4> QED BY <1>1, <2>3, <3>3, <4>2, ShowsTwice DEF stack
    <3> QED BY <3>6, <3>7
  <2>6. CASE (~ \E i \in B : Top(modules, B, dir, p, i)) /\ ~Lets(modules, B, dir, p)
    <3>1. e = Nothing
      BY <1>4, <2>6, NoTop
    <3>2. ~Free(modules, B, dir, p) /\ \A i \in B : modules[i][p] # "none" => ~Free(modules, Upper(B, i), dir, p)
      BY <1>4, <2>6, ThreeWays
    <3>3. ASSUME NEW k \in 1 .. Width + 1, ~Free(modules, {i \in B : i < k}, dir, p)
          PROVE  \E i \in 1 .. Width + k - 1 :
                   \E q \in Above[p] \cap Below(dir) : stack[i][q][1] \notin {"none", "dir"}
      <4>1. PICK i \in 1 .. k - 1 : \E q \in Above[p] \cap Below(dir) : Kind(B, i, q) \notin {"none", "dir"}
        BY <3>3, FreeKinds
      <4>2. i \in 1 .. Width /\ Width + i \in 1 .. Width + k - 1
        OBVIOUS
      <4> QED BY <1>2, <1>3, <4>1, <4>2
    <3>4. ASSUME NEW j \in 1 .. last, stack[j][p][1] # "none"
          PROVE  \E i \in 1 .. j - 1 : \E q \in Above[p] \cap Below(dir) : stack[i][q][1] \notin {"none", "dir"}
      <4>1. CASE j \in 1 .. Width
        BY <1>2, <1>3, <2>1, <3>4, <4>1
      <4>2. CASE j = last
        <5>1. ~Free(modules, {i \in B : i < Width + 1}, dir, p) /\ Width + 1 \in 1 .. Width + 1
          BY <1>4, <3>2
        <5>2. Width + (Width + 1) - 1 = j - 1
          BY <4>2
        <5>3. \E i \in 1 .. Width + (Width + 1) - 1 :
                 \E q \in Above[p] \cap Below(dir) : stack[i][q][1] \notin {"none", "dir"}
          BY <3>3, <5>1
        <5> QED BY <5>2, <5>3
      <4>3. ASSUME NEW k \in 1 .. Width, j = Width + k
            PROVE  \E i \in 1 .. j - 1 : \E q \in Above[p] \cap Below(dir) : stack[i][q][1] \notin {"none", "dir"}
        <5>1. k \in B /\ modules[k][p] # "none" /\ k \in 1 .. Width + 1
          BY <1>2, <1>3, <3>4, <4>3 DEF Kind
        <5>2. ~Free(modules, {i \in B : i < k}, dir, p)
          BY <3>2, <5>1 DEF Upper
        <5>3. \E i \in 1 .. Width + k - 1 :
                 \E q \in Above[p] \cap Below(dir) : stack[i][q][1] \notin {"none", "dir"}
          BY <3>3, <5>1, <5>2
        <5> QED BY <4>3, <5>3
      <4> QED BY <1>5, <4>1, <4>2, <4>3
    <3>5. Stacked(stack, dir)[p] = Nothing
      BY <1>1, <3>4, StackedHidden
    <3>6. Shows(Nothing) = Nothing
      BY NothingShows DEF Nothing
    <3> QED BY <2>3, <3>1, <3>5, <3>6 DEF stack
  <2> QED BY <2>4, <2>5, <2>6
<1>9. CASE (~ \E i \in A : Top(modules, A, dir, p, i)) /\ ~Lets(modules, A, dir, p)
  <2>1. Merged(modules, A, e, dir, p) = Nothing
    BY <1>4, <1>9, NoTop
  <2>2. ~Free(modules, A, dir, p) /\ \A i \in A : modules[i][p] # "none" => ~Free(modules, Upper(A, i), dir, p)
    BY <1>4, <1>9, ThreeWays
  <2>3. ASSUME NEW k \in 1 .. Width + 1, ~Free(modules, {i \in A : i < k}, dir, p)
        PROVE  \E i \in 1 .. k - 1 : \E q \in Above[p] \cap Below(dir) : stack[i][q][1] \notin {"none", "dir"}
    <3>1. PICK i \in 1 .. k - 1 : \E q \in Above[p] \cap Below(dir) : Kind(A, i, q) \notin {"none", "dir"}
      BY <2>3, FreeKinds
    <3>2. i \in 1 .. Width
      OBVIOUS
    <3> QED BY <1>2, <1>3, <3>1, <3>2
  <2>4. ASSUME NEW j \in 1 .. last, stack[j][p][1] # "none"
        PROVE  \E i \in 1 .. j - 1 : \E q \in Above[p] \cap Below(dir) : stack[i][q][1] \notin {"none", "dir"}
    <3>1. CASE j \in 1 .. Width
      <4>1. j \in A /\ modules[j][p] # "none" /\ j \in 1 .. Width + 1
        BY <1>2, <1>3, <2>4, <3>1 DEF Kind
      <4> QED BY <2>2, <2>3, <4>1 DEF Upper
    <3>2. CASE ~(j \in 1 .. Width)
      <4>1. Width + 1 \in 1 .. Width + 1 /\ \A i \in 1 .. Width + 1 - 1 : i \in 1 .. j - 1
        BY <3>2
      <4> QED BY <1>4, <2>2, <2>3, <4>1
    <3> QED BY <3>1, <3>2
  <2>5. Stacked(stack, dir)[p] = Nothing
    BY <1>1, <2>4, StackedHidden
  <2> QED BY <2>1, <2>5 DEF stack
<1> QED BY <1>7, <1>8, <1>9

-----------------------------------------------------------------------------
(* Magic Mount's merged tree.                                                *)

\* The first module that cuts off what is below its entry for a path.
Cutter(ms, A, p, i) ==
    /\ i \in A /\ ms[i][p] \notin {"none", "dir"}
    /\ Free(ms, Upper(A, i), Root, p)
    /\ \A j \in Upper(A, i) : ms[j][p] \in {"none", "dir"}
Plain(k) == IF k = "opaque" THEN "dir" ELSE k
Nodes == [kind : Kinds, owner : Nat, replace : BOOLEAN, replace_owner : Nat]

\* A node of the tree after the modules A: what shows of them, and whether it cuts
\* off what is below.
GrownAt(node, ms, A, p) ==
    /\ \A i \in A : Top(ms, A, Root, p, i) => node.kind = Plain(ms[i][p]) /\ node.owner = i
    /\ (~ \E i \in A : Top(ms, A, Root, p, i)) => node = Absent
    /\ \A i \in A : Cutter(ms, A, p, i) /\ node.kind = "dir" => node.replace = TRUE /\ node.replace_owner = i
    /\ node.replace = TRUE => node.kind = "dir" /\ \E i \in A : Cutter(ms, A, p, i)
Grown(tr, ms, A) ==
    /\ tr \in [Whole -> Nodes] /\ tr[Root] = Absent
    /\ \A p \in Paths : GrownAt(tr[p], ms, A, p)

\* Nothing above the path cuts off what is below it.
Open(tr, p) ==
    \A q \in Above[p] : q # Root => tr[q].kind = "none" \/ (tr[q].kind = "dir" /\ tr[q].replace = FALSE)

LEMMA FirstCutter ==
    ASSUME NEW ms, NEW A \in SUBSET Nat, NEW p \in Whole, ~Free(ms, A, Root, p)
    PROVE  \E q \in Above[p] \cap Below(Root) : \E i \in A : Cutter(ms, A, q, i)
<1> DEFINE bad == {i \in A : \E q \in Above[p] \cap Below(Root) : ms[i][q] \notin {"none", "dir"}}
<1>1. bad # {} /\ bad \subseteq Nat
  BY DEF Free
<1>2. PICK i \in bad : \A k \in bad : i <= k
  BY <1>1, Least
<1>3. i \in A /\ i \in Nat
  OBVIOUS
<1>4. PICK q \in Above[p] \cap Below(Root) : ms[i][q] \notin {"none", "dir"}
  OBVIOUS
<1>5. \A j \in Upper(A, i) : j \in A /\ j \notin bad
  <2>1. \A j \in A : j \in Nat /\ (i <= j => ~(j < i))
    BY <1>3
  <2> QED BY <1>2, <2>1 DEF Upper
<1>6. \A j \in Upper(A, i) : \A r \in Above[p] \cap Below(Root) : ms[j][r] \in {"none", "dir"}
  BY <1>5
<1>7. \A r \in Above[q] : r \in Above[p]
  BY AboveAll
<1> QED BY <1>3, <1>4, <1>6, <1>7 DEF Cutter, Free

LEMMA FreeFewer ==
    ASSUME NEW ms, NEW A, NEW B \in SUBSET A, NEW dir, NEW p, Free(ms, A, dir, p)
    PROVE  Free(ms, B, dir, p)
BY DEF Free

LEMMA UpperFewer ==
    ASSUME NEW A \in SUBSET Nat, NEW i \in Nat, NEW j \in Nat, j <= i
    PROVE  Upper(A, j) \subseteq Upper(A, i)
<1>1. \A k \in A : k \in Nat /\ (k < j => k < i)
  OBVIOUS
<1> QED BY <1>1 DEF Upper

\* A module whose entry is not cut off has another or itself on top of it.
LEMMA SomeTop ==
    ASSUME NEW ms, NEW A \in SUBSET Nat, NEW dir, NEW p, NEW i \in A,
           ms[i][p] # "none", Free(ms, Upper(A, i), dir, p)
    PROVE  \E j \in A : Top(ms, A, dir, p, j) /\ j <= i
<1>1. PICK j \in A : Top(ms, A, dir, p, j)
  BY ThreeWays
<1>2. i \in Nat /\ j \in Nat
  OBVIOUS
<1>3. ~(i < j)
  BY <1>1 DEF Top, Upper
<1> QED BY <1>1, <1>2, <1>3

LEMMA OpenIsFree ==
    ASSUME NEW tr, NEW ms, NEW A, Forest(ms, A), Grown(tr, ms, A), NEW p \in Whole
    PROVE  Open(tr, p) <=> Free(ms, A, Root, p)
<1>0. A \in SUBSET Nat
  BY DEF Forest
<1>1. ASSUME Free(ms, A, Root, p), NEW q \in Above[p], q # Root
      PROVE  tr[q].kind = "none" \/ (tr[q].kind = "dir" /\ tr[q].replace = FALSE)
  <2>1. q \in Paths /\ q \in Below(Root) /\ q \in Whole
    BY <1>1, Rooted, AboveAll
  <2>2. \A i \in A : ms[i][q] \in {"none", "dir"}
    BY <1>1, <2>1 DEF Free
  <2>3. tr[q].replace \in BOOLEAN /\ GrownAt(tr[q], ms, A, q)
    BY <2>1 DEF Grown, Nodes
  <2>4. tr[q].replace = FALSE
    BY <2>2, <2>3 DEF GrownAt, Cutter
  <2>5. CASE \E i \in A : Top(ms, A, Root, q, i)
    <3>1. PICK i \in A : Top(ms, A, Root, q, i)
      BY <2>5
    <3>2. ms[i][q] = "dir"
      BY <2>2, <3>1 DEF Top
    <3> QED BY <2>3, <2>4, <3>1, <3>2 DEF GrownAt, Plain
  <2>6. CASE ~ \E i \in A : Top(ms, A, Root, q, i)
    <3>1. tr[q].kind = "none"
      BY <2>3, <2>6 DEF GrownAt, Absent
    <3> QED BY <3>1
  <2> QED BY <2>5, <2>6
<1>2. ASSUME Open(tr, p), ~Free(ms, A, Root, p)
      PROVE  FALSE
  <2>1. PICK q \in Above[p] \cap Below(Root) : \E i \in A : Cutter(ms, A, q, i)
    BY <1>0, <1>2, FirstCutter
  <2>2. PICK i \in A : Cutter(ms, A, q, i)
    BY <2>1
  <2>3. q \in Paths /\ q # Root
    BY <2>1, Rooted
  <2>4. ms[i][q] \notin {"none", "dir"} /\ Free(ms, Upper(A, i), Root, q)
    BY <2>2 DEF Cutter
  <2>5. PICK j \in A : Top(ms, A, Root, q, j)
    BY <1>0, <2>4, SomeTop
  <2>6. GrownAt(tr[q], ms, A, q)
    BY <2>3 DEF Grown
  <2>7. tr[q].kind # "none"
    BY <2>5, <2>6 DEF GrownAt, Top, Plain
  <2>8. tr[q].kind = "dir" => tr[q].replace = TRUE
    BY <2>2, <2>6 DEF GrownAt
  <2> QED BY <1>2, <2>1, <2>3, <2>7, <2>8 DEF Open
<1> QED BY <1>1, <1>2 DEF Open

\* collect_into enters what is open, for what a module has below it.
LEMMA EntersOpen ==
    ASSUME NEW t, IsTree(t), NEW p \in Paths, t[p] # "none", tree \in [Whole -> Nodes]
    PROVE  Enters(t, Parent[p]) <=> Open(tree, p)
<1>1. Above[p] = {Parent[p]} \cup Above[Parent[p]] /\ \A q \in Above[p] : q \in Whole /\ t[q] \in Dirs
  BY PathAssumption, Rooted DEF IsTree
<1>2. \A q \in Above[p] : tree[q].replace \in BOOLEAN
  BY <1>1 DEF Nodes
<1> QED BY <1>1, <1>2 DEF Enters, Open

\* The node a module's entry makes.
LEMMA NodeIs ==
    ASSUME NEW t, NEW p, NEW m \in Nat, t[p] \in Kinds
    PROVE  /\ Node(t, p, m) \in Nodes
           /\ Node(t, p, m).kind = Plain(t[p]) /\ Node(t, p, m).owner = m
           /\ Node(t, p, m).replace = (t[p] = "opaque")
           /\ t[p] = "opaque" => Node(t, p, m).replace_owner = m
BY DEF Node, Nodes, Plain, Kinds

LEMMA NodeSteps ==
    ASSUME NEW ms, NEW A, NEW m \in Nat, Forest(ms, A \cup {m}), \A i \in A : i < m,
           NEW p \in Paths, NEW node \in Nodes, GrownAt(node, ms, A, p)
    PROVE  /\ ms[m][p] = "none" \/ ~Free(ms, A, Root, p) => GrownAt(node, ms, A \cup {m}, p)
           /\ (ms[m][p] # "none" /\ Free(ms, A, Root, p)) =>
                /\ node.kind = "none" => GrownAt(Node(ms[m], p, m), ms, A \cup {m}, p)
                /\ node.kind # "none" =>
                     /\ (node.kind # "dir" \/ node.replace = TRUE \/ ms[m][p] = "dir") => GrownAt(node, ms, A \cup {m}, p)
                     /\ (node.kind = "dir" /\ node.replace = FALSE /\ ms[m][p] # "dir") =>
                          GrownAt([node EXCEPT !.replace = TRUE, !.replace_owner = m], ms, A \cup {m}, p)
<1> DEFINE B == A \cup {m}
<1>1. A \in SUBSET Nat /\ B \in SUBSET Nat /\ m \notin A
  BY DEF Forest
<1>2. \A i \in A : Upper(B, i) = Upper(A, i)
  <2>1. \A i \in A : i \in Nat /\ ~(m < i)
    BY <1>1
  <2> QED BY <2>1 DEF Upper
<1>3. Upper(B, m) = A
  <2>1. ~(m < m) /\ \A i \in A : i < m
    OBVIOUS
  <2> QED BY <2>1 DEF Upper
<1>4. ms[m][p] \in Kinds
  BY Rooted DEF Forest, IsTree
<1> HIDE DEF B
<1>5. \A i : i \in B <=> i \in A \/ i = m
  BY DEF B
<1>6. \A i \in A : (Top(ms, B, Root, p, i) <=> Top(ms, A, Root, p, i))
                  /\ (Cutter(ms, B, p, i) <=> Cutter(ms, A, p, i))
  BY <1>2, <1>5 DEF Top, Cutter
<1>7. /\ Top(ms, B, Root, p, m) <=> ms[m][p] # "none" /\ (\A j \in A : ms[j][p] = "none") /\ Free(ms, A, Root, p)
      /\ Cutter(ms, B, p, m) <=> /\ ms[m][p] \notin {"none", "dir"} /\ Free(ms, A, Root, p)
                                 /\ \A j \in A : ms[j][p] \in {"none", "dir"}
  BY <1>3, <1>5 DEF Top, Cutter
<1>8. ASSUME ms[m][p] = "none" \/ ~Free(ms, A, Root, p)
      PROVE  GrownAt(node, ms, B, p)
  <2>1. ~Top(ms, B, Root, p, m) /\ ~Cutter(ms, B, p, m)
    BY <1>7, <1>8
  <2> QED BY <1>5, <1>6, <2>1 DEF GrownAt
<1>9. ASSUME ms[m][p] # "none", Free(ms, A, Root, p)
      PROVE  /\ node.kind = "none" => GrownAt(Node(ms[m], p, m), ms, B, p)
             /\ node.kind # "none" =>
                  /\ (node.kind # "dir" \/ node.replace = TRUE \/ ms[m][p] = "dir") => GrownAt(node, ms, B, p)
                  /\ (node.kind = "dir" /\ node.replace = FALSE /\ ms[m][p] # "dir") =>
                       GrownAt([node EXCEPT !.replace = TRUE, !.replace_owner = m], ms, B, p)
  <2>1. \A i \in A : Free(ms, Upper(A, i), Root, p)
    BY <1>9 DEF Free, Upper
  <2>2. CASE \A j \in A : ms[j][p] = "none"
    <3>1. Top(ms, B, Root, p, m) /\ \A i \in A : ~Top(ms, A, Root, p, i) /\ ~Cutter(ms, A, p, i)
      BY <1>7, <1>9, <2>2 DEF Top, Cutter
    <3>2. node = Absent /\ node.kind = "none"
      BY <3>1 DEF GrownAt, Absent
    <3>3. Cutter(ms, B, p, m) <=> ms[m][p] # "dir"
      BY <1>7, <1>9, <2>2
    <3> DEFINE new == Node(ms[m], p, m)
    <3>4. /\ new.kind = Plain(ms[m][p]) /\ new.owner = m /\ new.replace = (ms[m][p] = "opaque")
          /\ ms[m][p] = "opaque" => new.replace_owner = m
      BY <1>4, NodeIs
    <3> HIDE DEF new
    <3>5. GrownAt(new, ms, B, p)
      BY <1>5, <1>6, <3>1, <3>3, <3>4 DEF GrownAt, Plain
    <3> QED BY <3>2, <3>5 DEF new
  <2>3. CASE ~ \A j \in A : ms[j][p] = "none"
    <3>1. PICK i \in A : Top(ms, A, Root, p, i)
      BY <1>1, <2>1, <2>3, SomeTop
    <3>2. node.kind # "none" /\ ~Top(ms, B, Root, p, m)
      BY <1>7, <2>3, <3>1 DEF GrownAt, Top, Plain
    <3>3. ASSUME node.kind # "dir" \/ node.replace = TRUE \/ ms[m][p] = "dir"
          PROVE  GrownAt(node, ms, B, p)
      <4>1. node.kind = "dir" => ~Cutter(ms, B, p, m)
        <5>1. node.kind = "dir" /\ node.replace = TRUE => \E j \in A : Cutter(ms, A, p, j)
          BY DEF GrownAt
        <5>2. \A j \in A : Cutter(ms, A, p, j) => ms[j][p] \notin {"none", "dir"}
          BY DEF Cutter
        <5> QED BY <1>7, <3>3, <5>1, <5>2
      <4> QED BY <1>5, <1>6, <3>2, <4>1 DEF GrownAt
    <3>4. ASSUME node.kind = "dir", node.replace = FALSE, ms[m][p] # "dir"
          PROVE  GrownAt([node EXCEPT !.replace = TRUE, !.replace_owner = m], ms, B, p)
      <4>1. \A j \in A : ~Cutter(ms, A, p, j)
        BY <3>4 DEF GrownAt
      <4>2. \A j \in A : ms[j][p] \in {"none", "dir"}
        <5> DEFINE bad == {j \in A : ms[j][p] \notin {"none", "dir"}}
        <5>1. ASSUME bad # {} PROVE FALSE
          <6>1. PICK j \in bad : \A k \in bad : j <= k
            BY <1>1, <5>1, Least
          <6>2. \A k \in Upper(A, j) : k \in A /\ k \notin bad
            <7>1. \A k \in A : k \in Nat /\ j \in Nat /\ (j <= k => ~(k < j))
              BY <1>1
            <7> QED BY <6>1, <7>1 DEF Upper
          <6>3. Cutter(ms, A, p, j)
            BY <2>1, <6>2 DEF Cutter
          <6> QED BY <4>1, <6>3
        <5> QED BY <5>1
      <4>3. Cutter(ms, B, p, m)
        BY <1>7, <1>9, <3>4, <4>2
      <4> DEFINE new == [node EXCEPT !.replace = TRUE, !.replace_owner = m]
      <4>4. new.kind = node.kind /\ new.owner = node.owner /\ new.replace = TRUE /\ new.replace_owner = m
        BY DEF Nodes
      <4> HIDE DEF new
      <4>5. GrownAt(new, ms, B, p)
        BY <1>5, <1>6, <3>1, <3>2, <3>4, <4>1, <4>3, <4>4 DEF GrownAt
      <4> QED BY <4>5 DEF new
    <3> QED BY <3>2, <3>3, <3>4
  <2> QED BY <2>2, <2>3
<1> QED BY <1>8, <1>9 DEF B

\* Collecting one more module makes the tree that of one more.
LEMMA CollectGrows ==
    ASSUME NEW A, NEW m \in Nat, Forest(modules, A \cup {m}), \A i \in A : i < m,
           Grown(tree, modules, A)
    PROVE  Grown(collect_into(modules[m], m), modules, A \cup {m})
<1> DEFINE t == modules[m]
           new == collect_into(t, m)
<1>1. Forest(modules, A) /\ IsTree(t)
  BY DEF Forest
<1>2. tree \in [Whole -> Nodes] /\ tree[Root] = Absent /\ Root \in Whole
  BY Rooted DEF Grown
<1> HIDE DEF t
<1>3. new = [p \in Whole |->
              IF p = Root \/ t[p] = "none" \/ ~Enters(t, Parent[p]) THEN tree[p]
              ELSE IF tree[p].kind = "none" THEN Node(t, p, m)
              ELSE IF tree[p].kind # "dir" \/ tree[p].replace \/ t[p] = "dir" THEN tree[p]
              ELSE [tree[p] EXCEPT !.replace = TRUE, !.replace_owner = m]]
  BY DEF collect_into
<1> HIDE DEF new
<1>4. new[Root] = Absent
  BY <1>2, <1>3
<1>5. ASSUME NEW p \in Paths
      PROVE  new[p] \in Nodes /\ GrownAt(new[p], modules, A \cup {m}, p)
  <2>1. p \in Whole /\ p # Root /\ t[p] \in Kinds
    BY <1>1, Rooted DEF IsTree
  <2> DEFINE node == tree[p]
  <2>2. node \in Nodes /\ GrownAt(node, modules, A, p) /\ node.replace \in BOOLEAN
    BY <1>2, <2>1 DEF Grown, Nodes
  <2>3. t[p] # "none" => (Enters(t, Parent[p]) <=> Free(modules, A, Root, p))
    BY <1>1, <1>2, <2>1, EntersOpen, OpenIsFree
  <2>4. new[p] = IF t[p] = "none" \/ ~Free(modules, A, Root, p) THEN node
                 ELSE IF node.kind = "none" THEN Node(t, p, m)
                 ELSE IF node.kind # "dir" \/ node.replace = TRUE \/ t[p] = "dir" THEN node
                 ELSE [node EXCEPT !.replace = TRUE, !.replace_owner = m]
    BY <1>3, <2>1, <2>2, <2>3
  <2>5. Node(t, p, m) \in Nodes /\ [node EXCEPT !.replace = TRUE, !.replace_owner = m] \in Nodes
    BY <2>1, <2>2, NodeIs DEF Nodes
  <2> HIDE DEF node
  <2>6. new[p] \in Nodes
    BY <2>2, <2>4, <2>5
  <2>7. /\ t[p] = "none" \/ ~Free(modules, A, Root, p) => GrownAt(node, modules, A \cup {m}, p)
        /\ (t[p] # "none" /\ Free(modules, A, Root, p)) =>
             /\ node.kind = "none" => GrownAt(Node(t, p, m), modules, A \cup {m}, p)
             /\ node.kind # "none" =>
                  /\ (node.kind # "dir" \/ node.replace = TRUE \/ t[p] = "dir") => GrownAt(node, modules, A \cup {m}, p)
                  /\ (node.kind = "dir" /\ node.replace = FALSE /\ t[p] # "dir") =>
                       GrownAt([node EXCEPT !.replace = TRUE, !.replace_owner = m], modules, A \cup {m}, p)
    BY <2>2, NodeSteps DEF t
  <2> QED BY <2>2, <2>4, <2>6, <2>7
<1>6. new \in [Whole -> Nodes]
  <2>1. \A p \in Whole : new[p] \in Nodes
    BY <1>2, <1>4, <1>5, Rooted
  <2> QED BY <1>3, <2>1
<1> QED BY <1>4, <1>5, <1>6 DEF Grown, new, t

-----------------------------------------------------------------------------
(* What is shown is all connected.                                           *)

LEMMA MergedRoot ==
    ASSUME NEW ms, NEW A, Forest(ms, A), NEW e, Shows(e) = Directory, NEW dir
    PROVE  Merged(ms, A, e, dir, Root) = Directory
<1>1. A \in SUBSET Nat /\ \A i \in A : ms[i][Root] \in {"none"} \cup Dirs
  BY DEF Forest, IsTree
<1>2. Free(ms, A, dir, Root)
  BY Rooted DEF Free
<1>3. CASE \E i \in A : Top(ms, A, dir, Root, i)
  <2>1. PICK i \in A : Top(ms, A, dir, Root, i)
    BY <1>3
  <2>2. ms[i][Root] \in Dirs
    BY <1>1, <2>1 DEF Top
  <2>3. Merged(ms, A, e, dir, Root) = Shows(<<ms[i][Root], i>>)
    BY <1>1, <2>1, OneTop
  <2> QED BY <2>2, <2>3 DEF Shows, Dirs
<1>4. CASE ~ \E i \in A : Top(ms, A, dir, Root, i)
  <2>1. Lets(ms, A, dir, Root)
    BY <1>1, <1>2, <1>4, ThreeWays
  <2> QED BY <1>4, <2>1 DEF Merged
<1> QED BY <1>3, <1>4

\* A module that shows below a directory shows it, or one above it does.
LEMMA TopConnected ==
    ASSUME NEW ms, NEW A, Forest(ms, A), NEW p \in Paths, NEW q \in Above[p] \cap Below(Root),
           NEW i \in A, Top(ms, A, Root, p, i)
    PROVE  \E j \in A : Top(ms, A, Root, q, j) /\ ms[j][q] \in Dirs
<1>1. A \in SUBSET Nat /\ i \in Nat /\ IsTree(ms[i]) /\ p \in Whole
  BY Rooted DEF Forest
<1>2. q \in Whole /\ \A r \in Above[q] : r \in Above[p]
  BY <1>1, AboveAll
<1>3. ms[i][q] \in Dirs /\ ms[i][q] # "none"
  BY <1>1 DEF Top, IsTree, Dirs
<1>4. Free(ms, Upper(A, i), Root, q)
  BY <1>2 DEF Top, Free
<1>5. PICK j \in A : Top(ms, A, Root, q, j) /\ j <= i
  BY <1>1, <1>3, <1>4, SomeTop
<1>6. j = i \/ j \in Upper(A, i)
  BY <1>1, <1>5 DEF Upper
<1>7. j \in Upper(A, i) => ms[j][q] \in {"none", "dir"}
  BY DEF Top, Free
<1> QED BY <1>3, <1>5, <1>6, <1>7 DEF Top, Dirs

\* Where something is shown, the way to it is.
LEMMA MergedConnected ==
    ASSUME NEW ms, NEW A, Forest(ms, A), NEW p \in Paths, NEW q \in Above[p], NEW e, NEW f,
           Shows(e) # Nothing => Shows(f) = Directory, Merged(ms, A, e, Root, p) # Nothing,
           q = Root => Shows(f) = Directory
    PROVE  Merged(ms, A, f, Root, q) = Directory
<1>1. A \in SUBSET Nat /\ \A i \in A : IsTree(ms[i]) /\ i \in Nat
  BY DEF Forest
<1>2. CASE q = Root
  BY <1>2, MergedRoot
<1>3. CASE q # Root
  <2>1. p \in Whole /\ q \in Above[p] \cap Below(Root) /\ \A r \in Above[q] : r \in Above[p]
    BY <1>3, Rooted, AboveAll
  <2>2. CASE \E i \in A : Top(ms, A, Root, p, i)
    <3>1. PICK i \in A : Top(ms, A, Root, p, i)
      BY <2>2
    <3>2. PICK j \in A : Top(ms, A, Root, q, j) /\ ms[j][q] \in Dirs
      BY <2>1, <3>1, TopConnected
    <3>3. Merged(ms, A, f, Root, q) = Shows(<<ms[j][q], j>>)
      BY <1>1, <3>2, OneTop
    <3> QED BY <3>2, <3>3 DEF Shows, Dirs
  <2>3. CASE ~ \E i \in A : Top(ms, A, Root, p, i)
    <3>1. Lets(ms, A, Root, p) /\ Shows(e) # Nothing
      BY <1>1, <2>3, NoTop
    <3>2. Free(ms, A, Root, q) /\ \A i \in A : ms[i][q] \in {"none", "dir"}
      BY <2>1, <3>1 DEF Lets, Free
    <3>3. CASE \E j \in A : Top(ms, A, Root, q, j)
      <4>1. PICK j \in A : Top(ms, A, Root, q, j)
        BY <3>3
      <4>2. ms[j][q] = "dir"
        BY <3>2, <4>1 DEF Top
      <4>3. Merged(ms, A, f, Root, q) = Shows(<<ms[j][q], j>>)
        BY <1>1, <4>1, OneTop
      <4> QED BY <4>2, <4>3 DEF Shows, Dirs
    <3>4. CASE ~ \E j \in A : Top(ms, A, Root, q, j)
      <4>1. Lets(ms, A, Root, q)
        BY <1>1, <3>2, <3>4, ThreeWays
      <4> QED BY <1>1, <3>1, <4>1, NoTop
    <3> QED BY <3>3, <3>4
  <2> QED BY <2>2, <2>3
<1> QED BY <1>2, <1>3

-----------------------------------------------------------------------------
(* Magic Mount's walk.                                                       *)

LEMMA StockRoot == Shows(<<"dir", 0>>) = Directory /\ Shows(Directory) = Directory /\ Shows(Nothing) = Nothing
BY DEF Shows, Directory, Nothing, Dirs

\* Stock stays where no module cuts it off.
LEMMA StaysFree ==
    ASSUME NEW A, Forest(modules, A), Grown(tree, modules, A), IsTree(stock),
           NEW p \in Paths, stock[p] # "none"
    PROVE  StockStays(p) <=> Free(modules, A, Root, p)
<1>1. p \in Whole /\ \A q \in Above[p] : q \in Whole /\ stock[q] \in Dirs
  BY Rooted, AboveAll DEF IsTree
<1>2. \A q \in Whole : tree[q].replace \in BOOLEAN
  BY DEF Grown, Nodes
<1>3. ASSUME NEW q \in Above[p]
      PROVE  Mirrored(q) <=> (q # Root => tree[q].kind = "none" \/ (tree[q].kind = "dir" /\ tree[q].replace = FALSE))
  <2>1. CASE q = Root
    <3>1. tree[q].kind = "none"
      BY <2>1 DEF Grown, Absent
    <3>2. q \notin Skeleton
      BY <2>1, Rooted DEF Skeleton
    <3> QED BY <1>1, <2>1, <3>1, <3>2 DEF Mirrored
  <2>2. CASE q # Root
    <3>1. q \in Paths /\ q \in Whole
      BY <1>1, <2>2, Rooted
    <3>2. tree[q].kind = "dir" /\ tree[q].replace => q \in Skeleton
      BY <2>2, <3>1 DEF Skeleton, Builds
    <3>3. tree[q].replace = TRUE => tree[q].kind = "dir"
      BY <3>1 DEF Grown, GrownAt
    <3> QED BY <1>1, <1>2, <2>2, <3>1, <3>2, <3>3 DEF Mirrored
  <2> QED BY <2>1, <2>2
<1>4. StockStays(p) <=> Open(tree, p)
  BY <1>3 DEF StockStays, Open
<1> QED BY <1>1, <1>4, OpenIsFree

\* The walk makes what the modules' layers show above stock.
LEMMA MagicShows ==
    ASSUME NEW A, Forest(modules, A), Grown(tree, modules, A), IsTree(stock), stock[Root] = "dir",
           NEW p \in Whole
    PROVE  MagicView[p] = Merged(modules, A, <<stock[p], 0>>, Root, p)
<1>0. A \in SUBSET Nat
  BY DEF Forest
<1>1. MagicView[p] = IF p # Root /\ tree[p].kind # "none" THEN Shows(<<tree[p].kind, tree[p].owner>>)
                     ELSE IF StockStays(p) THEN Shows(<<stock[p], 0>>) ELSE Nothing
  BY DEF MagicView
<1>2. CASE p = Root
  <2>1. StockStays(p)
    BY <1>2, Rooted DEF StockStays
  <2>2. MagicView[p] = Directory /\ Shows(<<stock[p], 0>>) = Directory
    BY <1>1, <1>2, <2>1, StockRoot
  <2> QED BY <1>2, <2>2, MergedRoot
<1>3. CASE p # Root
  <2>1. p \in Paths /\ GrownAt(tree[p], modules, A, p)
    BY <1>3, Rooted DEF Grown
  <2>2. CASE \E i \in A : Top(modules, A, Root, p, i)
    <3>1. PICK i \in A : Top(modules, A, Root, p, i)
      BY <2>2
    <3>2. tree[p].kind = Plain(modules[i][p]) /\ tree[p].owner = i /\ modules[i][p] # "none"
      BY <2>1, <3>1 DEF GrownAt, Top
    <3>3. Shows(<<Plain(modules[i][p]), i>>) = Shows(<<modules[i][p], i>>)
      BY DEF Shows, Plain, Dirs
    <3>4. MagicView[p] = Shows(<<modules[i][p], i>>)
      BY <1>1, <1>3, <3>2, <3>3 DEF Plain
    <3> QED BY <1>0, <3>1, <3>4, OneTop
  <2>3. CASE ~ \E i \in A : Top(modules, A, Root, p, i)
    <3>1. tree[p].kind = "none"
      BY <2>1, <2>3 DEF GrownAt, Absent
    <3>2. Free(modules, A, Root, p) <=> Lets(modules, A, Root, p)
      BY <1>0, <2>3, ThreeWays DEF Lets
    <3>3. CASE stock[p] = "none"
      <4>1. Shows(<<stock[p], 0>>) = Nothing
        BY <3>3, StockRoot DEF Nothing
      <4>2. MagicView[p] = Nothing
        BY <1>1, <3>1, <4>1
      <4> QED BY <1>0, <2>3, <4>1, <4>2, NoTop
    <3>4. CASE stock[p] # "none"
      <4>1. StockStays(p) <=> Lets(modules, A, Root, p)
        BY <2>1, <3>2, <3>4, StaysFree
      <4>2. MagicView[p] = IF StockStays(p) THEN Shows(<<stock[p], 0>>) ELSE Nothing
        BY <1>1, <3>1
      <4>3. Merged(modules, A, <<stock[p], 0>>, Root, p)
              = IF Lets(modules, A, Root, p) THEN Shows(<<stock[p], 0>>) ELSE Nothing
        BY <2>3 DEF Merged
      <4> QED BY <4>1, <4>2, <4>3
    <3> QED BY <3>3, <3>4
  <2> QED BY <2>2, <2>3
<1> QED BY <1>2, <1>3

\* The nodes of the merged tree are in directories of it.
LEMMA NodesConnected ==
    ASSUME NEW A, Forest(modules, A), Grown(tree, modules, A), NEW p \in Paths, tree[p].kind # "none"
    PROVE  p \in Leaves \/ tree[Parent[p]].kind = "dir"
<1>1. GrownAt(tree[p], modules, A, p) /\ p \in Whole
  BY Rooted DEF Grown
<1>2. PICK i \in A : Top(modules, A, Root, p, i)
  BY <1>1 DEF GrownAt, Absent
<1> DEFINE q == Parent[p]
<1>3. q \in Above[p] /\ q \in Whole
  BY <1>1, PathAssumption, AboveAll
<1>4. CASE q = Root
  BY <1>4 DEF Leaves, Level
<1>5. CASE q # Root
  <2>1. q \in Paths /\ q \in Above[p] \cap Below(Root)
    BY <1>1, <1>3, <1>5, Rooted
  <2>2. PICK j \in A : Top(modules, A, Root, q, j) /\ modules[j][q] \in Dirs
    BY <1>2, <2>1, TopConnected
  <2>3. tree[q].kind = Plain(modules[j][q])
    BY <2>1, <2>2 DEF Grown, GrownAt
  <2> QED BY <2>2, <2>3 DEF Plain, Dirs
<1> QED BY <1>4, <1>5

\* What is not there to be bound over is built in a skeleton.
LEMMA NeedsBuilt ==
    ASSUME NEW A, Forest(modules, A), Grown(tree, modules, A), ~Refused,
           NEW p \in Paths, tree[p].kind # "none", Needs(p)
    PROVE  InSkeleton(p)
<1> DEFINE q == Parent[p]
<1>1. p \in Whole /\ q \in Above[p] /\ p \in Children(q)
  BY Rooted, PathAssumption DEF Children, Level
<1>2. q # Root
  BY <1>1 DEF Refused
<1>3. q \in Paths /\ tree[q].kind = "dir"
  BY <1>1, <1>2, NodesConnected, Rooted, AboveAll DEF Leaves, Level
<1>4. q \in Skeleton
  BY <1>1, <1>2, <1>3 DEF Skeleton, Builds
<1> QED BY <1>1, <1>4 DEF InSkeleton

\* Who shows something else than stock is credited.
LEMMA TopCredited ==
    ASSUME NEW A, Forest(modules, A), Grown(tree, modules, A), ~Refused, NEW p \in Paths,
           NEW m \in A, Top(modules, A, Root, p, m), Shows(<<stock[p], 0>>) # Shows(<<modules[m][p], m>>)
    PROVE  m \in contribution_owners
<1>1. tree[p].kind = Plain(modules[m][p]) /\ tree[p].owner = m /\ modules[m][p] # "none"
  BY DEF Grown, GrownAt, Top
<1>2. modules[m][p] \in Kinds
  BY Rooted DEF Forest, IsTree
<1>3. Needs(p) => InSkeleton(p)
  BY <1>1, NeedsBuilt DEF Plain
<1>4. CASE modules[m][p] = "file"
  BY <1>1, <1>4 DEF contribution_owners, Plain
<1>5. CASE modules[m][p] \in {"link", "link to directory"}
  <2>1. tree[p].kind \in {"link", "link to directory"} /\ Needs(p)
    BY <1>1, <1>5 DEF Plain, Needs
  <2> QED BY <1>1, <1>3, <2>1 DEF contribution_owners
<1>6. CASE modules[m][p] = "whiteout"
  <2>1. stock[p] # "none"
    <3>1. Shows(<<"whiteout", m>>) = Nothing /\ Shows(<<"none", 0>>) = Nothing
      BY NothingShows
    <3> QED BY <1>6, <3>1
  <2>2. tree[p].kind = "whiteout" /\ Needs(p)
    BY <1>1, <1>6, <2>1 DEF Plain, Needs
  <2> QED BY <1>1, <1>3, <2>1, <2>2 DEF contribution_owners
<1>7. CASE modules[m][p] \in Dirs
  <2>1. stock[p] # "dir"
    BY <1>7 DEF Shows, Dirs
  <2>2. tree[p].kind = "dir" /\ Needs(p)
    BY <1>1, <1>7, <2>1 DEF Plain, Needs, Dirs
  <2> QED BY <1>1, <1>3, <2>1, <2>2 DEF contribution_owners
<1> QED BY <1>1, <1>2, <1>4, <1>5, <1>6, <1>7 DEF Kinds, Dirs

\* Who cuts off something of stock is credited.
LEMMA CutterCredited ==
    ASSUME NEW A, Forest(modules, A), Grown(tree, modules, A), ~Refused, NEW p \in Paths,
           NEW m \in A, Cutter(modules, A, p, m), stock[p] \in Dirs
    PROVE  m \in contribution_owners
<1>1. A \in SUBSET Nat /\ m \in Nat
  BY DEF Forest
<1>2. modules[m][p] \notin {"none", "dir"} /\ Free(modules, Upper(A, m), Root, p)
  BY DEF Cutter
<1>3. PICK i \in A : Top(modules, A, Root, p, i) /\ i <= m
  BY <1>1, <1>2, SomeTop
<1>4. tree[p].kind = Plain(modules[i][p]) /\ tree[p].owner = i
  BY <1>3 DEF Grown, GrownAt
<1>5. CASE tree[p].kind = "dir"
  <2>1. tree[p].replace = TRUE /\ tree[p].replace_owner = m
    BY <1>5 DEF Grown, GrownAt
  <2>2. p \in Skeleton
    BY <1>5, <2>1, Rooted DEF Skeleton, Builds
  <2> QED BY <2>1, <2>2 DEF contribution_owners
<1>6. CASE tree[p].kind # "dir"
  <2>1. i = m
    <3>1. i \in Nat /\ (i = m \/ i \in Upper(A, m))
      BY <1>1, <1>3 DEF Upper
    <3>2. i \in Upper(A, m) => modules[i][p] \in {"none", "dir"}
      BY DEF Cutter
    <3> QED BY <1>3, <1>4, <1>6, <3>1, <3>2 DEF Top, Plain
  <2>2. modules[m][p] \notin Dirs
    BY <1>4, <1>6, <2>1 DEF Plain, Dirs
  <2>3. Shows(<<stock[p], 0>>) = Directory /\ Shows(<<modules[m][p], m>>) # Directory
    BY <2>2 DEF Shows, Dirs, Directory, Nothing
  <2> QED BY <1>3, <2>1, <2>3, TopCredited
<1> QED BY <1>5, <1>6

\* Whoever makes a difference to what shows of stock is credited.
LEMMA ContributorsCredited ==
    ASSUME Width \in Nat, NEW A \in SUBSET (1 .. Width), A = Given("magic"),
           Forest(modules, A), Grown(tree, modules, A), ~Refused,
           IsTree(stock), stock[Root] = "dir", NEW m \in A, Contributes(m)
    PROVE  m \in contribution_owners
<1> DEFINE B == Upper(A, m)
           C == A \cap 1 .. m
           e(p) == <<stock[p], 0>>
           Over(n) == Stacked(Layers(Given("magic") \cap 1 .. n) \o <<Layer(stock, 0)>>, Root)
<1>1. m \in Nat /\ A \in SUBSET Nat /\ m \in C /\ C \in SUBSET (1 .. Width) /\ C \in SUBSET Nat
      /\ B \in SUBSET (1 .. Width) /\ B \in SUBSET Nat
  BY DEF Upper
<1>2. A \cap 1 .. m - 1 = B /\ \A i : i \in C <=> i \in B \/ i = m
  <2>1. \A i \in A : (i \in 1 .. m - 1 <=> i < m) /\ (i \in 1 .. m <=> i < m \/ i = m)
    BY <1>1
  <2> QED BY <1>1, <2>1 DEF Upper
<1>3. Upper(C, m) = B /\ \A i \in B : Upper(C, i) = Upper(B, i)
  <2>1. \A i \in B : i < m /\ i \in Nat /\ ~(m < i)
    BY <1>1 DEF Upper
  <2>2. ~(m < m)
    BY <1>1
  <2> HIDE DEF B, C
  <2> QED BY <1>2, <2>1, <2>2 DEF Upper
<1>4. Over(m) # Over(m - 1)
  BY DEF Contributes
<1>5. Forest(modules, B) /\ Forest(modules, C)
  BY DEF Forest, Upper
<1> HIDE DEF B, C
<1>6. \A p \in Whole : /\ Over(m)[p] = Merged(modules, C, e(p), Root, p)
                     /\ Over(m - 1)[p] = Merged(modules, B, e(p), Root, p)
  <2>1. Given("magic") \cap 1 .. m = C /\ Given("magic") \cap 1 .. m - 1 = B
    BY <1>2 DEF C
  <2>2. \A p \in Whole : Layer(stock, 0)[p] = e(p) /\ p \in From(Root)
    BY Rooted DEF Layer
  <2> HIDE DEF e
  <2> TAKE p \in Whole
  <2>3. Root \in Whole /\ p \in From(Root)
    BY Rooted
  <2>4. Stacked(Layers(C) \o <<Layer(stock, 0)>>, Root)[p] = Merged(modules, C, Layer(stock, 0)[p], Root, p)
    BY <1>1, <2>3, LayersOver
  <2>5. Stacked(Layers(B) \o <<Layer(stock, 0)>>, Root)[p] = Merged(modules, B, Layer(stock, 0)[p], Root, p)
    BY <1>1, <2>3, LayersOver
  <2> QED BY <2>1, <2>2, <2>4, <2>5
<1>7. Over(m) = [p \in Whole |-> Over(m)[p]] /\ Over(m - 1) = [p \in Whole |-> Over(m - 1)[p]]
  BY Rooted DEF Stacked
<1> HIDE DEF Over
<1>8. PICK p \in Whole : Merged(modules, C, e(p), Root, p) # Merged(modules, B, e(p), Root, p)
  BY <1>4, <1>6, <1>7
<1>9. p \in Paths
  <2>1. p = Root => Shows(e(p)) = Directory
    BY StockRoot
  <2> QED BY <1>5, <1>8, <2>1, MergedRoot, Rooted
<1> HIDE DEF e
<1>10. \A i \in B : Top(modules, B, Root, p, i) <=> Top(modules, C, Root, p, i)
  BY <1>2, <1>3 DEF Top
<1>11. ~ \E i \in B : Top(modules, B, Root, p, i)
  <2>1. ASSUME NEW i \in B, Top(modules, B, Root, p, i) PROVE FALSE
    <3>1. Top(modules, C, Root, p, i) /\ i \in C
      BY <1>2, <1>10, <2>1
    <3>2. Merged(modules, B, e(p), Root, p) = Shows(<<modules[i][p], i>>)
      BY <1>1, <2>1, OneTop
    <3>3. Merged(modules, C, e(p), Root, p) = Shows(<<modules[i][p], i>>)
      BY <1>1, <3>1, OneTop
    <3> QED BY <1>8, <3>2, <3>3
  <2> QED BY <2>1
<1>12. CASE Top(modules, C, Root, p, m)
  <2>1. Top(modules, A, Root, p, m) /\ Lets(modules, B, Root, p)
    BY <1>3, <1>12 DEF Top, Lets, B
  <2>2. Merged(modules, C, e(p), Root, p) = Shows(<<modules[m][p], m>>)
    BY <1>1, <1>12, OneTop
  <2>3. Merged(modules, B, e(p), Root, p) = Shows(e(p))
    BY <1>1, <2>1, NoTop
  <2> QED BY <1>8, <1>9, <2>1, <2>2, <2>3, TopCredited DEF e
<1>13. CASE ~Top(modules, C, Root, p, m)
  <2>1. ~ \E i \in C : Top(modules, C, Root, p, i)
    BY <1>2, <1>10, <1>11, <1>13
  <2>2. Lets(modules, C, Root, p) => Lets(modules, B, Root, p)
    BY <1>2 DEF Lets, Free
  <2>3. Merged(modules, C, e(p), Root, p) = IF Lets(modules, C, Root, p) THEN Shows(e(p)) ELSE Nothing
    BY <1>1, <2>1, NoTop
  <2>4. Merged(modules, B, e(p), Root, p) = IF Lets(modules, B, Root, p) THEN Shows(e(p)) ELSE Nothing
    BY <1>1, <1>11, NoTop
  <2>5. Lets(modules, B, Root, p) /\ ~Lets(modules, C, Root, p) /\ Shows(e(p)) # Nothing
    BY <1>8, <2>2, <2>3, <2>4
  <2>6. ~Free(modules, C, Root, p)
    BY <1>1, <2>1, <2>5, ThreeWays
  <2>7. PICK q \in Above[p] \cap Below(Root) : modules[m][q] \notin {"none", "dir"}
    BY <1>2, <2>5, <2>6 DEF Lets, Free
  <2>8. q \in Paths /\ \A r \in Above[q] : r \in Above[p]
    BY <2>7, Rooted, AboveAll
  <2>9. Cutter(modules, A, q, m)
    BY <2>5, <2>7, <2>8 DEF Cutter, Lets, Free, B
  <2>10. stock[q] \in Dirs
    <3>1. stock[p] # "none"
      BY <2>5, StockRoot DEF e, Nothing
    <3> QED BY <1>9, <2>7, <3>1 DEF IsTree
  <2> QED BY <2>8, <2>9, <2>10, CutterCredited
<1> QED BY <1>12, <1>13

-----------------------------------------------------------------------------
(* What OverlayFS selects.                                                   *)

\* A leaf is right below the root, and every path is at or below just one.
LEMMA LeavesAre ==
    /\ \A leaf \in Leaves : leaf \in Paths /\ leaf \in Whole /\ leaf # Root /\ Above[leaf] = {Root}
    /\ \A p \in Paths : \E leaf \in Leaves : p \in From(leaf)
    /\ \A leaf \in Leaves : \A p \in From(leaf) : p \in Paths /\ p \in Whole
    /\ \A leaf, other \in Leaves : \A p : p \in From(leaf) /\ p \in From(other) => leaf = other
<1>1. ASSUME NEW leaf \in Leaves
      PROVE  leaf \in Paths /\ leaf \in Whole /\ leaf # Root /\ Above[leaf] = {Root}
  <2>1. leaf \in Paths /\ Parent[leaf] = Root
    BY <1>1 DEF Leaves, Level
  <2> QED BY <2>1, Rooted, PathAssumption
<1>2. ASSUME NEW p \in Paths PROVE \E leaf \in Leaves : p \in From(leaf)
  <2>1. PICK q \in {p} \cup Above[p] : q # Root /\ Parent[q] = Root
    BY PathAssumption
  <2>2. p \in Whole /\ q \in Whole /\ q \in Paths
    BY <2>1, Rooted, AboveAll
  <2>3. q \in Leaves
    BY <2>1, <2>2 DEF Leaves, Level
  <2>4. p \in From(q)
    BY <2>2 DEF From, Below
  <2> QED BY <2>3, <2>4
<1>3. ASSUME NEW leaf \in Leaves, NEW p \in From(leaf) PROVE p \in Paths /\ p \in Whole
  BY <1>1, AboveAll DEF From, Below
<1>4. ASSUME NEW leaf \in Leaves, NEW other \in Leaves, NEW p, p \in From(leaf), p \in From(other)
      PROVE  leaf = other
  <2>1. leaf # Root /\ other # Root /\ Above[leaf] = {Root} /\ Above[other] = {Root} /\ p \in Whole
    BY <1>1, <1>3, <1>4
  <2>2. (p = leaf \/ leaf \in Above[p]) /\ (p = other \/ other \in Above[p])
    BY <1>4 DEF From, Below
  <2>3. leaf \notin Above[other] /\ other \notin Above[leaf]
    BY <2>1
  <2>4. leaf \in Above[p] /\ other \in Above[p] => leaf = other
    BY <2>1, <2>3, AboveAll
  <2> QED BY <2>2, <2>3, <2>4
<1> QED BY <1>1, <1>2, <1>3, <1>4

\* The way from a leaf to a path below it.
LEMMA BetweenIs ==
    ASSUME NEW leaf \in Leaves, NEW c \in From(leaf)
    PROVE  \A q : q \in Between(leaf, c) <=> q = c \/ q \in Above[c] \cap Below(Root)
<1>1. c \in Paths /\ c \in Whole /\ Above[leaf] = {Root} /\ leaf # Root /\ leaf \in Whole
  BY LeavesAre
<1>2. c = leaf \/ leaf \in Above[c]
  BY DEF From, Below
<1>3. ASSUME NEW q \in Above[c] PROVE q \in From(leaf) <=> q \in Below(Root)
  <2>1. q \in Whole /\ (q \in Paths <=> q \in Below(Root)) /\ (q \in Paths \/ q = Root)
    BY <1>1, Rooted, AboveAll
  <2>2. c = leaf => q = Root
    BY <1>1
  <2>3. leaf \in Above[c] => q = leaf \/ q \in Below(leaf) \/ q = Root
    BY <1>1, <2>1, AboveAll DEF Below
  <2>4. Root \notin From(leaf) /\ Root \notin Below(Root)
    BY <1>1, Rooted DEF From, Below
  <2> QED BY <1>2, <2>1, <2>2, <2>3, <2>4 DEF From
<1> QED BY <1>3 DEF Between

LEMMA MergedShows ==
    \A ms, A, e, dir, p : Shows(Merged(ms, A, e, dir, p)) = Merged(ms, A, e, dir, p)
<1> TAKE ms, A, e, dir, p
<1>1. Merged(ms, A, e, dir, p) = Shows(<<ms[TopOf(ms, A, dir, p)][p], TopOf(ms, A, dir, p)>>)
      \/ Merged(ms, A, e, dir, p) = Shows(e) \/ Merged(ms, A, e, dir, p) = Nothing
  BY DEF Merged
<1> QED BY <1>1, ShowsTwice, StockRoot

LEMMA ShowsTyped ==
    ASSUME NEW n \in Nat, NEW e \in Kinds \X (0 .. n)
    PROVE  Shows(e) \in Kinds \X (0 .. n)
<1>1. 0 \in 0 .. n
  OBVIOUS
<1>2. Nothing \in Kinds \X (0 .. n) /\ Directory \in Kinds \X (0 .. n)
  BY <1>1 DEF Nothing, Directory, Kinds
<1>3. Shows(e) = Nothing \/ Shows(e) = Directory \/ Shows(e) = e
  BY DEF Shows
<1> QED BY <1>2, <1>3

LEMMA MergedTyped ==
    ASSUME NEW n \in Nat, NEW A \in SUBSET (1 .. n), NEW ms, Forest(ms, A),
           NEW e \in Kinds \X (0 .. n), NEW dir, NEW p \in Whole
    PROVE  Merged(ms, A, e, dir, p) \in Kinds \X (0 .. n)
<1>1. A \in SUBSET Nat
  BY DEF Forest
<1>2. CASE \E i \in A : Top(ms, A, dir, p, i)
  <2>1. PICK i \in A : Top(ms, A, dir, p, i)
    BY <1>2
  <2>2. ms[i][p] \in Kinds
    BY DEF Forest, IsTree
  <2>3. i \in 0 .. n
    OBVIOUS
  <2>4. <<ms[i][p], i>> \in Kinds \X (0 .. n)
    BY <2>2, <2>3
  <2> QED BY <1>1, <2>1, <2>4, OneTop, ShowsTyped
<1>3. CASE ~ \E i \in A : Top(ms, A, dir, p, i)
  <2>1. Merged(ms, A, e, dir, p) = Shows(e) \/ Merged(ms, A, e, dir, p) = Nothing
    BY <1>3 DEF Merged
  <2>2. 0 \in 0 .. n
    OBVIOUS
  <2>3. Nothing \in Kinds \X (0 .. n)
    BY <2>2 DEF Nothing, Kinds
  <2> QED BY <2>1, <2>3, ShowsTyped
<1> QED BY <1>2, <1>3

\* A module that neither has the directory nor cuts it off has nothing there.
LEMMA Blank ==
    ASSUME NEW t, IsTree(t), NEW leaf \in Leaves, NEW c \in From(leaf), ~Cuts(t, leaf, c),
           NEW p \in From(c)
    PROVE  /\ HasDir(t, leaf, c) => \A q \in Between(leaf, c) : t[q] = "dir"
           /\ ~HasDir(t, leaf, c) =>
                t[p] = "none" /\ \A q \in Above[p] \cap Below(Root) : t[q] \in {"none", "dir"}
<1>1. \A q \in Between(leaf, c) : t[q] \in {"none", "dir"}
  BY DEF Cuts
<1>2. HasDir(t, leaf, c) => \A q \in Between(leaf, c) : t[q] = "dir"
  BY <1>1 DEF HasDir, Dirs
<1>3. c \in Paths /\ c \in Whole /\ p \in Paths /\ p \in Whole /\ (p = c \/ (p \in Below(c) /\ c \in Above[p]))
  <2>1. c \in Paths /\ c \in Whole
    BY LeavesAre
  <2> QED BY <2>1, AboveAll DEF From, Below
<1>4. ASSUME ~HasDir(t, leaf, c) PROVE t[c] = "none"
  <2>1. PICK q \in Between(leaf, c) : t[q] = "none"
    BY <1>1, <1>4 DEF HasDir, Dirs
  <2>2. q = c \/ q \in Above[c]
    BY <2>1, BetweenIs
  <2> QED BY <1>3, <2>1, <2>2 DEF IsTree, Dirs
<1>5. ASSUME ~HasDir(t, leaf, c), NEW q \in Whole, c \in Above[q] PROVE t[q] = "none"
  <2>1. t[c] = "none" /\ q \in Paths
    BY <1>4, <1>5, AboveAll
  <2> QED BY <1>5, <2>1 DEF IsTree, Dirs
<1>6. ASSUME ~HasDir(t, leaf, c), NEW q \in Above[p] \cap Below(Root) PROVE t[q] \in {"none", "dir"}
  <2>1. CASE p = c
    BY <1>1, <2>1, BetweenIs
  <2>2. CASE p # c
    <3>1. q \in Whole /\ (q \in Below(c) \/ q = c \/ q \in Above[c])
      BY <1>3, <2>2, AboveAll, WayThrough
    <3>2. q = c \/ q \in Above[c] => q \in Between(leaf, c)
      BY BetweenIs
    <3> QED BY <1>1, <1>5, <1>6, <3>1, <3>2 DEF Below
  <2> QED BY <2>1, <2>2
<1> QED BY <1>2, <1>3, <1>4, <1>5, <1>6

\* A module that does not touch the leaf has no say in what is selected.
LEMMA SelectAll ==
    ASSUME NEW O, NEW leaf \in Leaves, NEW c \in From(leaf), Forest(modules, O),
           \A i \in O : modules[i][leaf] \in {"none"} \cup Dirs
    PROVE  select_layers({i \in O : modules[i][leaf] \in Dirs}, leaf, c) = select_layers(O, leaf, c)
<1> DEFINE T == {i \in O : modules[i][leaf] \in Dirs}
<1>1. ASSUME NEW i \in O, i \notin T
      PROVE  ~HasDir(modules[i], leaf, c) /\ ~Cuts(modules[i], leaf, c)
  <2>1. IsTree(modules[i]) /\ modules[i][leaf] = "none" /\ modules[i][leaf] \notin Dirs
    BY <1>1 DEF Forest
  <2>2. leaf \in Paths /\ \A q \in From(leaf) : q \in Paths /\ (q = leaf \/ leaf \in Above[q])
    BY LeavesAre DEF From, Below
  <2>3. \A q \in From(leaf) : modules[i][q] = "none"
    BY <2>1, <2>2 DEF IsTree
  <2>4. Between(leaf, c) \subseteq From(leaf) /\ leaf \in Between(leaf, c)
    BY DEF Between, From, Below
  <2> QED BY <2>1, <2>3, <2>4 DEF HasDir, Cuts
<1>2. \A i : i \in T => i \in O
  OBVIOUS
<1> HIDE DEF T
<1>3. {i \in T : Cuts(modules[i], leaf, c)} = {i \in O : Cuts(modules[i], leaf, c)}
  BY <1>1, <1>2
<1> DEFINE cutting == {i \in O : Cuts(modules[i], leaf, c)}
<1>4. {i \in T : HasDir(modules[i], leaf, c) /\ \A j \in cutting : i <= j}
        = {i \in O : HasDir(modules[i], leaf, c) /\ \A j \in cutting : i <= j}
  BY <1>1, <1>2
<1> QED BY <1>3, <1>4 DEF select_layers, T

\* What the selected layers show below the directory, and at it if any has it, is
\* what all the modules' layers do.
LEMMA SelectedShows ==
    ASSUME NEW O \in SUBSET Nat, Forest(modules, O), NEW leaf \in Leaves, NEW c \in From(leaf),
           NEW p \in From(c), NEW low, p # c \/ select_layers(O, leaf, c).dirs # {}
    PROVE  Merged(modules, select_layers(O, leaf, c).dirs,
                  IF select_layers(O, leaf, c).include_stock THEN low ELSE Nothing, c, p)
             = Merged(modules, O, low, Root, p)
<1> DEFINE D == select_layers(O, leaf, c).dirs
           included == select_layers(O, leaf, c).include_stock
           cutting == {i \in O : Cuts(modules[i], leaf, c)}
           has == {i \in O : HasDir(modules[i], leaf, c)}
<1>1. D = {i \in has : \A j \in cutting : i <= j} /\ (included <=> cutting = {}) /\ D \in SUBSET Nat
  BY DEF select_layers
<1>0. p # c \/ D # {}
  OBVIOUS
<1> SUFFICES Merged(modules, D, IF included THEN low ELSE Nothing, c, p) = Merged(modules, O, low, Root, p)
  OBVIOUS
<1> HIDE DEF D, included
<1>2. /\ c \in Paths /\ c \in Whole /\ p \in Paths /\ p \in Whole /\ Above[c] \subseteq Whole
      /\ p = c \/ (p \in Below(c) /\ c \in Above[p])
  <2>1. c \in Paths /\ c \in Whole
    BY LeavesAre
  <2> QED BY <2>1, AboveAll DEF From, Below
<1>3. /\ \A q \in Between(leaf, c) : q = c \/ q \in Above[p] \cap Below(Root)
      /\ \A q \in Above[p] \cap Below(c) : q \in Above[p] \cap Below(Root)
      /\ \A q \in Above[p] \cap Below(Root) : q \in Above[p] \cap Below(c) \/ q \in Between(leaf, c)
  <2>1. \A q \in Between(leaf, c) : q = c \/ q \in Above[c] \cap Below(Root)
    BY BetweenIs
  <2>2. \A q \in Above[c] : q \in Above[p]
    BY <1>2, AboveAll
  <2>3. \A q \in Below(c) : q \in Paths
    BY AboveAll DEF Below
  <2>4. ASSUME NEW q \in Above[p] \cap Below(Root)
        PROVE  q \in Above[p] \cap Below(c) \/ q \in Between(leaf, c)
    <3>1. p = c \/ q \in Above[p] \cap Below(c) \/ q = c \/ q \in Above[c]
      BY <1>2, WayThrough
    <3> QED BY <2>4, <3>1, BetweenIs
  <2> QED BY <2>1, <2>2, <2>3, <2>4, Rooted
<1>4. \A i \in O : IsTree(modules[i]) /\ i \in Nat
  BY DEF Forest
<1>5. ASSUME NEW i \in has, i \notin cutting PROVE \A q \in Between(leaf, c) : modules[i][q] = "dir"
  BY <1>4, <1>5, Blank
<1>6. ASSUME NEW i \in O, i \notin has, i \notin cutting
      PROVE  modules[i][p] = "none" /\ \A q \in Above[p] \cap Below(Root) : modules[i][q] \in {"none", "dir"}
  BY <1>4, <1>6, Blank
<1>7. ASSUME NEW i \in cutting, p # c
      PROVE  \E q \in Above[p] \cap Below(Root) : modules[i][q] \notin {"none", "dir"}
  <2>1. PICK q \in Between(leaf, c) : modules[i][q] \notin {"none", "dir"}
    BY DEF Cuts
  <2>2. c \in Above[p] \cap Below(Root)
    BY <1>2, <1>7, Rooted
  <2> QED BY <1>3, <2>1, <2>2
<1>8. \A i : (i \in has => i \in O /\ HasDir(modules[i], leaf, c)) /\ (i \in cutting => i \in O)
             /\ (i \in O /\ HasDir(modules[i], leaf, c) => i \in has)
  OBVIOUS
<1> HIDE DEF has, cutting
<1>9. \A i \in D : \A j \in O : j < i => j \notin cutting /\ (j \in has => j \in D)
  <2> TAKE i \in D
  <2> TAKE j \in O
  <2>1. i \in Nat /\ j \in Nat /\ \A k \in cutting : k \in Nat /\ i <= k
    BY <1>1, <1>4, <1>8
  <2> QED BY <1>1, <2>1
<1>10. CASE p = c
  <2>1. PICK i \in D : \A k \in D : i <= k
    BY <1>0, <1>1, <1>2, <1>10, Least
  <2>2. i \in has /\ i \in O /\ i \in Nat /\ modules[i][c] \in Dirs
    BY <1>1, <1>4, <1>8 DEF HasDir, Between
  <2>3. \A j \in Upper(O, i) : j \in O /\ j \notin cutting /\ j \notin has
    <3> TAKE j \in Upper(O, i)
    <3>1. j \in O /\ j < i /\ j \in Nat
      BY <1>4 DEF Upper
    <3>2. j \notin D
      BY <1>1, <2>1, <2>2, <3>1
    <3> QED BY <1>9, <3>1, <3>2
  <2>4. Top(modules, O, Root, c, i)
    <3>1. modules[i][c] # "none"
      BY <2>2 DEF Dirs
    <3> QED BY <1>6, <1>10, <2>2, <2>3, <3>1 DEF Top, Free
  <2>5. Top(modules, D, c, c, i)
    <3>1. modules[i][c] # "none"
      BY <2>2 DEF Dirs
    <3>2. Upper(D, i) = {}
      <4>1. \A k \in D : k \in Nat /\ ~(k < i)
        BY <1>1, <2>1, <2>2
      <4> QED BY <4>1 DEF Upper
    <3> QED BY <3>1, <3>2 DEF Top, Free
  <2> DEFINE e == IF included THEN low ELSE Nothing
  <2> HIDE DEF e
  <2>6. Merged(modules, D, e, c, c) = Shows(<<modules[i][c], i>>)
    BY <1>1, <2>5, OneTop
  <2>7. Merged(modules, O, low, Root, c) = Shows(<<modules[i][c], i>>)
    BY <2>4, OneTop
  <2>8. Merged(modules, D, e, c, p) = Merged(modules, O, low, Root, p)
    BY <1>10, <2>6, <2>7
  <2> QED BY <2>8 DEF e
<1>11. CASE p # c
  <2>1. ASSUME NEW i, Top(modules, O, Root, p, i) PROVE Top(modules, D, c, p, i)
    <3>1. i \in O /\ modules[i][p] # "none" /\ i \in Nat
      BY <1>4, <2>1 DEF Top
    <3>2. \A q \in Above[p] : modules[i][q] \in Dirs
      BY <1>2, <1>4, <3>1 DEF IsTree
    <3>3. i \in has
      <4>1. \A q \in Between(leaf, c) : q \in Above[p]
        BY <1>2, <1>3, <1>11
      <4> QED BY <1>8, <3>1, <3>2, <4>1 DEF HasDir
    <3>4. \A j \in cutting : ~(j \in Upper(O, i))
      BY <1>7, <1>11, <2>1 DEF Top, Free
    <3>5. \A j \in cutting : i <= j
      <4>1. \A j \in cutting : j \in O /\ j \in Nat
        BY <1>4, <1>8
      <4> QED BY <3>1, <3>4, <4>1 DEF Upper
    <3>6. i \in D /\ \A j \in Upper(D, i) : j \in Upper(O, i)
      BY <1>1, <1>8, <3>3, <3>5 DEF Upper
    <3> QED BY <1>3, <2>1, <3>1, <3>6 DEF Top, Free
  <2>2. ASSUME NEW i, Top(modules, D, c, p, i) PROVE Top(modules, O, Root, p, i)
    <3>1. i \in D /\ i \in O /\ modules[i][p] # "none"
      BY <1>1, <1>8, <2>2 DEF Top
    <3>2. ASSUME NEW j \in Upper(O, i)
          PROVE  modules[j][p] = "none" /\ \A q \in Above[p] \cap Below(Root) : modules[j][q] \in {"none", "dir"}
      <4>1. j \in O /\ j \notin cutting /\ (j \in has => j \in Upper(D, i))
        BY <1>9, <3>1 DEF Upper
      <4>2. CASE j \in has
        BY <1>3, <1>5, <2>2, <4>1, <4>2 DEF Top, Free
      <4>3. CASE j \notin has
        BY <1>6, <4>1, <4>3
      <4> QED BY <4>2, <4>3
    <3> QED BY <3>1, <3>2 DEF Top, Free
  <2>3. Lets(modules, O, Root, p) <=> cutting = {} /\ Lets(modules, D, c, p)
    <3>1. Lets(modules, O, Root, p) => cutting = {}
      BY <1>7, <1>8, <1>11 DEF Lets, Free
    <3>2. Lets(modules, O, Root, p) => Lets(modules, D, c, p)
      BY <1>1, <1>3, <1>8 DEF Lets, Free
    <3>3. ASSUME cutting = {}, Lets(modules, D, c, p) PROVE Lets(modules, O, Root, p)
      <4>1. \A j \in has : j \in D
        BY <1>1, <3>3
      <4>2. ASSUME NEW j \in O
            PROVE  modules[j][p] = "none" /\ \A q \in Above[p] \cap Below(Root) : modules[j][q] \in {"none", "dir"}
        <5>1. CASE j \in has
          BY <1>3, <1>5, <3>3, <4>1, <5>1 DEF Lets, Free
        <5>2. CASE j \notin has
          BY <1>6, <3>3, <5>2
        <5> QED BY <5>1, <5>2
      <4> QED BY <4>2 DEF Lets, Free
    <3> QED BY <3>1, <3>2, <3>3
  <2>4. CASE \E i \in O : Top(modules, O, Root, p, i)
    <3>1. PICK i \in O : Top(modules, O, Root, p, i)
      BY <2>4
    <3>2. Merged(modules, O, low, Root, p) = Shows(<<modules[i][p], i>>)
      BY <3>1, OneTop
    <3>3. Top(modules, D, c, p, i)
      BY <2>1, <3>1
    <3> QED BY <1>1, <3>2, <3>3, OneTop
  <2>5. CASE ~ \E i \in O : Top(modules, O, Root, p, i)
    <3>1. ~ \E i \in D : Top(modules, D, c, p, i)
      BY <2>2, <2>5 DEF Top
    <3>2. Merged(modules, O, low, Root, p) = IF Lets(modules, O, Root, p) THEN Shows(low) ELSE Nothing
      BY <2>5, NoTop
    <3> DEFINE e == IF included THEN low ELSE Nothing
    <3>4. Shows(e) = IF included THEN Shows(low) ELSE Nothing
      BY StockRoot
    <3> HIDE DEF e
    <3>3. Merged(modules, D, e, c, p) = IF Lets(modules, D, c, p) THEN Shows(e) ELSE Nothing
      <4>1. D \in SUBSET Nat
        BY <1>1
      <4> QED BY <3>1, <4>1, NoTop
    <3>5. Merged(modules, D, e, c, p) = Merged(modules, O, low, Root, p)
      BY <1>1, <2>3, <3>2, <3>3, <3>4
    <3> QED BY <3>5 DEF e
  <2> QED BY <2>4, <2>5
<1> QED BY <1>10, <1>11

\* Modules that neither have the directory nor cut it off let through all that is
\* there; where one cuts it off and none has it, nothing shows through.
LEMMA NoneSelected ==
    ASSUME NEW O \in SUBSET Nat, Forest(modules, O), NEW leaf \in Leaves, NEW c \in From(leaf)
    PROVE  /\ (select_layers(O, leaf, c).dirs = {} /\ select_layers(O, leaf, c).include_stock) =>
                \A p \in From(c) : Lets(modules, O, Root, p)
           /\ ~select_layers(O, leaf, c).include_stock => \A p \in From(c) : ~Lets(modules, O, Root, p)
<1> DEFINE cutting == {i \in O : Cuts(modules[i], leaf, c)}
<1>1. /\ select_layers(O, leaf, c).dirs = {i \in O : HasDir(modules[i], leaf, c) /\ \A j \in cutting : i <= j}
      /\ select_layers(O, leaf, c).include_stock = (cutting = {})
  BY DEF select_layers
<1>2. \A i \in O : IsTree(modules[i])
  BY DEF Forest
<1>3. ASSUME cutting = {}, select_layers(O, leaf, c).dirs = {} PROVE \A p \in From(c) : Lets(modules, O, Root, p)
  <2>1. \A i \in O : ~HasDir(modules[i], leaf, c) /\ ~Cuts(modules[i], leaf, c)
    BY <1>1, <1>3
  <2> QED BY <1>2, <2>1, Blank DEF Lets, Free
<1>4. ASSUME cutting # {}, NEW p \in From(c) PROVE ~Lets(modules, O, Root, p)
  <2>1. PICK i \in O : Cuts(modules[i], leaf, c)
    BY <1>4
  <2>2. PICK q \in Between(leaf, c) : modules[i][q] \notin {"none", "dir"}
    BY <2>1 DEF Cuts
  <2>3. c \in Paths /\ c \in Whole /\ (p = c \/ (p \in Whole /\ c \in Above[p]))
    BY LeavesAre DEF From, Below
  <2>4. q = p \/ q \in Above[p] \cap Below(Root)
    <3>1. q = c \/ q \in Above[c] \cap Below(Root)
      BY BetweenIs
    <3>2. p # c => \A r \in Above[c] : r \in Above[p]
      BY <2>3, AboveAll
    <3> QED BY <2>3, <3>1, <3>2, Rooted
  <2> QED BY <2>2, <2>4 DEF Lets, Free
<1> QED BY <1>1, <1>3, <1>4

\* What was shown at a leaf before it was overlaid, with the mounts X left bare.
Bared(shown, X) ==
    [q \in Whole |->
        IF Above[q] \cap X # {} THEN Nothing
        ELSE IF q \in X /\ shown[q][1] = "file" THEN <<"file", 0>> ELSE shown[q]]

-----------------------------------------------------------------------------
(* The inductive invariant.                                                  *)

\* What the accepted modules make of a path: Magic Mount's above stock, and
\* OverlayFS's above that.
Taken == IF "magic" \in refused THEN {} ELSE Given("magic")
Base == [p \in Whole |-> Merged(modules, Taken, <<stock[p], 0>>, Root, p)]
Final == [p \in Whole |-> Merged(modules, Given("overlay"), Base[p], Root, p)]

Inputs ==
    /\ Width \in Nat /\ IsTree(stock) /\ stock[Root] = "dir" /\ mounted \subseteq Paths
    /\ \A i \in Ids : IsTree(modules[i])
Merging ==
    /\ at \in {"collect", "overlay", "leaves", "done"} /\ refused \subseteq {"magic", "overlay"}
    /\ covered \subseteq Paths
    /\ \E A \in SUBSET Given("magic") : Grown(tree, modules, A)
    /\ at = "collect" =>
          /\ refused = {} /\ todo \subseteq Given("magic")
          /\ Grown(tree, modules, Given("magic") \ todo)
          /\ \A j \in todo, i \in Given("magic") \ todo : i < j
    /\ (at # "collect" /\ "magic" \notin refused) => Grown(tree, modules, Given("magic")) /\ ~Refused
    /\ at \in {"collect", "overlay", "leaves"} => "overlay" \notin refused
Viewed ==
    /\ view \in Views /\ pinned \in Views /\ Connected(pinned) /\ target \in Whole
    /\ at = "collect" => \A p \in Whole : view[p] = Shows(<<stock[p], 0>>)
    /\ at = "overlay" => view = Base /\ todo = Leaves
    /\ at = "done" => view = IF "overlay" \in refused THEN Base ELSE Final
    /\ at # "leaves" => children = {}

\* Between two steps of OverlayFS: a leaf still to come shows what Magic Mount left,
\* one that is done what it must, and the one under way shows it but for the sub-
\* mounts that are still bare, of those to be put back.
Overlaid ==
    /\ todo \subseteq Leaves /\ view[Root] = Directory
    /\ \A i \in Given("overlay"), leaf \in Leaves : modules[i][leaf] \in {"none"} \cup Dirs
    /\ \A leaf \in Leaves : \A p \in From(leaf) :
          /\ leaf \in todo => view[p] = Base[p]
          /\ leaf \notin todo /\ leaf # target => view[p] = Final[p]
UnderWay ==
    \E X \in SUBSET (children \cap covered) :
        \A p \in From(target) :
            view[p] = Merged(modules, Given("overlay"), Bared(pinned, X)[p], Root, p)
PutBack ==
    /\ target \in Leaves \cup {Root}
    /\ target = Root => children = {}
    /\ target # Root =>
          /\ target \notin todo /\ \A p \in From(target) : pinned[p] = Base[p]
          /\ UnderWay
    /\ children \subseteq (covered \cup mounted) \cap Below(target)
    /\ \A c \in children : (covered \cup mounted) \cap Below(c) \subseteq children
TreesInv ==
    /\ Inputs /\ Merging /\ Viewed /\ (at = "leaves" => Overlaid /\ PutBack)
    /\ at \in {"collect", "overlay"} => target = Root

LEMMA GivenAre ==
    ASSUME Inputs, NEW who
    PROVE  Given(who) \subseteq 1 .. Width /\ Width \in Nat /\ Forest(modules, Given(who))
<1>1. Width \in Nat /\ Given(who) \subseteq Ids /\ Ids = 1 .. Width
  BY DEF Inputs, Given, Ids, Width
<1> QED BY <1>1 DEF Inputs, Forest

\* What an overlay mounted at a leaf or below it shows is what all of the modules
\* do, above what it is mounted over.
LEMMA OverlayShows ==
    ASSUME Inputs, NEW leaf \in Leaves, NEW c \in From(leaf), NEW p \in From(c), NEW low,
           \A i \in Given("overlay") : modules[i][leaf] \in {"none"} \cup Dirs,
           select_layers(Touching(leaf), leaf, c).dirs # {}
    PROVE  mount_overlayfs(select_layers(Touching(leaf), leaf, c), low, c)[p]
             = Merged(modules, Given("overlay"), low[p], Root, p)
<1> DEFINE O == Given("overlay")
           selected == select_layers(O, leaf, c)
           lowest == IF selected.include_stock THEN low ELSE Empty
<1>1. O \subseteq 1 .. Width /\ Width \in Nat /\ Forest(modules, O)
  BY GivenAre
<1>2. O \in SUBSET Nat
  BY <1>1
<1>3. select_layers(Touching(leaf), leaf, c) = selected
  BY <1>1, SelectAll DEF Touching
<1>4. selected.dirs \in SUBSET (1 .. Width)
  <2>1. selected.dirs \subseteq O
    BY DEF select_layers
  <2> QED BY <1>1, <2>1
<1> HIDE DEF O
<1>5. p \in Whole /\ c \in Whole
  <2>1. c \in Whole
    BY LeavesAre
  <2> QED BY <2>1 DEF From, Below
<1> HIDE DEF selected
<1>6. Stacked(Layers(selected.dirs) \o <<lowest>>, c)[p] = Merged(modules, selected.dirs, lowest[p], c, p)
  BY <1>1, <1>4, <1>5, LayersOver
<1>7. lowest[p] = IF selected.include_stock THEN low[p] ELSE Nothing
  BY <1>5 DEF Empty
<1>8. Merged(modules, selected.dirs, IF selected.include_stock THEN low[p] ELSE Nothing, c, p)
        = Merged(modules, O, low[p], Root, p)
  <2>1. select_layers(O, leaf, c).dirs # {}
    BY <1>3 DEF selected
  <2> QED BY <1>1, <1>2, <2>1, SelectedShows DEF selected
<1> QED BY <1>3, <1>6, <1>7, <1>8 DEF mount_overlayfs, O

-----------------------------------------------------------------------------
(* Putting back a sub-mount.                                                 *)

\* What is left bare outside a directory is not its concern, and in it only what is
\* left bare in it, where nothing is above it.
LEMMA BaredOutside ==
    ASSUME NEW s, NEW c \in Whole, NEW X, NEW Y, X \ From(c) = Y \ From(c),
           NEW p \in Whole, p \notin From(c)
    PROVE  Bared(s, X)[p] = Bared(s, Y)[p]
<1>1. ASSUME NEW q \in Above[p] PROVE q \notin From(c)
  <2>1. q = c => p \in From(c)
    BY DEF From, Below
  <2>2. c \in Above[q] => p \in From(c)
    BY AboveAll DEF From, Below
  <2> QED BY <2>1, <2>2 DEF From, Below
<1>2. \A q \in Above[p] : q \in X <=> q \in Y
  BY <1>1
<1>3. p \in X <=> p \in Y
  OBVIOUS
<1>4. Above[p] \cap X = {} <=> Above[p] \cap Y = {}
  BY <1>2
<1> QED BY <1>3, <1>4 DEF Bared

LEMMA BaredWithin ==
    ASSUME NEW s, NEW c \in Whole, NEW X, NEW Y, X \cap From(c) = Y \cap From(c),
           X \cap Above[c] = {}, Y \cap Above[c] = {}, NEW p \in From(c)
    PROVE  Bared(s, X)[p] = Bared(s, Y)[p]
<1>1. p \in Whole /\ (p = c \/ c \in Above[p])
  BY DEF From, Below
<1>2. ASSUME NEW q \in Above[p] PROVE q \in X <=> q \in Y
  <2>1. p = c => q \in Above[c]
    OBVIOUS
  <2>2. c \in Above[p] => q = c \/ q \in Below(c) \/ q \in Above[c]
    BY <1>1, <1>2, AboveAll DEF Below
  <2> QED BY <1>1, <2>1, <2>2 DEF From
<1>3. p \in X <=> p \in Y
  OBVIOUS
<1>4. Above[p] \cap X = {} <=> Above[p] \cap Y = {}
  BY <1>2
<1> QED BY <1>1, <1>3, <1>4 DEF Bared

LEMMA BaredNone ==
    ASSUME NEW s, NEW p \in Whole
    PROVE  Bared(s, {})[p] = s[p]
BY DEF Bared

LEMMA MergedSame ==
    ASSUME NEW ms, NEW A, NEW e, NEW f, NEW dir, NEW p, Lets(ms, A, dir, p) => Shows(e) = Shows(f)
    PROVE  Merged(ms, A, e, dir, p) = Merged(ms, A, f, dir, p)
BY DEF Merged

LEMMA KindsShown ==
    /\ Shows(<<"file", 0>>) = <<"file", 0>> /\ <<"file", 0>>[1] = "file" /\ Directory[1] = "dir"
    /\ \A e : Shows(e) = e /\ e[1] = "dir" => e = Directory
BY DEF Shows, Dirs, Directory, Nothing

\* What is merged at a directory that nothing below it cuts off is one.
LEMMA MergedDirectory ==
    ASSUME NEW ms, NEW A \in SUBSET Nat, NEW c \in Paths, Free(ms, A, Root, c),
           \A i \in A : ms[i][c] \in {"none", "dir"}
    PROVE  Merged(ms, A, Directory, Root, c) = Directory
<1>1. CASE \E i \in A : Top(ms, A, Root, c, i)
  <2>1. PICK i \in A : Top(ms, A, Root, c, i)
    BY <1>1
  <2>2. ms[i][c] = "dir"
    BY <2>1 DEF Top
  <2>3. Merged(ms, A, Directory, Root, c) = Shows(<<ms[i][c], i>>)
    BY <2>1, OneTop
  <2> QED BY <2>2, <2>3 DEF Shows, Dirs
<1>2. CASE ~ \E i \in A : Top(ms, A, Root, c, i)
  <2>1. Lets(ms, A, Root, c)
    BY <1>2, ThreeWays
  <2> QED BY <2>1, NoTop, StockRoot
<1> QED BY <1>1, <1>2

\* A sub-mount left as it is shows what it must: nothing is missing where the type
\* is another, nor where all is cut off.
LEMMA ChildSkipped ==
    ASSUME NEW O \in SUBSET Nat, NEW s, Connected(s), NEW c \in Paths, \A p \in From(c) : Shows(s[p]) = s[p],
           NEW X, X \cap Above[c] = {}, NEW shown,
           shown = Merged(modules, O, Bared(s, X)[c], Root, c),
           \/ ~(shown[1] = s[c][1] /\ s[c][1] \in {"dir", "file"})
           \/ \A p \in From(c) : ~Lets(modules, O, Root, p),
           NEW p \in Whole
    PROVE  Merged(modules, O, Bared(s, X)[p], Root, p) = Merged(modules, O, Bared(s, X \ {c})[p], Root, p)
<1> DEFINE Y == X \ {c}
<1>1. c \in Whole /\ c \in From(c)
  BY Rooted DEF From
<1>2. CASE c \notin X
  <2>1. Y = X
    BY <1>2
  <2> QED BY <2>1
<1>3. CASE p \notin From(c)
  <2>1. X \ From(c) = Y \ From(c)
    BY <1>1
  <2>2. Bared(s, X)[p] = Bared(s, Y)[p]
    BY <1>1, <1>3, <2>1, BaredOutside
  <2> QED BY <2>2
<1>4. CASE c \in X /\ p \in From(c) /\ Lets(modules, O, Root, p)
  <2>1. ~(shown[1] = s[c][1] /\ s[c][1] \in {"dir", "file"})
    BY <1>4
  <2>2. CASE p = c
    <3>1. Bared(s, X)[c] = (IF s[c][1] = "file" THEN <<"file", 0>> ELSE s[c]) /\ Bared(s, Y)[c] = s[c]
      BY <1>1, <1>4 DEF Bared
    <3>2. s[c][1] # "file"
      <4>1. shown = Shows(Bared(s, X)[c])
        BY <1>4, <2>2, NoTop
      <4> QED BY <2>1, <3>1, <4>1, KindsShown
    <3> QED BY <2>2, <3>1, <3>2
  <2>3. CASE p # c
    <3>1. c \in Above[p] /\ p \in Paths
      BY <1>4, <2>3, AboveAll DEF From, Below
    <3>2. s[c] # Directory
      <4>1. ASSUME s[c] = Directory PROVE FALSE
        <5>1. Bared(s, X)[c] = Directory
          BY <1>1, <1>4, <4>1, KindsShown DEF Bared
        <5>2. \A q \in Above[c] : q \in Above[p]
          BY <3>1, AboveAll
        <5>3. Free(modules, O, Root, c) /\ \A i \in O : modules[i][c] \in {"none", "dir"}
          BY <1>4, <3>1, <5>2, Rooted DEF Lets, Free
        <5>4. shown = Directory
          BY <5>1, <5>3, MergedDirectory
        <5> QED BY <2>1, <4>1, <5>4, KindsShown
      <4> QED BY <4>1
    <3>3. s[p] = Nothing /\ s[p][1] # "file"
      BY <3>1, <3>2 DEF Connected, Nothing
    <3>4. Bared(s, X)[p] = Nothing /\ Bared(s, Y)[p] = Nothing
      BY <1>4, <3>1, <3>3 DEF Bared
    <3> QED BY <3>4
  <2> QED BY <2>2, <2>3
<1>5. CASE ~Lets(modules, O, Root, p)
  BY <1>5, MergedSame
<1> QED BY <1>2, <1>3, <1>4, <1>5

\* One bound back has nothing left bare in it.
LEMMA ChildBound ==
    ASSUME NEW s, NEW c \in Paths, NEW Y, Y \cap From(c) = {}, Y \cap Above[c] = {}, NEW p \in From(c)
    PROVE  Bared(s, Y)[p] = s[p]
<1>1. c \in Whole /\ p \in Whole
  BY Rooted DEF From, Below
<1>2. PICK none : none = {}
  OBVIOUS
<1>3. Y \cap From(c) = none \cap From(c) /\ none \cap Above[c] = {}
  BY <1>2
<1>4. Bared(s, Y)[p] = Bared(s, none)[p]
  BY <1>1, <1>3, BaredWithin
<1> QED BY <1>1, <1>2, <1>4, BaredNone

\* One overlaid shows what it must but for the mounts below it.
LEMMA ChildOverlaid ==
    ASSUME NEW s, NEW c \in Paths, NEW X, X \cap Above[c] = {}, NEW p \in From(c)
    PROVE  Bared(s, (X \ From(c)) \cup (covered \cap Below(c)))[p] = Bare(s, c)[p]
<1> DEFINE Y == covered \cap Below(c)
<1>1. c \in Whole /\ p \in Whole
  BY Rooted DEF From, Below
<1>2. Y \cap Above[c] = {} /\ Y \subseteq From(c)
  BY <1>1, AboveAll DEF From, Below
<1>3. Bared(s, (X \ From(c)) \cup Y)[p] = Bared(s, Y)[p]
  <2>1. ((X \ From(c)) \cup Y) \cap From(c) = Y \cap From(c) /\ ((X \ From(c)) \cup Y) \cap Above[c] = {}
    BY <1>2
  <2> HIDE DEF Y
  <2> QED BY <1>1, <1>2, <2>1, BaredWithin
<1>4. Bare(s, c)[p] = Bared(s, Y)[p]
  BY <1>1 DEF Bare, Bared
<1> QED BY <1>3, <1>4

-----------------------------------------------------------------------------
(* What the invariant's functions are.                                       *)

Types == Kinds \X (0 .. Width)

LEMMA ViewsAre == Views = [Whole -> Types]
BY DEF Views, Types, Width

LEMMA TakenAre ==
    ASSUME Inputs
    PROVE  Taken \subseteq 1 .. Width /\ Taken \in SUBSET Nat /\ Forest(modules, Taken)
<1>1. Given("magic") \subseteq 1 .. Width /\ Width \in Nat /\ Forest(modules, Given("magic"))
  BY GivenAre
<1>2. \A i \in 1 .. Width : i \in Nat
  OBVIOUS
<1> QED BY <1>1, <1>2 DEF Taken, Forest

LEMMA StockShows ==
    ASSUME Inputs
    PROVE  /\ \A p \in Whole : <<stock[p], 0>> \in Types
           /\ Shows(<<stock[Root], 0>>) = Directory
           /\ \A p \in Paths : Shows(<<stock[p], 0>>) # Nothing =>
                \A q \in Above[p] : Shows(<<stock[q], 0>>) = Directory
<1>1. 0 \in 0 .. Width /\ \A p \in Whole : stock[p] \in Kinds
  BY DEF Inputs, IsTree
<1>2. ASSUME NEW p \in Paths, Shows(<<stock[p], 0>>) # Nothing, NEW q \in Above[p]
      PROVE  Shows(<<stock[q], 0>>) = Directory
  <2>1. stock[p] # "none"
    BY <1>2, NothingShows
  <2>2. stock[q] \in Dirs
    BY <2>1, <1>2 DEF Inputs, IsTree
  <2> QED BY <2>2 DEF Shows, Dirs
<1> QED BY <1>1, <1>2, StockRoot DEF Inputs, Types

LEMMA BaseIs ==
    ASSUME Inputs
    PROVE  /\ Base \in [Whole -> Types] /\ Base[Root] = Directory /\ Connected(Base)
           /\ \A p \in Whole : Shows(Base[p]) = Base[p]
<1>1. Taken \in SUBSET (1 .. Width) /\ Taken \in SUBSET Nat /\ Forest(modules, Taken) /\ Width \in Nat
  BY TakenAre DEF Inputs
<1>2. \A p \in Whole : Base[p] = Merged(modules, Taken, <<stock[p], 0>>, Root, p)
  BY DEF Base
<1>3. ASSUME NEW p \in Whole PROVE Base[p] \in Types
  <2>1. <<stock[p], 0>> \in Types
    BY StockShows
  <2> QED BY <1>1, <1>2, <2>1, MergedTyped DEF Types
<1>4. Base \in [Whole -> Types]
  BY <1>3 DEF Base
<1>5. ASSUME NEW p \in Paths, Base[p] # Nothing, NEW q \in Above[p] PROVE Base[q] = Directory
  <2>1. p \in Whole /\ q \in Whole
    BY Rooted, AboveAll
  <2>2. Shows(<<stock[p], 0>>) # Nothing => Shows(<<stock[q], 0>>) = Directory
    BY StockShows
  <2>3. q = Root => Shows(<<stock[q], 0>>) = Directory
    BY StockShows
  <2>4. Merged(modules, Taken, <<stock[p], 0>>, Root, p) # Nothing
    BY <1>2, <1>5, <2>1
  <2>5. Merged(modules, Taken, <<stock[q], 0>>, Root, q) = Directory
    BY <1>1, <2>2, <2>3, <2>4, MergedConnected
  <2> QED BY <1>2, <2>1, <2>5
<1>6. Base[Root] = Directory
  <2>1. Merged(modules, Taken, <<stock[Root], 0>>, Root, Root) = Directory
    BY <1>1, StockShows, MergedRoot
  <2> QED BY <1>2, <2>1, Rooted
<1>7. ASSUME NEW p \in Whole PROVE Shows(Base[p]) = Base[p]
  <2>1. Base[p] = Merged(modules, Taken, <<stock[p], 0>>, Root, p)
    BY <1>2
  <2> QED BY <2>1, MergedShows
<1>8. Connected(Base)
  BY <1>5 DEF Connected
<1> QED BY <1>4, <1>6, <1>7, <1>8

LEMMA FinalIs ==
    ASSUME Inputs
    PROVE  /\ Final \in [Whole -> Types] /\ Final[Root] = Directory /\ Connected(Final)
           /\ \A p \in Whole : Final[p] = Merged(modules, Given("overlay"), Base[p], Root, p)
<1> DEFINE O == Given("overlay")
<1>1. O \in SUBSET (1 .. Width) /\ Forest(modules, O) /\ Width \in Nat
  BY GivenAre
<1> HIDE DEF O
<1>2. \A p \in Whole : Final[p] = Merged(modules, O, Base[p], Root, p)
  BY DEF Final, O
<1>3. ASSUME NEW p \in Whole PROVE Final[p] \in Types
  <2>1. Base[p] \in Types
    BY BaseIs
  <2> QED BY <1>1, <1>2, <2>1, MergedTyped DEF Types
<1>4. Final \in [Whole -> Types]
  BY <1>3 DEF Final
<1>5. ASSUME NEW p \in Paths, Final[p] # Nothing, NEW q \in Above[p] PROVE Final[q] = Directory
  <2>1. p \in Whole /\ q \in Whole
    BY Rooted, AboveAll
  <2>2. Shows(Base[p]) # Nothing => Shows(Base[q]) = Directory
    BY <2>1, BaseIs DEF Connected
  <2>3. q = Root => Shows(Base[q]) = Directory
    BY BaseIs, StockRoot
  <2>4. Merged(modules, O, Base[p], Root, p) # Nothing
    BY <1>2, <1>5, <2>1
  <2>5. Merged(modules, O, Base[q], Root, q) = Directory
    BY <1>1, <2>2, <2>3, <2>4, MergedConnected
  <2> QED BY <1>2, <2>1, <2>5
<1>6. Final[Root] = Directory
  <2>1. Shows(Base[Root]) = Directory
    BY BaseIs, StockRoot
  <2>2. Merged(modules, O, Base[Root], Root, Root) = Directory
    BY <1>1, <2>1, MergedRoot
  <2> QED BY <1>2, <2>2, Rooted
<1> QED BY <1>2, <1>4, <1>5, <1>6 DEF Connected, O

\* A leaf that is done shows what it must, once its sub-mounts are put back.
LEMMA AllFinal ==
    ASSUME Inputs, Overlaid, PutBack, children = {}, NEW leaf \in Leaves, leaf \notin todo,
           NEW p \in From(leaf)
    PROVE  view[p] = Final[p]
<1>1. p \in Whole /\ leaf # Root
  BY LeavesAre
<1>2. CASE leaf # target
  BY <1>2 DEF Overlaid
<1>3. CASE leaf = target
  <2>1. pinned[p] = Base[p] /\ UnderWay
    BY <1>1, <1>3 DEF PutBack
  <2>2. view[p] = Merged(modules, Given("overlay"), Bared(pinned, {})[p], Root, p)
    BY <1>3, <2>1 DEF UnderWay
  <2>3. Bared(pinned, {})[p] = pinned[p]
    BY <1>1, BaredNone
  <2> QED BY <1>1, <2>1, <2>2, <2>3, FinalIs
<1> QED BY <1>2, <1>3

LEMMA BaredIs ==
    ASSUME NEW s \in [Whole -> Types], Width \in Nat, NEW X
    PROVE  /\ Bared(s, X) \in [Whole -> Types]
           /\ Connected(s) =>
                \A p \in Paths : Bared(s, X)[p] # Nothing => \A q \in Above[p] : Bared(s, X)[q] = Directory
<1>1. Nothing \in Types /\ <<"file", 0>> \in Types
  <2>1. 0 \in 0 .. Width
    OBVIOUS
  <2> QED BY <2>1 DEF Types, Nothing, Kinds
<1>2. Bared(s, X) \in [Whole -> Types]
  BY <1>1 DEF Bared
<1>3. ASSUME Connected(s), NEW p \in Paths, Bared(s, X)[p] # Nothing, NEW q \in Above[p]
      PROVE  Bared(s, X)[q] = Directory
  <2>1. p \in Whole /\ q \in Whole /\ \A r \in Above[q] : r \in Above[p]
    BY Rooted, AboveAll
  <2>2. Above[p] \cap X = {} /\ s[p] # Nothing
    BY <1>3, <2>1 DEF Bared, Nothing
  <2>3. s[q] = Directory /\ q \notin X /\ Above[q] \cap X = {}
    BY <1>3, <2>1, <2>2 DEF Connected
  <2> QED BY <2>1, <2>3 DEF Bared
<1> QED BY <1>2, <1>3

\* What is shown is connected at every step.
LEMMA ViewConnected ==
    ASSUME TreesInv
    PROVE  Connected(view)
<1>0. Inputs /\ Merging /\ Viewed
  BY DEF TreesInv
<1>1. CASE at = "collect"
  <2>1. \A p \in Whole : view[p] = Shows(<<stock[p], 0>>)
    BY <1>0, <1>1 DEF Viewed
  <2>2. ASSUME NEW p \in Paths, view[p] # Nothing, NEW q \in Above[p] PROVE view[q] = Directory
    <3>1. p \in Whole /\ q \in Whole
      BY Rooted, AboveAll
    <3> QED BY <1>0, <2>1, <2>2, <3>1, StockShows
  <2> QED BY <2>2 DEF Connected
<1>2. CASE at \in {"overlay", "done"}
  <2>1. view = Base \/ view = Final
    BY <1>0, <1>2 DEF Viewed
  <2> QED BY <1>0, <2>1, BaseIs, FinalIs
<1>3. CASE at = "leaves"
  <2>0. Overlaid /\ PutBack
    BY <1>3 DEF TreesInv
  <2>1. SUFFICES ASSUME NEW p \in Paths, view[p] # Nothing, NEW q \in Above[p]
                 PROVE  view[q] = Directory
    BY DEF Connected
  <2>2. PICK leaf \in Leaves : p \in From(leaf)
    BY LeavesAre
  <2>3. p \in Whole /\ q \in Whole /\ Above[leaf] = {Root} /\ (p = leaf \/ leaf \in Above[p])
    BY <2>2, LeavesAre, AboveAll, Rooted DEF From, Below
  <2>4. CASE q = Root
    BY <2>0, <2>4 DEF Overlaid
  <2>5. CASE q # Root
    <3>1. q \in From(leaf)
      <4>1. leaf \in Above[p]
        BY <2>3, <2>5
      <4>2. q = leaf \/ leaf \in Above[q]
        BY <2>3, <2>5, <4>1, AboveAll
      <4> QED BY <2>3, <4>2 DEF From, Below
    <3>2. CASE leaf \in todo
      <4>1. view[p] = Base[p] /\ view[q] = Base[q]
        BY <2>0, <2>2, <3>1, <3>2 DEF Overlaid
      <4> QED BY <1>0, <2>1, <4>1, BaseIs DEF Connected
    <3>3. CASE leaf \notin todo /\ leaf # target
      <4>1. view[p] = Final[p] /\ view[q] = Final[q]
        BY <2>0, <2>2, <3>1, <3>3 DEF Overlaid
      <4> QED BY <1>0, <2>1, <4>1, FinalIs DEF Connected
    <3>4. CASE leaf = target
      <4> DEFINE O == Given("overlay")
      <4>1. UnderWay
        BY <2>0, <3>4, LeavesAre DEF PutBack
      <4>2. PICK X \in SUBSET (children \cap covered) :
               \A r \in From(target) : view[r] = Merged(modules, O, Bared(pinned, X)[r], Root, r)
        BY <4>1 DEF UnderWay
      <4> DEFINE e == Bared(pinned, X)[p]
                 f == Bared(pinned, X)[q]
      <4>3. view[p] = Merged(modules, O, e, Root, p) /\ view[q] = Merged(modules, O, f, Root, q)
        BY <2>2, <3>1, <3>4, <4>2
      <4>4. pinned \in [Whole -> Types] /\ Connected(pinned) /\ Width \in Nat
        BY <1>0, ViewsAre DEF Viewed, Inputs
      <4>5. e # Nothing => f = Directory
        BY <4>4, BaredIs
      <4> HIDE DEF e, f
      <4>6. Shows(e) # Nothing => Shows(f) = Directory
        BY <4>5, StockRoot
      <4>7. Forest(modules, O)
        BY <1>0, GivenAre
      <4> HIDE DEF O
      <4> QED BY <2>1, <2>5, <4>3, <4>6, <4>7, MergedConnected
    <3> QED BY <3>2, <3>3, <3>4
  <2> QED BY <2>4, <2>5
<1> QED BY <1>0, <1>1, <1>2, <1>3 DEF Merging

-----------------------------------------------------------------------------
(* The invariant holds at every step.                                        *)

\* What does not change while the inputs do not.
LEMMA Kept ==
    ASSUME UNCHANGED inputs
    PROVE  /\ Inputs => Inputs'
           /\ Width' = Width /\ Views' = Views
           /\ Given("magic")' = Given("magic") /\ Given("overlay")' = Given("overlay")
           /\ ("magic" \in refused' <=> "magic" \in refused) => Taken' = Taken /\ Base' = Base /\ Final' = Final
<1>1. stock' = stock /\ mounted' = mounted /\ modules' = modules /\ backend' = backend
  BY DEF inputs
<1>2. Width' = Width /\ Ids' = Ids /\ Views' = Views
  BY <1>1 DEF Width, Ids, Views
<1>3. Inputs => Inputs'
  BY <1>1, <1>2 DEF Inputs
<1>4. Given("magic")' = Given("magic") /\ Given("overlay")' = Given("overlay")
  BY <1>1, <1>2 DEF Given
<1>5. ASSUME "magic" \in refused' <=> "magic" \in refused
      PROVE  Taken' = Taken /\ Base' = Base /\ Final' = Final
  <2>1. Taken' = Taken
    BY <1>4, <1>5 DEF Taken
  <2>2. Base' = Base
    BY <1>1, <2>1 DEF Base
  <2> QED BY <1>1, <1>4, <2>1, <2>2 DEF Final
<1> QED BY <1>2, <1>3, <1>4, <1>5

\* OverlayFS leaves alone what Magic Mount has done.
LEMMA MergingKept ==
    ASSUME Merging, UNCHANGED <<inputs, tree, covered>>, at # "collect",
           at' \in {"leaves", "done"}, refused' \subseteq {"magic", "overlay"},
           "magic" \in refused' <=> "magic" \in refused, at' = "leaves" => "overlay" \notin refused'
    PROVE  Merging'
<1>1. modules' = modules /\ stock' = stock /\ tree' = tree /\ covered' = covered
      /\ Given("magic")' = Given("magic")
  BY Kept DEF inputs
<1>2. Refused' = Refused
  BY <1>1 DEF Refused, Children, Needs
<1> QED BY <1>1, <1>2 DEF Merging

\* The device comes up showing stock, with nothing merged yet.
LEMMA InitInv == TreesInit => TreesInv
<1> SUFFICES ASSUME TreesInit PROVE TreesInv
  OBVIOUS
<1>1. Inputs
  <2>1. stock \in StockTrees /\ modules \in ModuleSets /\ mounted \subseteq SubMounts
    BY DEF TreesInit
  <2>2. IsTree(stock) /\ stock[Root] = "dir" /\ mounted \subseteq Paths
    BY <2>1, TreeAssumption
  <2>3. modules \in Seq([Whole -> Kinds]) /\ \A i \in DOMAIN modules : IsTree(modules[i])
    BY <2>1, TreeAssumption
  <2>4. Width \in Nat /\ DOMAIN modules = Ids
    BY <2>3 DEF Width, Ids
  <2> QED BY <2>2, <2>3, <2>4 DEF Inputs
<1>2. Merging
  <2>1. Grown(tree, modules, {})
    <3>1. Absent \in Nodes /\ Absent.kind = "none" /\ Absent.replace = FALSE
      BY DEF Absent, Nodes, Kinds
    <3>2. \A p \in Paths : GrownAt(Absent, modules, {}, p)
      BY <3>1 DEF GrownAt
    <3>3. tree = [p \in Whole |-> Absent]
      BY DEF TreesInit
    <3> QED BY <3>1, <3>2, <3>3, Rooted DEF Grown
  <2>2. at = "collect" /\ todo = Given("magic") /\ refused = {} /\ covered \subseteq Paths
    BY <1>1 DEF TreesInit, Inputs
  <2>3. Given("magic") \ todo = {}
    BY <2>2
  <2> QED BY <2>1, <2>2, <2>3 DEF Merging
<1>3. \A p \in Whole : view[p] = Shows(<<stock[p], 0>>)
  <2> TAKE p \in Whole
  <2> DEFINE layers == <<Layer(stock, 0)>>
  <2>1. DOMAIN layers = 1 .. 1 /\ layers[1] = Layer(stock, 0) /\ 1 \in Nat /\ 1 \in 1 .. 1
    OBVIOUS
  <2>2. layers[1][p] = <<stock[p], 0>> /\ p \in From(Root) /\ Root \in Whole
    BY <2>1, Rooted DEF Layer
  <2> HIDE DEF layers
  <2>3. CASE stock[p] = "none"
    <3>1. \A j \in 1 .. 1 : layers[j][p][1] = "none"
      BY <2>2, <2>3
    <3>2. Stacked(layers, Root)[p] = Nothing
      BY <2>1, <2>2, <3>1, StackedHidden
    <3> QED BY <2>3, <3>2, NothingShows DEF TreesInit, layers
  <2>4. CASE stock[p] # "none"
    <3>1. PICK n \in Nat : n = 1
      OBVIOUS
    <3>2. /\ DOMAIN layers = 1 .. n /\ n \in 1 .. n /\ layers[n][p][1] # "none"
          /\ \A i \in 1 .. n - 1 : layers[i][p][1] = "none"
          /\ \A i \in 1 .. n - 1 : \A q \in Above[p] \cap Below(Root) : layers[i][q][1] \in {"none", "dir"}
      BY <2>1, <2>2, <2>4, <3>1
    <3>3. Stacked(layers, Root)[p] = Shows(layers[n][p])
      BY <2>2, <3>2, StackedTop
    <3> QED BY <2>2, <3>1, <3>3 DEF TreesInit, layers
  <2> QED BY <2>3, <2>4
<1>4. view \in Views
  <2>1. view = [p \in Whole |-> view[p]]
    BY Rooted DEF TreesInit, Stacked
  <2>2. \A p \in Whole : view[p] \in Types
    <3> TAKE p \in Whole
    <3>1. <<stock[p], 0>> \in Types /\ Width \in Nat
      BY <1>1, StockShows DEF Inputs
    <3> QED BY <1>3, <3>1, ShowsTyped DEF Types
  <2> QED BY <2>1, <2>2, ViewsAre
<1>5. Connected(view)
  <2>1. ASSUME NEW p \in Paths, view[p] # Nothing, NEW q \in Above[p] PROVE view[q] = Directory
    <3>1. p \in Whole /\ q \in Whole
      BY Rooted, AboveAll
    <3> QED BY <1>1, <1>3, <2>1, <3>1, StockShows
  <2> QED BY <2>1 DEF Connected
<1>6. at = "collect" /\ pinned = view /\ children = {} /\ target = Root
  BY DEF TreesInit
<1> QED BY <1>1, <1>2, <1>3, <1>4, <1>5, <1>6, Rooted DEF TreesInv, Viewed

\* A view that shows stock is what is left where Magic Mount refused.
LEMMA RefusedBase ==
    ASSUME Inputs, view \in Views, \A p \in Whole : view[p] = Shows(<<stock[p], 0>>),
           "magic" \in refused', UNCHANGED <<inputs, view>>
    PROVE  view' = Base'
<1>1. Taken' = {} /\ stock' = stock /\ modules' = modules /\ view' = view
  BY DEF Taken, inputs
<1>2. \A p \in Whole : Merged(modules, {}, <<stock[p], 0>>, Root, p) = Shows(<<stock[p], 0>>)
  BY DEF Merged, Lets, Free
<1>3. Base' = [p \in Whole |-> view[p]]
  BY <1>1, <1>2 DEF Base
<1> QED BY <1>1, <1>3 DEF Views

LEMMA CollectInv ==
    ASSUME TreesInv, Collect
    PROVE  TreesInv'
<1> DEFINE m == Min(todo)
           M == Given("magic")
<1>1. /\ Inputs /\ Merging /\ Viewed /\ at = "collect" /\ todo # {} /\ target = Root
      /\ UNCHANGED <<inputs, view, covered, overlay>>
  BY DEF TreesInv, Collect
<1>2. /\ modules' = modules /\ stock' = stock /\ view' = view /\ covered' = covered
      /\ target' = target /\ pinned' = pinned /\ children' = children
      /\ Inputs' /\ M' = M /\ Views' = Views
  BY <1>1, Kept DEF inputs, overlay
<1>3. /\ M \subseteq 1 .. Width /\ Width \in Nat /\ Forest(modules, M) /\ todo \subseteq M
      /\ refused = {} /\ Grown(tree, modules, M \ todo) /\ \A j \in todo, i \in M \ todo : i < j
  BY <1>1, GivenAre DEF Merging
<1>4. todo \subseteq Nat
  BY <1>3
<1>5. m \in todo /\ \A k \in todo : m <= k
  <2>1. \E n \in todo : \A k \in todo : n <= k
    BY <1>1, <1>4, Least
  <2> QED BY <2>1 DEF Min
<1>6. CASE modules[m][Root] = "opaque"
  <2>1. refused' = {"magic"} /\ at' = "overlay" /\ todo' = Leaves /\ tree' = tree
    BY <1>6 DEF Collect
  <2>2. view' = Base'
    BY <1>1, <2>1, RefusedBase DEF Viewed
  <2>3. Merging'
    BY <1>1, <1>2, <2>1 DEF Merging
  <2>4. Viewed'
    BY <1>1, <1>2, <2>1, <2>2 DEF Viewed
  <2> QED BY <1>1, <1>2, <2>1, <2>3, <2>4 DEF TreesInv
<1>7. CASE modules[m][Root] # "opaque"
  <2>1. tree' = collect_into(modules[m], m) /\ todo' = todo \ {m} /\ at' = at /\ refused' = refused
    BY <1>7 DEF Collect
  <2> HIDE DEF m
  <2> DEFINE A == M \ todo
  <2>2. A \cup {m} = M \ todo' /\ A \cup {m} \subseteq M /\ m \in Nat
    BY <1>3, <1>4, <1>5, <2>1
  <2>3. Forest(modules, A \cup {m}) /\ \A i \in A : i < m
    BY <1>3, <1>5, <2>2 DEF Forest
  <2>4. Grown(tree', modules, A \cup {m})
    BY <1>3, <2>1, <2>2, <2>3, CollectGrows
  <2>5. \A j \in todo', i \in M \ todo' : i < j
    <3> TAKE j \in todo', i \in M \ todo'
    <3>1. j \in todo /\ j # m /\ j \in Nat /\ m <= j /\ (i = m \/ i \in A)
      BY <1>4, <1>5, <2>1
    <3> QED BY <1>3, <2>2, <3>1
  <2> HIDE DEF A, M
  <2>6. todo' \subseteq M'
    BY <1>2, <1>3, <2>1 DEF M
  <2>7. /\ at' = "collect" /\ refused' = {} /\ covered' \subseteq Paths
        /\ Grown(tree', modules', Given("magic")' \ todo')
        /\ \A j \in todo', i \in Given("magic")' \ todo' : i < j
    <3>1. covered \subseteq Paths
      BY <1>1 DEF Merging
    <3> QED BY <1>1, <1>2, <1>3, <2>1, <2>2, <2>4, <2>5, <3>1 DEF M
  <2>8. Merging'
    <3>1. Given("magic")' \ todo' \in SUBSET Given("magic")'
      OBVIOUS
    <3> QED BY <2>6, <2>7, <3>1 DEF Merging, M
  <2>9. Viewed'
    BY <1>1, <1>2, <2>1 DEF Viewed
  <2> QED BY <1>1, <1>2, <2>1, <2>8, <2>9 DEF TreesInv
<1> QED BY <1>6, <1>7

LEMMA WalkInv ==
    ASSUME TreesInv, Walk
    PROVE  TreesInv'
<1> DEFINE M == Given("magic")
<1>1. /\ Inputs /\ Merging /\ Viewed /\ at = "collect" /\ todo = {} /\ target = Root
      /\ UNCHANGED <<inputs, tree, overlay>> /\ at' = "overlay" /\ todo' = Leaves
  BY DEF TreesInv, Walk
<1>2. /\ modules' = modules /\ stock' = stock /\ tree' = tree
      /\ target' = target /\ pinned' = pinned /\ children' = children
      /\ Inputs' /\ M' = M /\ Views' = Views
  BY <1>1, Kept DEF inputs, overlay
<1>3. Refused' = Refused
  BY <1>2 DEF Refused, Children, Needs
<1>4. /\ Forest(modules, M) /\ refused = {} /\ covered \subseteq Paths /\ mounted \subseteq Paths
      /\ Grown(tree, modules, M)
  <2>1. M \ todo = M
    BY <1>1
  <2> QED BY <1>1, <2>1, GivenAre DEF Merging, Inputs
<1>5. CASE Refused
  <2>1. refused' = {"magic"} /\ view' = view /\ covered' = covered
    BY <1>5 DEF Walk
  <2>2. view' = Base'
    BY <1>1, <2>1, RefusedBase DEF Viewed
  <2>3. Merging'
    BY <1>1, <1>2, <1>4, <2>1 DEF Merging
  <2>4. Viewed'
    BY <1>1, <1>2, <2>1, <2>2 DEF Viewed
  <2> QED BY <1>1, <1>2, <2>3, <2>4 DEF TreesInv
<1>6. CASE ~Refused
  <2>1. refused' = refused /\ view' = MagicView
        /\ covered' = BoundFiles \cup {p \in mounted : ~InSkeleton(p) /\ p \notin Skeleton}
    BY <1>6 DEF Walk
  <2>2. Taken = M /\ Base' = Base
    BY <1>1, <1>4, <2>1, Kept DEF Taken
  <2>3. view' = Base
    <3>1. ASSUME NEW p \in Whole PROVE MagicView[p] = Base[p]
      <4>1. MagicView[p] = Merged(modules, M, <<stock[p], 0>>, Root, p)
        BY <1>1, <1>4, MagicShows DEF Inputs
      <4> QED BY <2>2, <4>1 DEF Base
    <3>2. MagicView = [p \in Whole |-> MagicView[p]] /\ Base = [p \in Whole |-> Base[p]]
      BY DEF MagicView, Base
    <3> QED BY <2>1, <3>1, <3>2
  <2>4. Merging'
    <3>1. covered' \subseteq Paths
      BY <1>4, <2>1 DEF BoundFiles
    <3> QED BY <1>1, <1>2, <1>3, <1>4, <1>6, <2>1, <3>1 DEF Merging
  <2>5. Viewed'
    <3>1. view' \in Views'
      BY <1>1, <1>2, <2>3, BaseIs, ViewsAre
    <3> QED BY <1>1, <1>2, <2>2, <2>3, <3>1 DEF Viewed
  <2> QED BY <1>1, <1>2, <2>4, <2>5 DEF TreesInv
<1> QED BY <1>5, <1>6

LEMMA PlanInv ==
    ASSUME TreesInv, Plan
    PROVE  TreesInv'
<1>1. /\ Inputs /\ Merging /\ Viewed /\ at = "overlay" /\ target = Root
      /\ UNCHANGED <<inputs, todo, tree, view, covered, overlay>>
      /\ refused' = IF at' = "done" THEN refused \cup {"overlay"} ELSE refused
      /\ at' \in {"leaves", "done"}
  BY DEF TreesInv, Plan
<1>2. /\ modules' = modules /\ todo' = todo /\ view' = view /\ target' = target /\ pinned' = pinned
      /\ children' = children /\ Inputs' /\ Views' = Views /\ Base' = Base
      /\ Given("overlay")' = Given("overlay")
  BY <1>1, Kept DEF inputs, overlay
<1>3. view = Base /\ todo = Leaves /\ children = {} /\ "overlay" \notin refused /\ refused \subseteq {"magic", "overlay"}
  BY <1>1 DEF Viewed, Merging
<1>4. Merging'
  BY <1>1, <1>3, MergingKept
<1>5. Viewed'
  BY <1>1, <1>2, <1>3 DEF Viewed
<1>6. ASSUME at' = "leaves" PROVE Overlaid' /\ PutBack'
  <2>1. \A i \in Given("overlay") : validate_partition_tree(modules[i])
    BY <1>6 DEF Plan
  <2>2. \A i \in Given("overlay"), leaf \in Leaves : modules[i][leaf] \in {"none"} \cup Dirs
    BY <2>1 DEF validate_partition_tree
  <2>3. view[Root] = Directory
    BY <1>1, <1>3, BaseIs
  <2>4. Overlaid'
    <3>1. \A leaf \in Leaves : \A p \in From(leaf) : leaf \in todo /\ view[p] = Base[p]
      BY <1>3
    <3> QED BY <1>2, <1>3, <2>2, <2>3, <3>1 DEF Overlaid
  <2>5. PutBack'
    BY <1>1, <1>2, <1>3 DEF PutBack
  <2> QED BY <2>4, <2>5
<1> QED BY <1>1, <1>2, <1>4, <1>5, <1>6 DEF TreesInv

LEMMA FinishInv ==
    ASSUME TreesInv, Finish
    PROVE  TreesInv'
<1>1. /\ Inputs /\ Merging /\ Viewed /\ Overlaid /\ PutBack /\ at = "leaves" /\ at' = "done"
      /\ todo = {} /\ children = {}
      /\ UNCHANGED <<inputs, todo, tree, refused, view, covered, overlay>>
  BY DEF TreesInv, Finish
<1>2. /\ view' = view /\ target' = target /\ pinned' = pinned /\ children' = children /\ refused' = refused
      /\ Inputs' /\ Views' = Views /\ Final' = Final /\ Base' = Base
  BY <1>1, Kept DEF inputs, overlay
<1>3. "overlay" \notin refused /\ refused \subseteq {"magic", "overlay"}
  BY <1>1 DEF Merging
<1>4. view = Final
  <2>1. ASSUME NEW p \in Whole PROVE view[p] = Final[p]
    <3>1. CASE p = Root
      BY <1>1, <3>1, FinalIs DEF Overlaid
    <3>2. CASE p # Root
      <4>1. PICK leaf \in Leaves : p \in From(leaf)
        BY <3>2, Rooted, LeavesAre
      <4> QED BY <1>1, <4>1, AllFinal
    <3> QED BY <3>1, <3>2
  <2>2. view \in [Whole -> Types] /\ Final \in [Whole -> Types]
    BY <1>1, ViewsAre, FinalIs DEF Viewed
  <2> QED BY <2>1, <2>2
<1>5. Merging'
  BY <1>1, <1>3, MergingKept
<1>6. Viewed'
  BY <1>1, <1>2, <1>3, <1>4 DEF Viewed
<1> QED BY <1>1, <1>2, <1>5, <1>6 DEF TreesInv

\* Mounting leaves the rest of the view as it is.
LEMMA MountsOver ==
    ASSUME NEW f, NEW S \in SUBSET Whole, DOMAIN f = S, view \in [Whole -> Types],
           \A p \in S : f[p] \in Types
    PROVE  /\ Attached(f) \in [Whole -> Types]
           /\ \A p \in Whole : Attached(f)[p] = IF p \in S THEN f[p] ELSE view[p]
BY DEF Attached

\* Somebody who touches a leaf is selected there.
LEMMA TouchingSelected ==
    ASSUME Inputs, NEW leaf \in Leaves, Touching(leaf) # {}
    PROVE  select_layers(Touching(leaf), leaf, leaf).dirs # {}
<1> DEFINE T == Touching(leaf)
<1>1. T \in SUBSET Nat /\ \A i \in T : modules[i][leaf] \in Dirs
  <2>1. Given("overlay") \subseteq 1 .. Width /\ Width \in Nat
    BY GivenAre
  <2>2. Given("overlay") \subseteq Nat
    BY <2>1
  <2> QED BY <2>2 DEF Touching
<1>2. \A q : q \in Between(leaf, leaf) <=> q = leaf
  <2>1. leaf \in From(leaf) /\ Above[leaf] = {Root} /\ Root \notin Below(Root)
    BY LeavesAre, Rooted DEF From
  <2> QED BY <2>1, BetweenIs
<1> HIDE DEF T
<1>3. PICK i \in T : \A k \in T : i <= k
  BY <1>1, Least DEF T
<1>4. i \in select_layers(T, leaf, leaf).dirs
  BY <1>1, <1>2, <1>3 DEF select_layers, HasDir
<1> QED BY <1>4 DEF T

LEMMA MountLeafInv ==
    ASSUME TreesInv, MountLeaf
    PROVE  TreesInv'
<1> DEFINE O == Given("overlay")
<1>1. /\ Inputs /\ Merging /\ Viewed /\ Overlaid /\ PutBack /\ at = "leaves" /\ children = {}
      /\ UNCHANGED <<inputs, at, tree, refused, covered>>
  BY DEF TreesInv, MountLeaf
<1>2. /\ at' = at /\ refused' = refused /\ covered' = covered /\ mounted' = mounted /\ modules' = modules
      /\ Inputs' /\ Views' = Views /\ O' = O /\ Base' = Base /\ Final' = Final
  BY <1>1, Kept DEF inputs
<1>3. Merging'
  BY <1>1, MergingKept DEF Merging
<1>4. PICK leaf \in todo :
         /\ todo' = todo \ {leaf}
         /\ IF Touching(leaf) = {} THEN UNCHANGED <<view, overlay>>
            ELSE /\ target' = leaf /\ pinned' = view
                 /\ view' = Attached(mount_overlayfs(select_layers(Touching(leaf), leaf, leaf), Bare(view, leaf), leaf))
                 /\ children' = IF select_layers(Touching(leaf), leaf, leaf).include_stock
                                THEN (covered \cup mounted) \cap Below(leaf) ELSE {}
  BY DEF MountLeaf
<1>5. /\ leaf \in Leaves /\ leaf \in Whole /\ leaf \in From(leaf) /\ leaf # Root
      /\ todo \subseteq Leaves /\ view[Root] = Directory /\ leaf # target
      /\ \A i \in O, l \in Leaves : modules[i][l] \in {"none"} \cup Dirs
      /\ \A p \in From(leaf) : view[p] = Base[p]
  <2>1. leaf \in Leaves
    BY <1>1 DEF Overlaid
  <2> QED BY <1>1, <2>1, LeavesAre DEF Overlaid, PutBack, From
<1>6. O \subseteq 1 .. Width /\ O \in SUBSET Nat /\ Width \in Nat /\ Forest(modules, O)
  <2>1. O \subseteq 1 .. Width /\ Width \in Nat /\ Forest(modules, O)
    BY <1>1, GivenAre
  <2> QED BY <2>1
<1>7. Touching(leaf) = {i \in O : modules[i][leaf] \in Dirs}
  BY DEF Touching
<1>8. select_layers(Touching(leaf), leaf, leaf) = select_layers(O, leaf, leaf)
  BY <1>5, <1>6, <1>7, SelectAll
<1>9. CASE Touching(leaf) = {}
  <2>1. view' = view /\ target' = target /\ pinned' = pinned /\ children' = children
    BY <1>4, <1>9 DEF overlay
  <2>2. select_layers(O, leaf, leaf).dirs = {} /\ select_layers(O, leaf, leaf).include_stock
    BY <1>8, <1>9 DEF select_layers
  <2>3. ASSUME NEW p \in From(leaf) PROVE view[p] = Final[p]
    <3>1. Lets(modules, O, Root, p) /\ p \in Whole
      BY <1>5, <1>6, <2>2, NoneSelected, LeavesAre
    <3>2. Final[p] = Shows(Base[p])
      BY <1>1, <1>6, <3>1, FinalIs, NoTop
    <3> QED BY <1>1, <1>5, <3>1, <3>2, BaseIs
  <2> HIDE DEF O
  <2>4. Overlaid'
    <3>1. ASSUME NEW l \in Leaves, NEW p \in From(l)
          PROVE  /\ l \in todo' => view[p] = Base[p]
                 /\ l \notin todo' /\ l # target => view[p] = Final[p]
      <4>1. CASE l = leaf
        BY <1>4, <2>3, <4>1
      <4>2. CASE l # leaf
        BY <1>1, <1>4, <4>2 DEF Overlaid
      <4> QED BY <4>1, <4>2
    <3>2. todo' \subseteq Leaves
      BY <1>4, <1>5
    <3> QED BY <1>2, <1>5, <2>1, <3>1, <3>2 DEF Overlaid, O
  <2>5. PutBack'
    <3>1. UnderWay => UnderWay'
      BY <1>2, <2>1 DEF UnderWay, O
    <3>2. target # Root => target \notin todo'
      BY <1>1, <1>4 DEF PutBack
    <3> QED BY <1>1, <1>2, <2>1, <3>1, <3>2 DEF PutBack
  <2>6. Viewed'
    BY <1>1, <1>2, <2>1 DEF Viewed
  <2> QED BY <1>1, <1>2, <1>3, <2>4, <2>5, <2>6 DEF TreesInv
<1>10. CASE Touching(leaf) # {}
  <2> DEFINE selected == select_layers(Touching(leaf), leaf, leaf)
             f == mount_overlayfs(selected, Bare(view, leaf), leaf)
             X == IF selected.include_stock THEN covered \cap Below(leaf) ELSE {}
  <2>1. /\ target' = leaf /\ pinned' = view /\ view' = Attached(f)
        /\ children' = IF selected.include_stock THEN (covered \cup mounted) \cap Below(leaf) ELSE {}
    BY <1>4, <1>10
  <2>2. view \in [Whole -> Types]
    BY <1>1, ViewsAre DEF Viewed
  <2>3. DOMAIN f = From(leaf) /\ From(leaf) \in SUBSET Whole
    BY <1>5, LeavesAre DEF mount_overlayfs, Stacked
  <2>4. selected.dirs # {}
    BY <1>1, <1>5, <1>10, TouchingSelected
  <2>5. ASSUME NEW p \in From(leaf)
        PROVE  f[p] = Merged(modules, O, Bared(view, X)[p], Root, p)
    <3>1. f[p] = Merged(modules, O, Bare(view, leaf)[p], Root, p)
      BY <1>1, <1>5, <2>4, OverlayShows
    <3>2. CASE selected.include_stock
      <4>1. Bare(view, leaf) = Bared(view, X)
        BY <3>2 DEF Bare, Bared
      <4> QED BY <3>1, <4>1
    <3>3. CASE ~selected.include_stock
      <4>1. ~Lets(modules, O, Root, p)
        BY <1>5, <1>6, <1>8, <3>3, NoneSelected
      <4> QED BY <3>1, <4>1, MergedSame
    <3> QED BY <3>2, <3>3
  <2>6. X \subseteq children' \cap covered
    BY <2>1
  <2> HIDE DEF f, X
  <2>7. ASSUME NEW p \in From(leaf) PROVE f[p] \in Types
    <3>1. p \in Whole /\ Bared(view, X)[p] \in Types
      BY <1>6, <2>2, <2>3, BaredIs
    <3> QED BY <1>6, <2>5, <3>1, MergedTyped DEF Types
  <2>8. /\ view' \in [Whole -> Types]
        /\ \A p \in Whole : view'[p] = IF p \in From(leaf) THEN f[p] ELSE view[p]
    BY <2>1, <2>2, <2>3, <2>7, MountsOver
  <2>9. Viewed'
    <3>1. Connected(view)
      BY ViewConnected
    <3>2. view \in Views /\ view' \in Views'
      BY <1>2, <2>2, <2>8, ViewsAre
    <3> QED BY <1>1, <1>2, <1>5, <2>1, <3>1, <3>2 DEF Viewed
  <2> HIDE DEF O, selected
  <2>10. Overlaid'
    <3>1. view'[Root] = Directory
      <4>1. Root \notin From(leaf) /\ Root \in Whole
        BY <1>5, Rooted DEF From, Below
      <4> QED BY <1>5, <2>8, <4>1
    <3>2. ASSUME NEW l \in Leaves, NEW p \in From(l)
          PROVE  /\ l \in todo' => view'[p] = Base[p]
                 /\ l \notin todo' /\ l # leaf => view'[p] = Final[p]
      <4>1. CASE l = leaf
        BY <1>4, <4>1
      <4>2. CASE l # leaf
        <5>1. p \notin From(leaf) /\ p \in Whole
          BY <1>5, <4>2, LeavesAre
        <5>2. view'[p] = view[p]
          BY <2>8, <5>1
        <5>3. l \in todo' <=> l \in todo
          BY <1>4, <4>2
        <5>4. l \in todo => view[p] = Base[p]
          BY <1>1 DEF Overlaid
        <5>5. l \notin todo => view[p] = Final[p]
          BY <1>1, AllFinal
        <5> QED BY <5>2, <5>3, <5>4, <5>5
      <4> QED BY <4>1, <4>2
    <3>3. todo' \subseteq Leaves
      BY <1>4, <1>5
    <3> QED BY <1>2, <1>5, <2>1, <3>1, <3>2, <3>3 DEF Overlaid, O
  <2>11. PutBack'
    <3>1. UnderWay'
      <4>1. \A p \in From(leaf) : view'[p] = Merged(modules, O, Bared(view, X)[p], Root, p)
        BY <2>3, <2>5, <2>8
      <4>2. X \in SUBSET (children' \cap covered')
        BY <1>2, <2>6
      <4> QED BY <1>2, <2>1, <4>1, <4>2 DEF UnderWay, O
    <3>2. children' \subseteq (covered \cup mounted) \cap Below(leaf)
      BY <2>1
    <3>3. \A c \in children' : (covered \cup mounted) \cap Below(c) \subseteq children'
      <4> TAKE c \in children'
      <4>1. c \in Below(leaf) /\ children' = (covered \cup mounted) \cap Below(leaf)
        BY <2>1
      <4>2. Below(c) \subseteq Below(leaf)
        BY <4>1, AboveAll DEF Below
      <4> QED BY <4>1, <4>2
    <3>4. leaf \notin todo' /\ \A p \in From(leaf) : view[p] = Base[p]
      BY <1>4, <1>5
    <3> QED BY <1>2, <1>5, <2>1, <3>1, <3>2, <3>3, <3>4 DEF PutBack
  <2> QED BY <1>1, <1>2, <1>3, <2>9, <2>10, <2>11 DEF TreesInv
<1> QED BY <1>9, <1>10

\* Putting a sub-mount back leaves bare those below it that still are to follow, if it
\* is overlaid, and none of them if it is bound or all of it is cut off.
LEMMA ChildPutBack ==
    ASSUME Inputs, Overlaid, Viewed, PutBack, target \in Leaves, NEW c \in children,
           children \cap Above[c] = {}
    PROVE  LET shown == Attached(mount_overlay_child(c))
           IN  /\ shown \in [Whole -> Types]
               /\ \A p \in Whole : p \notin From(c) => shown[p] = view[p]
               /\ \E Y \in SUBSET ((children \ {c}) \cap covered) :
                    \A p \in From(target) :
                      shown[p] = Merged(modules, Given("overlay"), Bared(pinned, Y)[p], Root, p)
<1> DEFINE O == Given("overlay")
           selected == select_layers(Touching(target), target, c)
           f == mount_overlay_child(c)
           shown == Attached(f)
           same == view[c][1] = pinned[c][1] /\ pinned[c][1] \in {"dir", "file"}
           Showing(v, Y) == \A p \in From(target) : v[p] = Merged(modules, O, Bared(pinned, Y)[p], Root, p)
<1>1. /\ Forest(modules, O) /\ O \subseteq 1 .. Width /\ O \in SUBSET Nat /\ Width \in Nat
      /\ \A i \in O : modules[i][target] \in {"none"} \cup Dirs
  <2>1. Forest(modules, O) /\ O \subseteq 1 .. Width /\ Width \in Nat
    BY GivenAre
  <2> QED BY <2>1 DEF Overlaid
<1>2. /\ c \in Below(target) /\ c \in covered \cup mounted /\ c \in From(target)
      /\ (covered \cup mounted) \cap Below(c) \subseteq children
      /\ \A p \in From(target) : pinned[p] = Base[p]
      /\ view \in [Whole -> Types] /\ pinned \in [Whole -> Types] /\ Connected(pinned)
  BY LeavesAre, ViewsAre DEF PutBack, Viewed, From
<1>3. /\ c \in Paths /\ c \in Whole /\ From(c) \subseteq From(target) /\ From(target) \in SUBSET Whole
      /\ c \in From(c)
  <2>1. c \in Paths /\ c \in Whole /\ From(target) \in SUBSET Whole
    BY <1>2, LeavesAre
  <2>2. \A p \in Below(c) : p \in Below(target)
    BY <1>2, AboveAll DEF Below
  <2> QED BY <1>2, <2>1, <2>2 DEF From
<1>4. PICK X \in SUBSET (children \cap covered) : Showing(view, X)
  <2>1. UnderWay
    BY LeavesAre DEF PutBack
  <2> QED BY <2>1 DEF UnderWay
<1>5. X \cap Above[c] = {}
  OBVIOUS
<1>6. \A p \in From(target) : Shows(pinned[p]) = pinned[p]
  BY <1>2, <1>3, BaseIs
<1>7. selected = select_layers(O, target, c)
  BY <1>1, <1>2, SelectAll DEF Touching
<1>8. f = IF same
          THEN IF selected.dirs # {} THEN mount_overlayfs(selected, Bare(pinned, c), c)
               ELSE IF selected.include_stock THEN [p \in From(c) |-> pinned[p]] ELSE <<>>
          ELSE <<>>
  BY DEF mount_overlay_child
<1>9. SUFFICES /\ shown \in [Whole -> Types]
               /\ \A p \in Whole : p \notin From(c) => shown[p] = view[p]
               /\ \E Y \in SUBSET ((children \ {c}) \cap covered) : Showing(shown, Y)
  OBVIOUS
<1>10. ASSUME ~same \/ (selected.dirs = {} /\ ~selected.include_stock)
       PROVE  /\ shown = view
              /\ Showing(view, X \ {c}) /\ X \ {c} \subseteq (children \ {c}) \cap covered
  <2>1. f = <<>>
    BY <1>8, <1>10
  <2>2. shown = [p \in Whole |-> view[p]]
    <3>1. DOMAIN <<>> = {}
      OBVIOUS
    <3> HIDE DEF f
    <3> QED BY <2>1, <3>1 DEF Attached
  <2>3. view[c] = Merged(modules, O, Bared(pinned, X)[c], Root, c)
    BY <1>2, <1>4
  <2>4. \/ ~(view[c][1] = pinned[c][1] /\ pinned[c][1] \in {"dir", "file"})
        \/ \A p \in From(c) : ~Lets(modules, O, Root, p)
    BY <1>1, <1>2, <1>7, <1>10, NoneSelected
  <2>5. \A p \in From(c) : Shows(pinned[p]) = pinned[p]
    BY <1>3, <1>6
  <2> HIDE DEF O
  <2>6. ASSUME NEW p \in From(target)
        PROVE  view[p] = Merged(modules, O, Bared(pinned, X \ {c})[p], Root, p)
    <3>1. p \in Whole
      BY <1>3
    <3>2. Merged(modules, O, Bared(pinned, X)[p], Root, p)
            = Merged(modules, O, Bared(pinned, X \ {c})[p], Root, p)
      BY <1>1, <1>2, <1>3, <1>5, <2>3, <2>4, <2>5, <3>1, ChildSkipped
    <3> QED BY <1>4, <3>2
  <2> QED BY <1>2, <2>2, <2>6
<1>11. ASSUME NEW Y, Y \subseteq (children \ {c}) \cap covered, Y \ From(c) = X \ From(c),
              DOMAIN f = From(c),
              \A p \in From(c) : f[p] = Merged(modules, O, Bared(pinned, Y)[p], Root, p)
       PROVE  /\ shown \in [Whole -> Types]
              /\ \A p \in Whole : p \notin From(c) => shown[p] = view[p]
              /\ Showing(shown, Y)
  <2> HIDE DEF f, O
  <2>1. ASSUME NEW p \in From(c) PROVE f[p] \in Types
    <3>1. p \in Whole /\ Bared(pinned, Y)[p] \in Types
      BY <1>1, <1>2, <1>3, BaredIs
    <3>2. Merged(modules, O, Bared(pinned, Y)[p], Root, p) \in Types
      BY <1>1, <3>1, MergedTyped DEF Types
    <3> QED BY <1>11, <3>2
  <2>2. /\ shown \in [Whole -> Types]
        /\ \A p \in Whole : shown[p] = IF p \in From(c) THEN f[p] ELSE view[p]
    <3>1. From(c) \in SUBSET Whole
      BY <1>3
    <3> QED BY <1>2, <1>11, <2>1, <3>1, MountsOver
  <2> HIDE DEF shown
  <2>3. ASSUME NEW p \in From(target)
        PROVE  shown[p] = Merged(modules, O, Bared(pinned, Y)[p], Root, p)
    <3>1. p \in Whole
      BY <1>3
    <3>2. CASE p \in From(c)
      BY <1>11, <2>2, <3>1, <3>2
    <3>3. CASE p \notin From(c)
      <4>1. shown[p] = Merged(modules, O, Bared(pinned, X)[p], Root, p)
        BY <1>4, <2>2, <3>1, <3>3
      <4>2. Bared(pinned, X)[p] = Bared(pinned, Y)[p]
        BY <1>3, <1>11, <3>1, <3>3, BaredOutside
      <4> QED BY <4>1, <4>2
    <3> QED BY <3>2, <3>3
  <2> QED BY <2>2, <2>3
<1>12. CASE same /\ selected.dirs # {}
  <2> DEFINE Y == (X \ From(c)) \cup (covered \cap Below(c))
  <2>1. f = mount_overlayfs(selected, Bare(pinned, c), c)
    BY <1>8, <1>12
  <2>2. DOMAIN f = From(c)
    BY <2>1 DEF mount_overlayfs, Stacked
  <2>3. ASSUME NEW p \in From(c) PROVE f[p] = Merged(modules, O, Bared(pinned, Y)[p], Root, p)
    <3>1. mount_overlayfs(selected, Bare(pinned, c), c)[p] = Merged(modules, O, Bare(pinned, c)[p], Root, p)
      BY <1>1, <1>2, <1>12, OverlayShows
    <3>2. Bared(pinned, Y)[p] = Bare(pinned, c)[p]
      BY <1>3, <1>5, ChildOverlaid
    <3> QED BY <2>1, <3>1, <3>2
  <2>4. Y \subseteq (children \ {c}) \cap covered /\ Y \ From(c) = X \ From(c)
    <3>1. c \notin Below(c) /\ Below(c) \subseteq From(c)
      BY <1>3, AboveAll DEF From, Below
    <3> QED BY <1>2, <1>3, <3>1
  <2> HIDE DEF f, Y
  <2>5. Showing(shown, Y) /\ shown \in [Whole -> Types] /\ \A p \in Whole : p \notin From(c) => shown[p] = view[p]
    BY <1>11, <2>2, <2>3, <2>4
  <2> QED BY <2>4, <2>5
<1>13. CASE same /\ selected.dirs = {} /\ selected.include_stock
  <2> DEFINE Y == X \ From(c)
  <2>1. f = [p \in From(c) |-> pinned[p]]
    BY <1>8, <1>13
  <2>2. ASSUME NEW p \in From(c) PROVE f[p] = Merged(modules, O, Bared(pinned, Y)[p], Root, p)
    <3>1. Lets(modules, O, Root, p)
      BY <1>1, <1>2, <1>7, <1>13, NoneSelected
    <3>2. Shows(pinned[p]) = pinned[p]
      BY <1>3, <1>6
    <3>3. Bared(pinned, Y)[p] = pinned[p]
      <4>1. Y \cap From(c) = {} /\ Y \cap Above[c] = {} /\ c \in Paths
        BY <1>3, <1>5
      <4> HIDE DEF Y
      <4> QED BY <4>1, ChildBound
    <3> HIDE DEF O, Y
    <3>4. Merged(modules, O, pinned[p], Root, p) = Shows(pinned[p])
      BY <1>1, <3>1, NoTop
    <3> QED BY <2>1, <3>2, <3>3, <3>4
  <2>3. Y \subseteq (children \ {c}) \cap covered /\ Y \ From(c) = X \ From(c) /\ DOMAIN f = From(c)
    BY <1>3, <2>1
  <2> HIDE DEF f, Y
  <2>4. Showing(shown, Y) /\ shown \in [Whole -> Types] /\ \A p \in Whole : p \notin From(c) => shown[p] = view[p]
    BY <1>11, <2>2, <2>3
  <2> QED BY <2>3, <2>4
<1>14. CASE ~same \/ (selected.dirs = {} /\ ~selected.include_stock)
  <2>1. shown = view /\ Showing(view, X \ {c}) /\ X \ {c} \subseteq (children \ {c}) \cap covered
    BY <1>10, <1>14
  <2> HIDE DEF shown
  <2> QED BY <1>2, <2>1
<1> HIDE DEF shown, same, selected
<1> QED BY <1>12, <1>13, <1>14

LEMMA MountChildInv ==
    ASSUME TreesInv, MountChild
    PROVE  TreesInv'
<1> DEFINE O == Given("overlay")
<1>1. PICK c \in children :
         /\ children \cap Above[c] = {}
         /\ view' = Attached(mount_overlay_child(c)) /\ children' = children \ {c}
  BY DEF MountChild
<1>2. /\ Inputs /\ Merging /\ Viewed /\ at = "leaves" /\ Overlaid /\ PutBack
      /\ UNCHANGED <<inputs, at, todo, tree, refused, covered, target, pinned>>
  <2>1. Inputs /\ Merging /\ Viewed /\ (at # "leaves" => children = {})
    BY DEF TreesInv, Viewed
  <2> QED BY <1>1, <2>1 DEF TreesInv, MountChild
<1>3. /\ at' = at /\ refused' = refused /\ covered' = covered /\ mounted' = mounted /\ modules' = modules
      /\ todo' = todo /\ target' = target /\ pinned' = pinned
      /\ Inputs' /\ Views' = Views /\ O' = O /\ Base' = Base /\ Final' = Final
  BY <1>2, Kept DEF inputs
<1>4. Merging'
  BY <1>2, MergingKept DEF Merging
<1>5. target \in Leaves /\ target # Root
  BY <1>1, <1>2 DEF PutBack
<1>6. /\ view' \in [Whole -> Types]
      /\ \A p \in Whole : p \notin From(c) => view'[p] = view[p]
      /\ \E Y \in SUBSET (children' \cap covered) :
           \A p \in From(target) : view'[p] = Merged(modules, O, Bared(pinned, Y)[p], Root, p)
  BY <1>1, <1>2, <1>5, ChildPutBack
<1>7. c \in Below(target) /\ \A p \in From(c) : p \in From(target)
  <2>1. c \in Below(target) /\ target \in Whole
    BY <1>2, <1>5, LeavesAre DEF PutBack
  <2> QED BY <2>1, AboveAll DEF From, Below
<1> HIDE DEF O
<1>8. Viewed'
  <2>1. view' \in Views'
    BY <1>3, <1>6, ViewsAre
  <2> QED BY <1>2, <1>3, <2>1 DEF Viewed
<1>9. Overlaid'
  <2>1. view'[Root] = Directory
    <3>1. Root \in Whole /\ Root \notin From(target)
      BY <1>5, Rooted, LeavesAre
    <3> QED BY <1>2, <1>6, <1>7, <3>1 DEF Overlaid
  <2>2. ASSUME NEW leaf \in Leaves, leaf # target, NEW p \in From(leaf) PROVE view'[p] = view[p]
    <3>1. p \notin From(target) /\ p \in Whole
      BY <1>5, <2>2, LeavesAre
    <3> QED BY <1>6, <1>7, <3>1
  <2>3. target \notin todo
    BY <1>2, <1>5 DEF PutBack
  <2> QED BY <1>2, <1>3, <2>1, <2>2, <2>3 DEF Overlaid, O
<1>10. PutBack'
  <2>1. UnderWay'
    BY <1>3, <1>6 DEF UnderWay, O
  <2>2. \A d \in children' : (covered \cup mounted) \cap Below(d) \subseteq children'
    <3> TAKE d \in children'
    <3>1. d \in children /\ d \in Below(target)
      BY <1>1, <1>2 DEF PutBack
    <3>2. c \notin Below(d)
      BY <1>1, <3>1 DEF Below
    <3> QED BY <1>1, <1>2, <3>1, <3>2 DEF PutBack
  <2>3. children' \subseteq (covered \cup mounted) \cap Below(target)
    BY <1>1, <1>2 DEF PutBack
  <2>4. target \notin todo /\ \A p \in From(target) : pinned[p] = Base[p]
    BY <1>2, <1>5 DEF PutBack
  <2> QED BY <1>3, <1>5, <2>1, <2>2, <2>3, <2>4 DEF PutBack
<1> QED BY <1>2, <1>3, <1>4, <1>8, <1>9, <1>10 DEF TreesInv

LEMMA TreesStep == TreesInv /\ [TreesNext]_treevars => TreesInv'
<1> SUFFICES ASSUME TreesInv, [TreesNext]_treevars PROVE TreesInv'
  OBVIOUS
<1>1. CASE UNCHANGED treevars
  <2>1. UNCHANGED inputs /\ UNCHANGED <<at, todo, tree, refused, view, covered, overlay>>
    BY <1>1 DEF treevars
  <2>2. /\ at' = at /\ todo' = todo /\ tree' = tree /\ refused' = refused /\ view' = view /\ covered' = covered
        /\ target' = target /\ pinned' = pinned /\ children' = children
        /\ stock' = stock /\ mounted' = mounted /\ modules' = modules
    BY <2>1 DEF inputs, overlay
  <2>3. /\ Inputs => Inputs'
        /\ Views' = Views /\ Given("magic")' = Given("magic") /\ Given("overlay")' = Given("overlay")
        /\ Base' = Base /\ Final' = Final
    BY <2>1, <2>2, Kept
  <2>4. Refused' = Refused
    BY <2>2 DEF Refused, Children, Needs
  <2>5. Merging => Merging'
    BY <2>2, <2>3, <2>4 DEF Merging
  <2>6. Viewed => Viewed'
    BY <2>2, <2>3 DEF Viewed
  <2>7. Overlaid => Overlaid'
    BY <2>2, <2>3 DEF Overlaid
  <2>8. PutBack => PutBack'
    <3>1. UnderWay => UnderWay'
      BY <2>2, <2>3 DEF UnderWay
    <3> QED BY <2>2, <2>3, <3>1 DEF PutBack
  <2> QED BY <2>2, <2>3, <2>5, <2>6, <2>7, <2>8 DEF TreesInv
<1> QED BY <1>1, CollectInv, WalkInv, PlanInv, MountLeafInv, MountChildInv, FinishInv DEF TreesNext

LEMMA TreesAlways == TreesSpec => []TreesInv
BY InitInv, TreesStep, PTL DEF TreesSpec

-----------------------------------------------------------------------------
(* What follows.                                                             *)

\* Views are of the right type, what they show is in directories they show, and so
\* are the nodes of Magic Mount's merged tree: at every step, those of the walk and
\* of the overlays included.
THEOREM TreesTypeCorrect == TreesSpec => []TreesTyped
<1>1. TreesInv => TreesTyped
  <2> SUFFICES ASSUME TreesInv PROVE TreesTyped
    OBVIOUS
  <2>1. Inputs /\ Merging /\ Viewed
    BY DEF TreesInv
  <2>2. PICK A \in SUBSET Given("magic") : Grown(tree, modules, A)
    BY <2>1 DEF Merging
  <2>3. Forest(modules, A)
    BY <2>1, GivenAre DEF Forest
  <2>4. \A p \in Paths : tree[p].kind # "none" => (p \in Leaves \/ tree[Parent[p]].kind = "dir")
    BY <2>2, <2>3, NodesConnected
  <2>5. children \subseteq Paths
    <3>1. children \subseteq covered \cup mounted
      BY <2>1 DEF TreesInv, Viewed, PutBack
    <3> QED BY <2>1, <3>1 DEF Merging, Inputs
  <2>6. Connected(view)
    BY ViewConnected
  <2> QED BY <2>1, <2>4, <2>5, <2>6 DEF TreesTyped, Viewed, Merging
<1> QED BY <1>1, TreesAlways, PTL

\* The pass ends with the union of all accepted modules over the stock tree, whatever
\* trees they have, in however many directories, and whatever the device had mounted
\* in them.
THEOREM ShowsUnion == TreesSpec => []UnionShown
<1>1. TreesInv => UnionShown
  <2> SUFFICES ASSUME TreesInv, at = "done"
               PROVE  view = Stacked(LayersOf("overlay") \o LayersOf("magic") \o <<Layer(stock, 0)>>, Root)
    BY DEF UnionShown
  <2> DEFINE A == IF "overlay" \in refused THEN {} ELSE Given("overlay")
             all == Stacked(Layers(A) \o Layers(Taken) \o <<Layer(stock, 0)>>, Root)
  <2>1. Inputs /\ Viewed /\ Width \in Nat
    BY DEF TreesInv, Inputs
  <2>2. A \in SUBSET (1 .. Width) /\ Taken \in SUBSET (1 .. Width) /\ A \in SUBSET Nat
    <3>1. Given("overlay") \subseteq 1 .. Width
      BY <2>1, GivenAre
    <3>2. A \subseteq 1 .. Width
      BY <3>1
    <3> QED BY <2>1, <3>2, TakenAre
  <2>3. LayersOf("overlay") = Layers(A) /\ LayersOf("magic") = Layers(Taken)
    BY DEF LayersOf, Taken
  <2> HIDE DEF A
  <2>4. ASSUME NEW p \in Whole PROVE all[p] = view[p]
    <3>1. p \in From(Root) /\ Root \in Whole /\ Layer(stock, 0)[p] = <<stock[p], 0>>
      BY Rooted DEF Layer
    <3>2. all[p] = Merged(modules, A, Merged(modules, Taken, Layer(stock, 0)[p], Root, p), Root, p)
      BY <2>1, <2>2, <3>1, LayersOverLayers
    <3>3. all[p] = Merged(modules, A, Base[p], Root, p)
      BY <3>1, <3>2 DEF Base
    <3> HIDE DEF all
    <3>4. CASE "overlay" \in refused
      <4>1. A = {} /\ view = Base
        BY <2>1, <3>4 DEF A, Viewed
      <4>2. Merged(modules, {}, Base[p], Root, p) = Shows(Base[p])
        BY DEF Merged, Lets, Free
      <4>3. Shows(Base[p]) = Base[p]
        BY <2>1, BaseIs
      <4> QED BY <3>3, <4>1, <4>2, <4>3
    <3>5. CASE "overlay" \notin refused
      <4>1. A = Given("overlay") /\ view = Final
        BY <2>1, <3>5 DEF A, Viewed
      <4> QED BY <2>1, <3>3, <4>1, FinalIs
    <3> QED BY <3>4, <3>5
  <2>5. all = [p \in Whole |-> all[p]]
    BY Rooted DEF Stacked
  <2>6. view \in [Whole -> Types]
    BY <2>1, ViewsAre DEF Viewed
  <2> HIDE DEF all
  <2>7. view = all
    BY <2>4, <2>5, <2>6
  <2> QED BY <2>3, <2>7 DEF all
<1> QED BY <1>1, TreesAlways, PTL

\* No module that shows or hides anything, once Magic Mount has walked, is left out
\* of the record.
THEOREM CreditsShown == TreesSpec => []CreditedShow
<1>1. TreesInv => CreditedShow
  <2> SUFFICES ASSUME TreesInv, at = "overlay", "magic" \notin refused, NEW m \in Given("magic"), Contributes(m)
               PROVE  m \in contribution_owners
    BY DEF CreditedShow
  <2>1. Inputs /\ Merging
    BY DEF TreesInv
  <2>2. Grown(tree, modules, Given("magic")) /\ ~Refused /\ IsTree(stock) /\ stock[Root] = "dir"
    BY <2>1 DEF Merging, Inputs
  <2>3. Given("magic") \in SUBSET (1 .. Width) /\ Width \in Nat /\ Forest(modules, Given("magic"))
    BY <2>1, GivenAre
  <2> QED BY <2>2, <2>3, ContributorsCredited
<1> QED BY <1>1, TreesAlways, PTL

(***************************************************************************)
(*                              BootRecovery                               *)
(***************************************************************************)
USE DEF InMountAll, disk, ghosts

LEMMA Limits ==
    /\ MaxAttempts \in Nat /\ MaxAttempts > 0
    /\ MaxBoots \in Nat /\ MaxBoots > 0
    /\ Polls \in Nat /\ NoWatcher \in Nat /\ NoWatcher = Polls + 1
BY ConstantsAssumption DEF NoWatcher

USE Limits

-----------------------------------------------------------------------------
(* The claim: it needs nothing of the counter or the environment.          *)

\* TypeOK in two halves, for provers that take one or the other.
Flags == completed \in BOOLEAN /\ disabled \in BOOLEAN
Numbers ==
    /\ boot \in 1..MaxBoots
    /\ claim \in 0..MaxBoots
    /\ attempts \in 0..MaxAttempts
    /\ daemon \in InMountAll \cup {"down", "idle"}
    /\ tally \in 0..MaxAttempts
    /\ watcher \in 0..NoWatcher
    /\ unconfirmed \in Nat /\ outlasted \in Nat /\ torn \in Nat
    /\ deaths \in Nat
    /\ mounts \in Nat

LEMMA TypeSplit == TypeOK <=> Flags /\ Numbers
BY Zenon DEF TypeOK, Flags, Numbers

\* What a claim in this boot, a watcher and a mount pass say of each other.
ClaimInv ==
    /\ claim <= boot
    /\ daemon \in InMountAll => claim = boot
    /\ watcher # NoWatcher => claim = boot /\ daemon \in {"down", "idle"}
    /\ mounts > 0 => claim = boot /\ daemon \in {"down", "idle", "mounting"}
    /\ mounts <= 1
    /\ daemon = "counting" => attempts = 0 /\ tally < MaxAttempts
    /\ daemon # "counting" => tally = 0

LEMMA InitClaim == Init => TypeOK /\ ClaimInv
<1>1. Init => Flags
  BY DEF Init, Flags
<1>2. Init => Numbers /\ ClaimInv
  BY DEF Init, Numbers, ClaimInv
<1>3. QED
  BY <1>1, <1>2, TypeSplit

LEMMA FlagsStep == Flags /\ [Next]_vars => Flags'
<1> SUFFICES ASSUME Flags, [Next]_vars PROVE Flags'
  OBVIOUS
<1>1. UNCHANGED completed \/ completed' = TRUE \/ completed' = FALSE
  BY Zenon DEF Next, vars, ClaimBoot, Autoload, Refuse, Trip, TruncateCounter, WriteCounter,
     AbandonPlan, MountBackends, EndMountAll, Poll, WatcherConfirms, HookConfirms, RecoveryReset,
     StartDaemon, KillDaemon, SystemCompletes, DeviceDies
<1>2. UNCHANGED disabled \/ disabled' = TRUE \/ disabled' = FALSE
  BY Zenon DEF Next, vars, ClaimBoot, Autoload, Refuse, Trip, TruncateCounter, WriteCounter,
     AbandonPlan, MountBackends, EndMountAll, Poll, WatcherConfirms, HookConfirms, RecoveryReset,
     StartDaemon, KillDaemon, SystemCompletes, DeviceDies
<1>3. QED
  BY <1>1, <1>2, Zenon DEF Flags

LEMMA NumbersStep == Numbers /\ ClaimInv /\ [Next]_vars => Numbers' /\ ClaimInv'
<1> SUFFICES ASSUME Numbers, ClaimInv, [Next]_vars PROVE Numbers' /\ ClaimInv'
  OBVIOUS
<1> USE DEF Numbers, ClaimInv
<1>1. CASE UNCHANGED vars
  BY <1>1 DEF vars
<1>2. CASE ClaimBoot
  BY <1>2 DEF ClaimBoot, Unclaimed
<1>3. CASE Autoload \/ Refuse
  BY <1>3 DEF Autoload, Refuse
<1>4. CASE Trip
  BY <1>4 DEF Trip
<1>5. CASE TruncateCounter
  BY <1>5 DEF TruncateCounter, TooManyAttempts
<1>6. CASE WriteCounter
  BY <1>6 DEF WriteCounter
<1>7. CASE AbandonPlan
  BY <1>7 DEF AbandonPlan
<1>8. CASE MountBackends
  BY <1>8 DEF MountBackends
<1>9. CASE EndMountAll
  BY <1>9 DEF EndMountAll
<1>10. CASE Poll \/ WatcherConfirms
  BY <1>10 DEF Poll, WatcherConfirms
<1>11. CASE HookConfirms \/ RecoveryReset
  BY <1>11 DEF HookConfirms, RecoveryReset
<1>12. CASE StartDaemon \/ KillDaemon
  BY <1>12 DEF StartDaemon, KillDaemon
<1>13. CASE SystemCompletes
  BY <1>13 DEF SystemCompletes
<1>14. CASE DeviceDies
  <2>1. attempts' \in 0..MaxAttempts /\ torn' \in Nat
    BY <1>14 DEF DeviceDies, Found, Count
  <2> QED BY <1>14, <2>1 DEF DeviceDies
<1>15. QED
  BY <1>1, <1>2, <1>3, <1>4, <1>5, <1>6, <1>7, <1>8, <1>9, <1>10, <1>11, <1>12, <1>13, <1>14
     DEF Next

LEMMA ClaimStep == TypeOK /\ ClaimInv /\ [Next]_vars => TypeOK' /\ ClaimInv'
<1>1. TypeOK' <=> Flags' /\ Numbers'
  BY Zenon DEF TypeOK, Flags, Numbers
<1>2. QED
  BY <1>1, TypeSplit, FlagsStep, NumbersStep

\* The files, the daemon's stages and the watcher keep their types.
THEOREM TypeCorrect == Spec => []TypeOK
BY InitClaim, ClaimStep, PTL DEF Spec

\* One boot mounts once: killing and restarting the daemon, asking again and
\* tearing the counter do not change that.
THEOREM MountsOnce == Spec => []MountsOncePerBoot
<1>1. TypeOK /\ ClaimInv => MountsOncePerBoot
  BY DEF ClaimInv, MountsOncePerBoot
<1>2. QED
  BY <1>1, InitClaim, ClaimStep, PTL DEF Spec

-----------------------------------------------------------------------------
(* The bound.                                                              *)

\* The boots that losing the counter has cost.
Budget == MaxAttempts * (outlasted + torn)

LEMMA BudgetIs ==
    ASSUME Numbers
    PROVE  /\ Budget \in Nat
           /\ MaxAttempts * (outlasted + torn + 1) = Budget + MaxAttempts
           /\ (outlasted' = 0 /\ torn' = 0) => Budget' = 0
           /\ UNCHANGED <<outlasted, torn>> => Budget' = Budget
           /\ outlasted' = outlasted + 1 /\ torn' = torn => Budget' = Budget + MaxAttempts
           /\ outlasted' = outlasted /\ torn' = torn + 1 => Budget' = Budget + MaxAttempts
<1>1. outlasted \in Nat /\ torn \in Nat
  BY DEF Numbers
<1> DEFINE lost == outlasted + torn
<1>2. lost \in Nat
  BY <1>1
<1>3. \A n \in Nat : MaxAttempts * n \in Nat /\ MaxAttempts * (n + 1) = MaxAttempts * n + MaxAttempts
  OBVIOUS
<1>4. Budget \in Nat /\ MaxAttempts * (outlasted + torn + 1) = Budget + MaxAttempts
  BY <1>2, <1>3 DEF Budget
<1>5. outlasted' = 0 /\ torn' = 0 => Budget' = 0
  <2>1. MaxAttempts * (0 + 0) = 0
    OBVIOUS
  <2> QED BY <2>1 DEF Budget
<1>6. UNCHANGED <<outlasted, torn>> => Budget' = Budget
  BY DEF Budget
<1>7. outlasted' + torn' = outlasted + torn + 1 => Budget' = Budget + MaxAttempts
  BY <1>4 DEF Budget
<1>8. outlasted' = outlasted + 1 /\ torn' = torn => Budget' = Budget + MaxAttempts
  <2>1. outlasted + 1 + torn = outlasted + torn + 1
    BY <1>1
  <2> QED BY <1>7, <2>1
<1>9. outlasted' = outlasted /\ torn' = torn + 1 => Budget' = Budget + MaxAttempts
  <2>1. outlasted + (torn + 1) = outlasted + torn + 1
    BY <1>1
  <2> QED BY <1>7, <2>1
<1> QED BY <1>4, <1>5, <1>6, <1>8, <1>9

\* The counter, or what was read from it, is ahead of the mounts it stands for: those
\* that no loss of it has paid for.
CountInv ==
    /\ completed => unconfirmed = 0
    /\ daemon = "counting" => unconfirmed <= tally + Budget
    /\ daemon = "counted" => attempts > 0 /\ unconfirmed < attempts + Budget
    /\ daemon # "counting" => unconfirmed <= attempts + Budget

LEMMA CountStep ==
    ASSUME TypeOK, ClaimInv, CountInv, [Next]_vars
    PROVE  CountInv'
<1> USE DEF ClaimInv, CountInv
<1>1. Numbers /\ completed \in BOOLEAN
  BY TypeSplit DEF Flags
<1>2. /\ attempts \in 0..MaxAttempts /\ tally \in 0..MaxAttempts /\ unconfirmed \in Nat
      /\ Budget \in Nat
  BY <1>1, BudgetIs DEF Numbers
<1>3. CASE UNCHANGED vars
  <2>1. Budget' = Budget
    BY <1>1, <1>3, BudgetIs DEF vars
  <2> QED BY <1>2, <1>3, <2>1 DEF vars
<1>4. CASE ClaimBoot \/ Autoload \/ Refuse \/ Trip \/ TruncateCounter \/ WriteCounter
           \/ AbandonPlan \/ EndMountAll \/ Poll \/ StartDaemon
  <2>1. Budget' = Budget
    BY <1>1, <1>4, BudgetIs DEF ClaimBoot, Autoload, Refuse, Trip, TruncateCounter, WriteCounter,
       AbandonPlan, EndMountAll, Poll, StartDaemon
  <2>2. CASE ClaimBoot \/ Autoload \/ Refuse \/ Trip
    BY <1>2, <2>1, <2>2 DEF ClaimBoot, Autoload, Refuse, Trip
  <2>3. CASE TruncateCounter \/ WriteCounter
    BY <1>2, <2>1, <2>3 DEF TruncateCounter, WriteCounter
  <2>4. CASE AbandonPlan \/ EndMountAll \/ Poll \/ StartDaemon
    BY <1>2, <2>1, <2>4 DEF AbandonPlan, EndMountAll, Poll, StartDaemon
  <2> QED BY <1>4, <2>2, <2>3, <2>4
<1>5. CASE MountBackends
  <2>1. Budget' = Budget
    BY <1>1, <1>5, BudgetIs DEF MountBackends
  <2> QED BY <1>1, <1>2, <1>5, <2>1 DEF MountBackends
<1>6. CASE WatcherConfirms
  <2>1. daemon \in {"down", "idle"} /\ daemon' = daemon /\ attempts' = 0
        /\ UNCHANGED <<completed, unconfirmed>>
    BY <1>6 DEF WatcherConfirms
  <2>2. CASE completed
    <3>1. Budget' = Budget
      BY <1>1, <1>6, <2>2, BudgetIs DEF WatcherConfirms
    <3> QED BY <1>2, <2>1, <2>2, <3>1
  <2>3. CASE ~completed
    <3>1. Budget' = Budget + MaxAttempts
      BY <1>1, <1>6, <2>3, BudgetIs DEF WatcherConfirms
    <3> QED BY <1>2, <2>1, <2>3, <3>1
  <2> QED BY <2>2, <2>3
<1>7. CASE HookConfirms
  <2>1. Budget' = Budget
    BY <1>1, <1>7, BudgetIs DEF HookConfirms
  <2> QED BY <1>2, <1>7, <2>1 DEF HookConfirms
<1>8. CASE RecoveryReset \/ SystemCompletes
  <2>1. Budget' = 0
    BY <1>1, <1>8, BudgetIs DEF RecoveryReset, SystemCompletes
  <2> QED BY <1>2, <1>8, <2>1 DEF RecoveryReset, SystemCompletes
<1>9. CASE KillDaemon
  <2>1. Budget' = IF daemon = "counting" THEN Budget + MaxAttempts ELSE Budget
    BY <1>1, <1>9, BudgetIs DEF KillDaemon
  <2> QED BY <1>2, <1>9, <2>1 DEF KillDaemon
<1>10. CASE DeviceDies
  <2>1. /\ daemon' = "down" /\ completed' = FALSE /\ unconfirmed' = unconfirmed
        /\ attempts' \in 0..MaxAttempts
    BY <1>2, <1>10 DEF DeviceDies, Found, Count
  <2>2. unconfirmed <= Count + Budget /\ Count \in 0..MaxAttempts
    BY <1>2 DEF Count
  <2>3. Budget' = IF attempts' # Count THEN Budget + MaxAttempts ELSE Budget
    BY <1>1, <1>10, BudgetIs DEF DeviceDies
  <2>4. unconfirmed <= attempts' + Budget'
    <3>1. CASE attempts' = Count
      BY <1>2, <2>2, <2>3, <3>1
    <3>2. CASE attempts' # Count
      <4>1. Budget' = Budget + MaxAttempts
        BY <2>3, <3>2
      <4>2. /\ unconfirmed \in Nat /\ Count \in Nat /\ Budget \in Nat /\ attempts' \in Nat
            /\ MaxAttempts \in Nat /\ Count <= MaxAttempts
        BY <1>2, <2>1, <2>2
      <4>3. \A u, c, b, n, m \in Nat : u <= c + b /\ c <= m => u <= n + (b + m)
        OBVIOUS
      <4>4. unconfirmed <= Count + Budget
        BY <2>2
      <4> HIDE DEF CountInv, ClaimInv
      <4>5. unconfirmed <= attempts' + (Budget + MaxAttempts)
        BY <4>2, <4>3, <4>4
      <4> QED BY <4>1, <4>5
    <3> QED BY <3>1, <3>2
  <2> QED BY <2>1, <2>4
<1> QED
  BY <1>3, <1>4, <1>5, <1>6, <1>7, <1>8, <1>9, <1>10 DEF Next

\* A module set that keeps the device from booting is mounted MaxAttempts times at most,
\* and as often again for every loss of the counter, through every interleaving of daemon
\* deaths, watchers that give up, hooks and resets.
THEOREM BootloopBounded == Spec => []BootloopBound
<1>1. Init => CountInv
  <2> SUFFICES ASSUME Init PROVE CountInv
    OBVIOUS
  <2>1. Numbers
    BY InitClaim, TypeSplit
  <2>2. Budget \in Nat
    BY <2>1, BudgetIs
  <2> QED BY <2>2 DEF Init, CountInv
<1>2. TypeOK /\ ClaimInv /\ CountInv => BootloopBound
  <2> SUFFICES ASSUME TypeOK, ClaimInv, CountInv PROVE BootloopBound
    OBVIOUS
  <2>1. Numbers
    BY TypeSplit
  <2>2. /\ attempts \in 0..MaxAttempts /\ tally \in 0..MaxAttempts /\ unconfirmed \in Nat
        /\ Budget \in Nat /\ MaxAttempts * (outlasted + torn + 1) = Budget + MaxAttempts
    BY <2>1, BudgetIs DEF Numbers
  <2> QED BY <2>2 DEF CountInv, BootloopBound
<1>3. TypeOK /\ ClaimInv /\ CountInv /\ [Next]_vars => (TypeOK /\ ClaimInv /\ CountInv)'
  BY ClaimStep, CountStep
<1>4. QED
  BY <1>1, <1>2, <1>3, InitClaim, PTL DEF Spec

-----------------------------------------------------------------------------
(* Refinement.                                                             *)

LEMMA FuseInit == Init => Fuse!Init
BY DEF Init, Fuse!Init, Chance, Count

\* Nothing trips while the counter is being rewritten.
CountingIntact == daemon = "counting" => ~disabled

LEMMA IntactStep == TypeOK /\ CountingIntact /\ [Next]_vars => CountingIntact'
<1> SUFFICES ASSUME TypeOK, CountingIntact, [Next]_vars PROVE CountingIntact'
  OBVIOUS
<1>1. CASE UNCHANGED vars
  BY <1>1 DEF vars, CountingIntact
<1>2. CASE Next
  BY <1>2 DEF Next, CountingIntact, ClaimBoot, Autoload, Refuse, Trip, TruncateCounter,
     WriteCounter, AbandonPlan, MountBackends, EndMountAll, Poll, WatcherConfirms, HookConfirms,
     RecoveryReset, StartDaemon, KillDaemon, SystemCompletes, DeviceDies
<1>3. QED
  BY <1>1, <1>2

LEMMA FuseStep ==
    ASSUME TypeOK, ClaimInv, CountingIntact, [Next]_vars
    PROVE  [Fuse!Next]_(Fuse!fuse)
<1> USE DEF TypeOK, ClaimInv, CountingIntact, Chance, Count, Fuse!fuse
<1>1. CASE UNCHANGED vars
  BY <1>1 DEF vars
<1>2. CASE ClaimBoot \/ Autoload
  BY <1>2 DEF ClaimBoot, Autoload, Unclaimed
<1>3. CASE Refuse \/ AbandonPlan \/ EndMountAll
  <2>1. Fuse!Spend \/ Fuse!Watch
    BY <1>3 DEF Refuse, AbandonPlan, EndMountAll, Fuse!Spend, Fuse!Watch
  <2>2. QED
    BY <2>1 DEF Fuse!Next
<1>4. CASE Trip
  <2>1. Fuse!Blow
    BY <1>4 DEF Trip, TooManyAttempts, Fuse!Blow
  <2>2. QED
    BY <2>1 DEF Fuse!Next
<1>5. CASE TruncateCounter
  BY <1>5 DEF TruncateCounter
<1>6. CASE WriteCounter
  <2>1. Fuse!Allow
    BY <1>6 DEF WriteCounter, Fuse!Allow
  <2>2. QED
    BY <2>1 DEF Fuse!Next
<1>7. CASE MountBackends
  <2>1. Fuse!Mount
    BY <1>7 DEF MountBackends, Fuse!Mount
  <2>2. QED
    BY <2>1 DEF Fuse!Next
<1>8. CASE Poll
  BY <1>8 DEF Poll
<1>9. CASE WatcherConfirms \/ HookConfirms
  <2>1. Fuse!Confirm \/ Fuse!Outlast
    BY <1>9 DEF WatcherConfirms, HookConfirms, Fuse!Confirm, Fuse!Outlast
  <2>2. QED
    BY <2>1 DEF Fuse!Next
<1>10. CASE RecoveryReset
  <2>1. Fuse!Reset
    BY <1>10 DEF RecoveryReset, Fuse!Reset
  <2>2. QED
    BY <2>1 DEF Fuse!Next
<1>11. CASE StartDaemon
  BY <1>11 DEF StartDaemon
<1>12. CASE KillDaemon
  <2>1. CASE daemon = "counting"
    <3>1. Fuse!Lose
      BY <1>12, <2>1 DEF KillDaemon, Fuse!Lose
    <3> QED BY <3>1 DEF Fuse!Next
  <2>2. CASE daemon # "counting"
    BY <1>12, <2>2 DEF KillDaemon, Fuse!Next, Fuse!Spend
  <2> QED BY <2>1, <2>2
<1>13. CASE SystemCompletes
  <2>1. Fuse!Complete
    BY <1>13 DEF SystemCompletes, Fuse!Complete
  <2>2. QED
    BY <2>1 DEF Fuse!Next
<1>14. CASE DeviceDies
  <2>1. Chance' = "fresh" /\ Count' = attempts' /\ disabled' = disabled /\ completed' = FALSE
    BY <1>14 DEF DeviceDies
  <2>2. CASE attempts' = Count
    <3>1. Fuse!Reboot
      BY <2>1, <2>2 DEF Fuse!Reboot
    <3> QED BY <3>1 DEF Fuse!Next
  <2>3. CASE attempts' # Count
    <3>1. attempts' \in 0..Count
      BY <1>14 DEF DeviceDies, Found
    <3>2. ~disabled /\ (Chance # "fresh" \/ Count < MaxAttempts)
      BY <1>14, <2>3 DEF DeviceDies, Found
    <3>3. Fuse!Lose
      BY <2>1, <3>1, <3>2 DEF Fuse!Lose
    <3> QED BY <3>3 DEF Fuse!Next
  <2> QED BY <2>2, <2>3
<1>15. QED
  BY <1>1, <1>2, <1>3, <1>4, <1>5, <1>6, <1>7, <1>8, <1>9, <1>10, <1>11, <1>12, <1>13, <1>14
     DEF Next

\* The files and processes implement the fuse: mounts happen only through a chance that was
\* counted first, at most one per boot; attempts are given back only by a completed boot, a
\* reset, a boot that mounted and outlasted its watcher, or by losing what the boot itself
\* has written of the count; and only a reset mends a blown fuse.
THEOREM FuseImplemented == Spec => FuseSpec
<1>1. Init => CountingIntact
  BY DEF Init, CountingIntact
<1>2. TypeOK /\ ClaimInv /\ CountingIntact /\ [Next]_vars => (TypeOK /\ ClaimInv /\ CountingIntact)'
  BY ClaimStep, IntactStep
<1>3. TypeOK /\ ClaimInv /\ CountingIntact /\ [Next]_vars => [Fuse!Next]_(Fuse!fuse)
  BY FuseStep
<1>4. QED
  BY <1>1, <1>2, <1>3, InitClaim, FuseInit, PTL DEF Spec, FuseSpec, Fuse!Spec
=============================================================================
