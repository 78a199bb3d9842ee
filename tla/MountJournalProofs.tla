--------------------------- MODULE MountJournalProofs ---------------------------
(***************************************************************************)
(* Proofs about MountJournal, for any places, plans and faults: the state  *)
(* is well formed, nobody else's mount is detached, and, unless something  *)
(* was done that leaves the code no way to find a mount by, what is        *)
(* attached can be found again and an unmount_all that reports success     *)
(* has left nothing of Kagami's.                                           *)
(***************************************************************************)
EXTENDS MountJournal, SequenceTheorems, WellFoundedInduction, TLAPS

Others == {"stock", "other"}

\* The places of ps were mounted on one after the other, and what was attached since is
\* Kagami's; so it is on whatever each of them leads to.
Since(ms, t) == \A m \in ms : m.id >= t => m.by \notin Others
HasAt(ms, p, id) == \E m \in ms : m.at = p /\ m.id = id
Attached(ms, ps) ==
    \E t \in Nat, ids \in [DOMAIN ps -> Nat] :
        /\ Since(ms, t)
        /\ \A i \in DOMAIN ps : ids[i] >= t /\ HasAt(ms, ps[i], ids[i])
        /\ \A i, j \in DOMAIN ps : i < j => ids[i] < ids[j]

\* They can be detached in the order of ps: none takes one of the later ones along.
Apart(p, q) == p # q /\ p \notin Above[q]
Detachable(ms, ps) ==
    \E t \in Nat, ids \in [DOMAIN ps -> Nat] :
        /\ Since(ms, t)
        /\ \A i \in DOMAIN ps : ids[i] >= t /\ HasAt(ms, ps[i], ids[i])
        /\ \A i, j \in DOMAIN ps : i < j => ids[j] < ids[i] \/ Apart(ps[i], ps[j])

Runs ==
    [op : {"none", "mount", "undo", "unmount"}, at : Points, of : Backends,
     all : BOOLEAN, ok : BOOLEAN, plan : Seq(Places),
     left : Seq(Records \cup Attachments), done : Seq(Attachments), kids : SUBSET Places]

Shape ==
    /\ boot \in 1 .. MaxBoots /\ claimed \in BOOLEAN /\ damaged \in BOOLEAN
    /\ mounts \in SUBSET Mounts /\ registered \in SUBSET Places /\ leaked \in SUBSET Places
    /\ journal \in [Backends -> [boot : 0 .. MaxBoots, recs : Seq(Records)]]
    /\ run \in Runs
    /\ faults \in 0 .. MaxFaults
Unique == \A m, n \in mounts : m.id = n.id => m = n

\* Identities, also those in journals of this boot, have a bound.
Bounded ==
    \E c \in Nat :
        /\ \A m \in mounts : m.id <= c
        /\ \A b \in Backends : \A rec \in Range(read_mount_journal(b)) : rec.id <= c

\* Journals of this boot name mounts of Kagami's, or none that is still there.
JournalInv ==
    /\ \A b \in Backends : journal[b].boot <= boot
    /\ \A b \in Backends : \A rec \in Range(read_mount_journal(b)) :
          \A m \in mounts : m.id = rec.id => m.by \notin Others

\* What each stage of a pass has attached, or is about to detach.
StageInv ==
    /\ run.at \in {"gather", "work", "first-save"} => run.done = <<>>
    /\ run.at = "first-save" => Attached(mounts, <<Work>>)
    /\ run.at \in {"walk", "save"} =>
          /\ Attached(mounts, <<Work>> \o PathsOf(run.done))
          /\ Range(PathsOf(run.done)) \cup Range(run.plan) \subseteq Range(MagicPlan)
    /\ run.at \in {"setup", "finalize", "record", "leaf", "child"} =>
          Attached(mounts, PathsOf(run.done))
    /\ run.at = "setup" => Len(run.done) < Len(Mirrors)
    /\ run.at = "child" => run.plan # <<>>
    /\ run.at \in {"setup", "finalize", "record"} =>
          \A i \in DOMAIN run.done : i \in DOMAIN Mirrors /\ run.done[i].at = Mirrors[i]
    /\ run.at \in {"finalize", "record"} => Len(run.done) = Len(Mirrors)
    /\ run.at = "roll-back" => Detachable(mounts, PathsOf(run.left))
    /\ run.at = "detach" => Range(run.left) \subseteq Range(read_mount_journal(run.of))

JournalsInv == Shape /\ Unique /\ Bounded /\ JournalInv /\ StageInv

-------------------------------------------------------------------------------
\* Numbers and sequences.

\* Induction up to a bound, over a set.
LEMMA UpTo ==
    ASSUME NEW N \in Nat, NEW G, 0 \in G, \A n \in 0 .. N : n \in G /\ n < N => n + 1 \in G
    PROVE  \A n \in 0 .. N : n \in G
<1> DEFINE Less == OpToRel(<, Nat)
           Bad == {n \in 0 .. N : n \notin G}
<1>1. \A x, y \in Nat : x < y => <<x, y>> \in Less
  BY DEF OpToRel
<1>2. IsWellFoundedOn(Less, Nat)
  BY NatLessThanWellFounded
<1> HIDE DEF Less
<1> SUFFICES ASSUME Bad # {} PROVE FALSE
  OBVIOUS
<1>3. Bad \subseteq Nat
  OBVIOUS
<1>4. PICK n \in Bad : \A k \in Bad : <<k, n>> \notin Less
  BY <1>2, <1>3, WFMin
<1>5. n # 0 /\ n \in 0 .. N /\ n \notin G
  BY <1>4
<1>6. PICK k \in 0 .. N : k + 1 = n
  BY <1>5
<1>7. k < n /\ k < N /\ k \in Nat /\ n \in Nat
  BY <1>5, <1>6
<1>8. k \notin G
  BY <1>5, <1>6, <1>7
<1>9. <<k, n>> \in Less
  BY <1>1, <1>7
<1> QED BY <1>4, <1>6, <1>8, <1>9

\* A bounded set of naturals has a greatest element.
LEMMA Greatest ==
    ASSUME NEW S, S \subseteq Nat, S # {}, NEW b \in Nat, \A x \in S : x <= b
    PROVE  Max(S) \in S /\ \A x \in S : x <= Max(S)
<1> DEFINE Bounds == {c \in Nat : \A x \in S : x <= c}
           Less == OpToRel(<, Nat)
<1>1. \A x, y \in Nat : x < y => <<x, y>> \in Less
  BY DEF OpToRel
<1>2. Bounds \subseteq Nat /\ Bounds # {}
  OBVIOUS
<1>3. IsWellFoundedOn(Less, Nat)
  BY NatLessThanWellFounded
<1> HIDE DEF Less
<1>4. PICK c \in Bounds : \A d \in Bounds : <<d, c>> \notin Less
  BY <1>2, <1>3, WFMin
<1>5. c \in S
  <2> SUFFICES ASSUME c \notin S PROVE FALSE
    OBVIOUS
  <2>1. PICK x \in S : TRUE
    OBVIOUS
  <2>2. x < c /\ c - 1 \in Nat
    BY <1>4, <2>1
  <2>3. PICK d \in Nat : d = c - 1
    BY <2>2
  <2>4. d \in Bounds /\ d < c
    BY <1>4, <2>2, <2>3
  <2>5. <<d, c>> \in Less
    BY <1>1, <1>4, <2>3, <2>4
  <2> QED BY <1>4, <2>4, <2>5
<1>6. \A x \in S : x <= c
  BY <1>4
<1>7. \E m \in S : \A y \in S : m >= y
  BY <1>5, <1>6
<1> QED BY <1>7 DEF Max

LEMMA Reversed ==
    ASSUME NEW S, NEW s \in Seq(S)
    PROVE  /\ Reverse(s) \in Seq(S) /\ Len(Reverse(s)) = Len(s)
           /\ \A i \in 1 .. Len(s) : Reverse(s)[i] = s[Len(s) - i + 1]
           /\ Range(Reverse(s)) = Range(s)
<1>1. Len(s) \in Nat /\ DOMAIN s = 1 .. Len(s) /\ \A i \in 1 .. Len(s) : s[i] \in S
  OBVIOUS
<1>2. \A i \in 1 .. Len(s) : Len(s) - i + 1 \in 1 .. Len(s)
  BY <1>1
<1>3. Reverse(s) \in [1 .. Len(s) -> S]
  BY <1>1, <1>2 DEF Reverse
<1>4. Reverse(s) \in Seq(S) /\ Len(Reverse(s)) = Len(s)
  BY <1>1, <1>3, IsASeq
<1>5. \A i \in 1 .. Len(s) : Reverse(s)[i] = s[Len(s) - i + 1]
  BY DEF Reverse
<1>6. Range(Reverse(s)) \subseteq Range(s)
  BY <1>1, <1>2, <1>3, <1>5 DEF Range
<1>7. Range(s) \subseteq Range(Reverse(s))
  <2> SUFFICES ASSUME NEW i \in 1 .. Len(s) PROVE s[i] \in Range(Reverse(s))
    BY <1>1 DEF Range
  <2>1. PICK k \in 1 .. Len(s) : k = Len(s) - i + 1
    BY <1>2
  <2>2. Len(s) - k + 1 = i
    BY <1>1, <2>1
  <2>3. Reverse(s)[k] = s[i]
    BY <1>5, <2>1, <2>2
  <2> QED BY <1>3, <2>1, <2>3 DEF Range
<1> QED BY <1>4, <1>5, <1>6, <1>7

LEMMA PathsAre ==
    ASSUME NEW ds \in Seq(Records \cup Attachments)
    PROVE  PathsOf(ds) \in Seq(Places) /\ DOMAIN PathsOf(ds) = DOMAIN ds /\ Len(PathsOf(ds)) = Len(ds)
<1>1. PathsOf(ds) \in [1 .. Len(ds) -> Places]
  BY DEF PathsOf, Records, Attachments
<1> QED BY <1>1, IsASeq

LEMMA AttachmentsAre == Seq(Attachments) \subseteq Seq(Records \cup Attachments)
                        /\ Seq(Records) \subseteq Seq(Records \cup Attachments)
BY SeqMonotonic

LEMMA PathsReversed ==
    ASSUME NEW ds \in Seq(Attachments)
    PROVE  PathsOf(Reverse(ds)) = Reverse(PathsOf(ds))
<1>1. Reverse(ds) \in Seq(Attachments) /\ Len(Reverse(ds)) = Len(ds)
      /\ \A i \in 1 .. Len(ds) : Reverse(ds)[i] = ds[Len(ds) - i + 1]
  BY Reversed
<1>2. PathsOf(ds) \in Seq(Places) /\ Len(PathsOf(ds)) = Len(ds)
  BY PathsAre, AttachmentsAre
<1>3. PathsOf(Reverse(ds)) \in Seq(Places) /\ Len(PathsOf(Reverse(ds))) = Len(ds)
  BY <1>1, PathsAre, AttachmentsAre
<1>4. Reverse(PathsOf(ds)) \in Seq(Places) /\ Len(Reverse(PathsOf(ds))) = Len(ds)
      /\ \A i \in 1 .. Len(ds) : Reverse(PathsOf(ds))[i] = PathsOf(ds)[Len(ds) - i + 1]
  BY <1>2, Reversed
<1>5. ASSUME NEW i \in 1 .. Len(ds) PROVE PathsOf(Reverse(ds))[i] = Reverse(PathsOf(ds))[i]
  <2>0. Len(ds) \in Nat
    OBVIOUS
  <2> DEFINE n == Len(ds)
  <2>1. PICK k \in 1 .. Len(ds) : k = Len(ds) - i + 1
    <3>1. n \in Nat /\ i \in 1 .. n
      BY <2>0
    <3> HIDE DEF n
    <3>2. n - i + 1 \in 1 .. n
      BY <3>1
    <3> QED BY <3>2 DEF n
  <2>2. PathsOf(ds)[k] = ds[k].at
    BY DEF PathsOf
  <2>3. PathsOf(Reverse(ds))[i] = ds[k].at
    BY <1>1, <2>1 DEF PathsOf
  <2> QED BY <1>4, <2>1, <2>2, <2>3
<1> QED BY <1>3, <1>4, <1>5, SeqEqual

LEMMA PathsAppended ==
    ASSUME NEW ds \in Seq(Attachments), NEW d \in Attachments
    PROVE  PathsOf(Append(ds, d)) = Append(PathsOf(ds), d.at)
<1>1. Append(ds, d) \in Seq(Attachments) /\ Len(Append(ds, d)) = Len(ds) + 1
      /\ Append(ds, d)[Len(ds) + 1] = d /\ \A i \in 1 .. Len(ds) : Append(ds, d)[i] = ds[i]
  BY AppendProperties
<1>2. PathsOf(ds) \in Seq(Places) /\ Len(PathsOf(ds)) = Len(ds) /\ d.at \in Places
  BY PathsAre, AttachmentsAre DEF Attachments
<1>3. PathsOf(Append(ds, d)) \in Seq(Places) /\ Len(PathsOf(Append(ds, d))) = Len(ds) + 1
  BY <1>1, PathsAre, AttachmentsAre
<1>4. Append(PathsOf(ds), d.at) \in Seq(Places) /\ Len(Append(PathsOf(ds), d.at)) = Len(ds) + 1
      /\ Append(PathsOf(ds), d.at)[Len(ds) + 1] = d.at
      /\ \A i \in 1 .. Len(ds) : Append(PathsOf(ds), d.at)[i] = PathsOf(ds)[i]
  BY <1>2, AppendProperties
<1>5. \A i \in 1 .. Len(ds) + 1 : PathsOf(Append(ds, d))[i] = Append(PathsOf(ds), d.at)[i]
  BY <1>1, <1>4 DEF PathsOf
<1> QED BY <1>3, <1>4, <1>5, SeqEqual

LEMMA TailOf ==
    ASSUME NEW S, NEW s \in Seq(S), s # <<>>
    PROVE  /\ Head(s) \in Range(s) /\ Head(s) \in S /\ Tail(s) \in Seq(S)
           /\ Range(Tail(s)) \subseteq Range(s)
<1>1. Tail(s) \in Seq(S) /\ Len(Tail(s)) = Len(s) - 1
      /\ \A i \in 1 .. Len(Tail(s)) : Tail(s)[i] = s[i + 1]
  BY HeadTailProperties
<1> QED BY <1>1 DEF Range

LEMMA PathsTail ==
    ASSUME NEW ds \in Seq(Records \cup Attachments), ds # <<>>
    PROVE  PathsOf(ds) # <<>> /\ Head(PathsOf(ds)) = Head(ds).at /\ PathsOf(Tail(ds)) = Tail(PathsOf(ds))
<1>1. Tail(ds) \in Seq(Records \cup Attachments) /\ Len(Tail(ds)) = Len(ds) - 1
      /\ \A i \in 1 .. Len(ds) - 1 : Tail(ds)[i] = ds[i + 1]
  BY HeadTailProperties
<1>2. PathsOf(ds) \in Seq(Places) /\ Len(PathsOf(ds)) = Len(ds) /\ Len(ds) # 0
  BY PathsAre
<1>3. PathsOf(Tail(ds)) \in Seq(Places) /\ Len(PathsOf(Tail(ds))) = Len(ds) - 1
  BY <1>1, PathsAre
<1>4. PathsOf(ds) # <<>>
  BY <1>2
<1>5. Tail(PathsOf(ds)) \in Seq(Places) /\ Len(Tail(PathsOf(ds))) = Len(ds) - 1
      /\ \A i \in 1 .. Len(ds) - 1 : Tail(PathsOf(ds))[i] = PathsOf(ds)[i + 1]
  BY <1>2, <1>4, HeadTailProperties
<1>6. \A i \in 1 .. Len(ds) - 1 : PathsOf(Tail(ds))[i] = Tail(PathsOf(ds))[i]
  BY <1>1, <1>2, <1>5 DEF PathsOf
<1>7. Head(PathsOf(ds)) = Head(ds).at
  BY <1>2 DEF PathsOf
<1> QED BY <1>3, <1>4, <1>5, <1>6, <1>7, SeqEqual

\* Those that are registered, one after the other: some of those that were attached.
Gathers(a, ds) ==
    /\ a[0] = <<>> /\ a[Len(ds)] = Registered(ds)
    /\ \A n \in 1 .. Len(ds) : a[n] = IF ds[n].reg THEN Append(a[n - 1], ds[n]) ELSE a[n - 1]
    /\ \A n \in 0 .. Len(ds) :
          a[n] \in {s \in Seq(Attachments) : \A i \in DOMAIN s : \E j \in DOMAIN ds : s[i] = ds[j]}

LEMMA RegisteredInTurn ==
    ASSUME NEW ds \in Seq(Attachments)
    PROVE  \E a : Gathers(a, ds)
<1> DEFINE N == Len(ds)
           Good == {s \in Seq(Attachments) : \A i \in DOMAIN s : \E j \in DOMAIN ds : s[i] = ds[j]}
           Next1(s, n) == IF ds[n].reg THEN Append(s, ds[n]) ELSE s
           Among(f) == [n \in 0 .. N |-> IF n = 0 THEN <<>>
                          ELSE IF ds[n].reg THEN Append(f[n - 1], ds[n]) ELSE f[n - 1]]
           Until(f, n) == /\ f \in [0 .. n -> Good] /\ f[0] = <<>>
                          /\ \A k \in 1 .. n : f[k] = Next1(f[k - 1], k)
           Defined == {n \in 0 .. N : \E f : Until(f, n)}
<1>1. N \in Nat /\ DOMAIN ds = 1 .. N
  OBVIOUS
<1>2. <<>> \in Good
  OBVIOUS
<1>3. ASSUME NEW s \in Good, NEW n \in 1 .. N PROVE Next1(s, n) \in Good
  <2>1. s \in Seq(Attachments) /\ ds[n] \in Attachments
    BY <1>1
  <2>2. Append(s, ds[n]) \in Seq(Attachments) /\ Len(Append(s, ds[n])) = Len(s) + 1
        /\ \A i \in 1 .. Len(s) + 1 : Append(s, ds[n])[i] = IF i <= Len(s) THEN s[i] ELSE ds[n]
    BY <2>1, AppendProperties
  <2>3. \A i \in DOMAIN s : \E j \in DOMAIN ds : s[i] = ds[j]
    OBVIOUS
  <2>4. \A i \in DOMAIN Append(s, ds[n]) : \E j \in DOMAIN ds : Append(s, ds[n])[i] = ds[j]
    BY <1>1, <2>1, <2>2, <2>3
  <2>5. Append(s, ds[n]) \in Good
    BY <2>2, <2>4
  <2> QED BY <2>5
<1> HIDE DEF Good
<1>4. 0 \in Defined
  <2>1. Until([k \in 0 .. 0 |-> <<>>], 0)
    BY <1>2
  <2> HIDE DEF Until
  <2> QED BY <1>1, <2>1
<1>5. ASSUME NEW n \in 0 .. N, n \in Defined, n < N PROVE n + 1 \in Defined
  <2>1. PICK f : Until(f, n)
    BY <1>5
  <2> DEFINE g == [k \in 0 .. n + 1 |-> IF k <= n THEN f[k] ELSE Next1(f[n], n + 1)]
  <2>2. f[n] \in Good /\ n + 1 \in 1 .. N
    BY <1>1, <1>5, <2>1
  <2>3. Next1(f[n], n + 1) \in Good
    BY <1>3, <2>2
  <2> HIDE DEF Next1
  <2>4. g \in [0 .. n + 1 -> Good] /\ g[0] = <<>>
    BY <1>1, <2>1, <2>3
  <2>5. ASSUME NEW k \in 1 .. n + 1 PROVE g[k] = Next1(g[k - 1], k)
    <3>1. CASE k <= n
      BY <1>1, <2>1, <3>1
    <3>2. CASE k = n + 1
      BY <1>1, <2>1, <3>2
    <3> QED BY <1>1, <3>1, <3>2
  <2>6. Until(g, n + 1)
    BY <2>4, <2>5
  <2> HIDE DEF Until, g
  <2> QED BY <1>1, <2>2, <2>6
<1>6. N \in Defined
  <2> HIDE DEF Defined
  <2>1. \A n \in 0 .. N : n \in Defined
    BY <1>1, <1>4, <1>5, UpTo
  <2> QED BY <1>1, <2>1
<1>7. PICK h : Until(h, N)
  BY <1>6
<1>8. h = Among(h)
  <2>1. DOMAIN h = 0 .. N /\ DOMAIN Among(h) = 0 .. N
    BY <1>7
  <2>2. ASSUME NEW n \in 0 .. N PROVE h[n] = Among(h)[n]
    <3>1. CASE n = 0
      BY <1>7, <3>1
    <3>2. CASE n # 0
      <4>1. n \in 1 .. N
        BY <1>1, <3>2
      <4> QED BY <1>7, <3>2, <4>1
    <3> QED BY <3>1, <3>2
  <2>3. h = [n \in 0 .. N |-> h[n]]
    BY <1>7
  <2>4. Among(h) = [n \in 0 .. N |-> Among(h)[n]]
    OBVIOUS
  <2> HIDE DEF Among
  <2> QED BY <2>2, <2>3, <2>4
<1> DEFINE a == CHOOSE f : f = Among(f)
<1>9. a = Among(a)
  BY <1>8
<1> HIDE DEF a
<1>10. /\ a[0] = <<>>
       /\ \A n \in 1 .. N : a[n] = Next1(a[n - 1], n)
  <2>1. \A n \in 0 .. N : a[n] = Among(a)[n]
    BY <1>9
  <2> QED BY <1>1, <2>1
<1>11. \A n \in 0 .. N : n \in {k \in 0 .. N : a[k] \in Good}
  <2> DEFINE G == {k \in 0 .. N : a[k] \in Good}
  <2>1. 0 \in G
    BY <1>1, <1>2, <1>10
  <2>2. ASSUME NEW n \in 0 .. N, n \in G, n < N PROVE n + 1 \in G
    <3>1. n + 1 \in 1 .. N /\ (n + 1) - 1 = n
      BY <1>1, <2>2
    <3>2. a[n + 1] = Next1(a[n], n + 1)
      BY <1>10, <3>1
    <3>3. a[n + 1] \in Good
      BY <1>3, <2>2, <3>1, <3>2
    <3> QED BY <3>1, <3>3
  <2> HIDE DEF G
  <2>3. \A n \in 0 .. N : n \in G
    BY <1>1, <2>1, <2>2, UpTo
  <2> QED BY <2>3 DEF G
<1>12. Registered(ds) = a[N]
  BY DEF Registered, a
<1>13. \A n \in 0 .. N : a[n] \in Good
  BY <1>11
<1>14. \A n \in 1 .. N : a[n] = IF ds[n].reg THEN Append(a[n - 1], ds[n]) ELSE a[n - 1]
  BY <1>10
<1>15. Gathers(a, ds)
  <2> HIDE DEF Next1, Among
  <2> QED BY <1>10, <1>12, <1>13, <1>14 DEF Gathers, Good
<1> QED BY <1>15

LEMMA SomeRegistered ==
    ASSUME NEW ds \in Seq(Attachments)
    PROVE  /\ Registered(ds) \in Seq(Attachments)
           /\ \A i \in DOMAIN Registered(ds) : \E j \in DOMAIN ds : Registered(ds)[i] = ds[j]
<1>1. PICK a : Gathers(a, ds)
  BY RegisteredInTurn
<1>2. Len(ds) \in 0 .. Len(ds)
  OBVIOUS
<1> QED BY <1>1, <1>2 DEF Gathers

-------------------------------------------------------------------------------
\* The kernel: what is attached, and where a path leads to.

LEMMA IsFresh ==
    ASSUME Shape, Bounded
    PROVE  /\ Fresh \in Nat \ {0}
           /\ \A m \in mounts : m.id < Fresh
           /\ \A b \in Backends : \A rec \in Range(read_mount_journal(b)) : rec.id < Fresh
<1> DEFINE Used == {0} \cup {m.id : m \in mounts} \cup UNION {Named(b) : b \in Backends}
<1>1. \A b \in Backends : /\ Range(read_mount_journal(b)) \subseteq Records
                          /\ Named(b) = {rec.id : rec \in Range(read_mount_journal(b))}
  BY DEF Shape, read_mount_journal, Named, Range
<1>2. PICK c \in Nat :
        /\ \A m \in mounts : m.id <= c
        /\ \A b \in Backends : \A rec \in Range(read_mount_journal(b)) : rec.id <= c
  BY DEF Bounded
<1>3. Used \subseteq Nat
  BY <1>1 DEF Shape, Mounts, Records
<1>4. \A x \in Used : x <= c
  BY <1>1, <1>2
<1>5. Used # {}
  OBVIOUS
<1>6. \A m \in mounts : m.id \in Used
  OBVIOUS
<1>7. \A b \in Backends : \A rec \in Range(read_mount_journal(b)) : rec.id \in Used
  BY <1>1
<1>8. Fresh = 1 + Max(Used)
  BY DEF Fresh
<1> HIDE DEF Used
<1>9. Max(Used) \in Nat /\ \A x \in Used : x <= Max(Used)
  BY <1>2, <1>3, <1>4, <1>5, Greatest
<1>10. Fresh \in Nat \ {0} /\ \A x \in Used : x < Fresh
  BY <1>3, <1>8, <1>9
<1> QED BY <1>6, <1>7, <1>10

LEMMA NothingAttached ==
    ASSUME NEW ms, NEW c \in Nat, \A m \in ms : m.id \in Nat /\ m.id <= c
    PROVE  Attached(ms, <<>>)
<1>1. c + 1 \in Nat /\ Since(ms, c + 1)
  BY DEF Since
<1>2. PICK ids : ids = [i \in {} |-> 0]
  OBVIOUS
<1>3. ids \in [DOMAIN <<>> -> Nat] /\ DOMAIN <<>> = {}
  BY <1>2
<1> QED BY <1>1, <1>3 DEF Attached

LEMMA MoreAttached ==
    ASSUME Shape, Bounded, NEW ps \in Seq(Places), Attached(mounts, ps), NEW p \in Places,
           NEW who \in Owners \ Others, NEW ms,
           ms = mounts \cup {[at |-> p, id |-> Fresh, by |-> who]}
    PROVE  Attached(ms, Append(ps, p))
<1>1. PICK t \in Nat, ids \in [DOMAIN ps -> Nat] :
        /\ Since(mounts, t)
        /\ \A i \in DOMAIN ps : ids[i] >= t /\ HasAt(mounts, ps[i], ids[i])
        /\ \A i, j \in DOMAIN ps : i < j => ids[i] < ids[j]
  BY DEF Attached
<1>2. Fresh \in Nat /\ \A m \in mounts : m.id < Fresh
  BY IsFresh
<1> DEFINE qs == Append(ps, p)
           n == Len(ps) + 1
           t2 == IF t <= Fresh THEN t ELSE Fresh
           new == [i \in 1 .. n |-> IF i = n THEN Fresh ELSE ids[i]]
<1>3. DOMAIN ps = 1 .. Len(ps) /\ Len(ps) \in Nat /\ DOMAIN qs = 1 .. n
      /\ qs[n] = p /\ \A i \in 1 .. Len(ps) : qs[i] = ps[i]
  BY AppendProperties
<1>4. t2 \in Nat /\ t2 <= t /\ t2 <= Fresh
  BY <1>2
<1>5. Since(ms, t2)
  <2>1. [at |-> p, id |-> Fresh, by |-> who].by \notin Others
    OBVIOUS
  <2>2. \A m \in mounts : m.id >= t2 => m.by \notin Others
    BY <1>1, <1>2, <1>4 DEF Since, Shape, Mounts
  <2> QED BY <2>1, <2>2 DEF Since
<1>6. HasAt(ms, p, Fresh)
  <2>1. PICK x : x = [at |-> p, id |-> Fresh, by |-> who]
    OBVIOUS
  <2>2. x \in ms /\ x.at = p /\ x.id = Fresh
    BY <2>1
  <2> QED BY <2>2 DEF HasAt
<1>7. \A i \in DOMAIN ps : HasAt(ms, ps[i], ids[i]) /\ ids[i] < Fresh
  BY <1>1, <1>2 DEF HasAt
<1>8. new \in [DOMAIN qs -> Nat]
  BY <1>2, <1>3
<1>9. \A i \in DOMAIN qs : new[i] >= t2 /\ HasAt(ms, qs[i], new[i])
  <2> SUFFICES ASSUME NEW i \in DOMAIN qs PROVE new[i] >= t2 /\ HasAt(ms, qs[i], new[i])
    OBVIOUS
  <2>1. CASE i = n
    BY <1>2, <1>3, <1>4, <1>6, <2>1
  <2>2. CASE i # n
    <3>1. i \in DOMAIN ps /\ new[i] = ids[i] /\ qs[i] = ps[i]
      BY <1>3, <2>2
    <3>2. ids[i] >= t /\ ids[i] \in Nat
      BY <1>1, <3>1
    <3>3. ids[i] >= t2
      BY <1>4, <3>2
    <3>4. HasAt(ms, qs[i], new[i])
      BY <1>7, <3>1
    <3> HIDE DEF new, t2
    <3> QED BY <3>1, <3>3, <3>4
  <2> QED BY <2>1, <2>2
<1>10. \A i, j \in DOMAIN qs : i < j => new[i] < new[j]
  <2> SUFFICES ASSUME NEW i \in DOMAIN qs, NEW j \in DOMAIN qs, i < j PROVE new[i] < new[j]
    OBVIOUS
  <2>1. i \in DOMAIN ps /\ new[i] = ids[i]
    BY <1>3
  <2>2. CASE j = n
    BY <1>3, <1>7, <2>1, <2>2
  <2>3. CASE j # n
    <3>1. j \in DOMAIN ps /\ new[j] = ids[j]
      BY <1>3, <2>3
    <3> QED BY <1>1, <2>1, <3>1
  <2> QED BY <2>2, <2>3
<1> HIDE DEF qs, new, t2
<1> QED BY <1>4, <1>5, <1>8, <1>9, <1>10 DEF Attached, qs

\* Where the latest mounts are Kagami's a path that one was attached at leads to one.
LEMMA LeadsToOurs ==
    ASSUME Shape, NEW t \in Nat, Since(mounts, t), NEW p, NEW id \in Nat, id >= t,
           HasAt(mounts, p, id), NEW m \in Seen(p)
    PROVE  m \in Ours /\ m.id >= id /\ m.at = p /\ m \in mounts
<1>1. m \in mounts /\ m.at = p /\ \A x \in mounts : x.id > m.id => x.at \notin {p} \cup Above[p]
  BY DEF Seen
<1>2. PICK y \in mounts : y.at = p /\ y.id = id
  BY DEF HasAt
<1>3. ~(y.id > m.id) /\ m.id \in Nat
  BY <1>1, <1>2 DEF Shape, Mounts
<1>4. m.id >= id
  BY <1>2, <1>3
<1>5. m.by \notin Others
  BY <1>1, <1>3, <1>4 DEF Since
<1> QED BY <1>1, <1>4, <1>5 DEF Ours, Others

LEMMA AttachedLeads ==
    ASSUME Shape, NEW ps, Attached(mounts, ps), NEW i \in DOMAIN ps, NEW m \in Seen(ps[i])
    PROVE  m \in Ours
<1>1. PICK t \in Nat, ids \in [DOMAIN ps -> Nat] :
        /\ Since(mounts, t)
        /\ \A j \in DOMAIN ps : ids[j] >= t /\ HasAt(mounts, ps[j], ids[j])
  BY DEF Attached
<1> QED BY <1>1, LeadsToOurs

-------------------------------------------------------------------------------
\* Rolling back.

LEMMA ReverseDetachable ==
    ASSUME NEW ms, NEW ps \in Seq(Places), Attached(ms, ps)
    PROVE  Detachable(ms, Reverse(ps))
<1>1. PICK t \in Nat, ids \in [DOMAIN ps -> Nat] :
        /\ Since(ms, t)
        /\ \A i \in DOMAIN ps : ids[i] >= t /\ HasAt(ms, ps[i], ids[i])
        /\ \A i, j \in DOMAIN ps : i < j => ids[i] < ids[j]
  BY DEF Attached
<1> DEFINE n == Len(ps)
           qs == Reverse(ps)
           new == [i \in 1 .. n |-> ids[n - i + 1]]
<1>2. n \in Nat /\ DOMAIN ps = 1 .. n /\ DOMAIN qs = 1 .. n
      /\ \A i \in 1 .. n : qs[i] = ps[n - i + 1] /\ n - i + 1 \in 1 .. n
  BY Reversed
<1>3. new \in [DOMAIN qs -> Nat]
  BY <1>2
<1>4. \A i \in DOMAIN qs : new[i] >= t /\ HasAt(ms, qs[i], new[i])
  BY <1>1, <1>2
<1>5. \A i, j \in DOMAIN qs : i < j => new[j] < new[i]
  BY <1>1, <1>2, SMTT(30)
<1> HIDE DEF new, qs
<1> QED BY <1>1, <1>3, <1>4, <1>5 DEF Detachable, qs

\* Magic Mount detaches its skeletons' directory first.
LEMMA ReverseMagicDetachable ==
    ASSUME NEW ms, NEW ps \in Seq(Places), Attached(ms, <<Work>> \o ps),
           Range(ps) \subseteq Range(MagicPlan)
    PROVE  Detachable(ms, Reverse(Append(ps, Work)))
<1> DEFINE n == Len(ps)
           as == <<Work>> \o ps
           bs == Append(ps, Work)
           qs == Reverse(bs)
<1>1. PICK t \in Nat, ids \in [DOMAIN as -> Nat] :
        /\ Since(ms, t)
        /\ \A i \in DOMAIN as : ids[i] >= t /\ HasAt(ms, as[i], ids[i])
        /\ \A i, j \in DOMAIN as : i < j => ids[i] < ids[j]
  BY DEF Attached
<1>2. Work \in Places /\ <<Work>> \in Seq(Places) /\ Len(<<Work>>) = 1 /\ <<Work>>[1] = Work
  BY JournalAssumption
<1>3. /\ n \in Nat /\ DOMAIN as = 1 .. n + 1 /\ as[1] = Work
      /\ \A i \in 1 .. n : as[i + 1] = ps[i]
  <2>1. as \in Seq(Places) /\ Len(as) = 1 + n
        /\ \A i \in 1 .. 1 + n : as[i] = IF i <= 1 THEN <<Work>>[i] ELSE ps[i - 1]
    BY <1>2, ConcatProperties
  <2> QED BY <1>2, <2>1
<1>4. /\ bs \in Seq(Places) /\ Len(bs) = n + 1 /\ bs[n + 1] = Work
      /\ \A i \in 1 .. n : bs[i] = ps[i]
  BY <1>2, AppendProperties
<1> HIDE DEF bs
<1>5. DOMAIN qs = 1 .. n + 1 /\ \A i \in 1 .. n + 1 : qs[i] = bs[n + 1 - i + 1]
  <2>1. qs \in Seq(Places) /\ Len(qs) = Len(bs) /\ \A i \in 1 .. Len(bs) : qs[i] = bs[Len(bs) - i + 1]
    BY <1>4, Reversed
  <2> HIDE DEF qs
  <2> QED BY <1>3, <1>4, <2>1
<1> DEFINE new == [i \in 1 .. n + 1 |-> IF i = 1 THEN ids[1] ELSE ids[n - i + 3]]
<1> HIDE DEF as, bs, qs
<1>6. ASSUME NEW i \in 2 .. n + 1
      PROVE  \E k \in 1 .. n : k = n + 2 - i /\ qs[i] = ps[k] /\ qs[i] = as[n - i + 3]
                                /\ n - i + 3 \in 2 .. n + 1
  <2>1. n + 2 - i \in 1 .. n /\ n - i + 3 \in 2 .. n + 1 /\ i \in 1 .. n + 1
    BY <1>3, <1>6
  <2>2. PICK k \in 1 .. n : k = n + 2 - i
    BY <2>1
  <2>3. n + 1 - i + 1 = k /\ k + 1 = n - i + 3
    BY <1>3, <1>6, <2>2
  <2>4. qs[i] = bs[n + 1 - i + 1]
    BY <1>5, <2>1
  <2>5. qs[i] = ps[k]
    BY <1>4, <2>3, <2>4
  <2>6. qs[i] = as[n - i + 3]
    BY <1>3, <2>2, <2>3, <2>5
  <2> QED BY <2>1, <2>2, <2>5, <2>6
<1>7. qs[1] = Work
  <2>1. 1 \in 1 .. n + 1 /\ n + 1 - 1 + 1 = n + 1
    BY <1>3
  <2> QED BY <1>4, <1>5, <2>1
<1>8. new \in [DOMAIN qs -> Nat]
  BY <1>3, <1>5
<1>9. \A i \in DOMAIN qs : new[i] >= t /\ HasAt(ms, qs[i], new[i])
  <2> SUFFICES ASSUME NEW i \in 1 .. n + 1 PROVE new[i] >= t /\ HasAt(ms, qs[i], new[i])
    BY <1>5
  <2>1. CASE i = 1
    <3>1. 1 \in DOMAIN as /\ 1 \in 1 .. n + 1
      BY <1>3
    <3> QED BY <1>1, <1>3, <1>7, <2>1, <3>1
  <2>2. CASE i # 1
    <3>1. i \in 2 .. n + 1
      BY <1>3, <2>2
    <3>2. qs[i] = as[n - i + 3] /\ n - i + 3 \in 2 .. n + 1
      BY <1>6, <3>1
    <3>3. n - i + 3 \in DOMAIN as
      BY <1>3, <3>2
    <3>4. new[i] = ids[n - i + 3]
      BY <2>2
    <3> QED BY <1>1, <3>2, <3>3, <3>4
  <2> QED BY <2>1, <2>2
<1>10. \A i, j \in DOMAIN qs : i < j => new[j] < new[i] \/ Apart(qs[i], qs[j])
  <2> SUFFICES ASSUME NEW i \in 1 .. n + 1, NEW j \in 1 .. n + 1, i < j
               PROVE  new[j] < new[i] \/ Apart(qs[i], qs[j])
    BY <1>5
  <2>1. j \in 2 .. n + 1
    BY <1>3
  <2>2. CASE i = 1
    <3>1. PICK k \in 1 .. n : qs[j] = ps[k]
      BY <1>6, <2>1
    <3>2. ps[k] \in Range(ps)
      BY <1>3, <3>1 DEF Range
    <3>3. qs[j] \in Range(MagicPlan)
      BY <3>1, <3>2
    <3> QED BY <1>7, <2>2, <3>3, PlansApart DEF Apart, Unrelated
  <2>3. CASE i # 1
    <3>1. i \in 2 .. n + 1
      BY <1>3, <2>3
    <3>2. n - j + 3 < n - i + 3
      BY <1>3
    <3>3. n - j + 3 \in DOMAIN as /\ n - i + 3 \in DOMAIN as
      BY <1>3, <1>6, <2>1, <3>1
    <3>4. ids[n - j + 3] < ids[n - i + 3]
      BY <1>1, <3>2, <3>3
    <3> QED BY <1>3, <2>1, <2>3, <3>4
  <2> QED BY <2>2, <2>3
<1> HIDE DEF new
<1> QED BY <1>1, <1>8, <1>9, <1>10 DEF Detachable, qs, bs

\* Detaching a place takes what its path leads to, and what was attached upon that later.
LEMMA OneDetached ==
    ASSUME NEW p, Detach(p)
    PROVE  /\ mounts' \subseteq mounts
           /\ \A x \in mounts \ mounts' :
                 \E m \in Seen(p) : x = m \/ (x \in Upon(m) /\ x.id > m.id /\ p \in Above[x.at])
           /\ \A m \in Seen(p) : m \notin mounts'
BY DEF Detach, Seen, Upon

\* The rest of a roll-back can go on, whether the first place was detached or not.
LEMMA RestDetachable ==
    ASSUME Shape, Unique, NEW ps \in Seq(Places), ps # <<>>, Detachable(mounts, ps),
           UNCHANGED mounts \/ Detach(Head(ps))
    PROVE  Detachable(mounts', Tail(ps))
<1>1. PICK t \in Nat, ids \in [DOMAIN ps -> Nat] :
        /\ Since(mounts, t)
        /\ \A i \in DOMAIN ps : ids[i] >= t /\ HasAt(mounts, ps[i], ids[i])
        /\ \A i, j \in DOMAIN ps : i < j => ids[j] < ids[i] \/ Apart(ps[i], ps[j])
  BY DEF Detachable
<1> DEFINE n == Len(ps)
           qs == Tail(ps)
           new == [i \in 1 .. n - 1 |-> ids[i + 1]]
<1>2. n \in Nat /\ DOMAIN ps = 1 .. n /\ 1 \in DOMAIN ps /\ Head(ps) = ps[1]
      /\ DOMAIN qs = 1 .. n - 1
      /\ \A i \in 1 .. n - 1 : i + 1 \in DOMAIN ps /\ qs[i] = ps[i + 1]
  BY HeadTailProperties
<1>3. mounts' \subseteq mounts
  BY OneDetached
<1>4. Since(mounts', t)
  BY <1>1, <1>3 DEF Since
<1>5. ASSUME NEW j \in DOMAIN ps, 1 < j PROVE HasAt(mounts', ps[j], ids[j])
  <2>1. PICK x \in mounts : x.at = ps[j] /\ x.id = ids[j]
    BY <1>1 DEF HasAt
  <2>2. CASE UNCHANGED mounts
    BY <2>1, <2>2 DEF HasAt
  <2>3. CASE Detach(ps[1]) /\ x \notin mounts'
    <3>1. PICK m \in Seen(ps[1]) : x = m \/ (x \in Upon(m) /\ x.id > m.id /\ ps[1] \in Above[x.at])
      BY <2>1, <2>3, OneDetached
    <3>2. m.id >= ids[1] /\ m.at = ps[1] /\ m \in mounts
      BY <1>1, <1>2, LeadsToOurs
    <3>3. m.id \in Nat /\ x.id \in Nat /\ ids[1] \in Nat
      BY <1>1, <1>2, <2>1, <3>2 DEF Shape, Mounts
    <3>4. ids[j] < ids[1] \/ Apart(ps[1], ps[j])
      BY <1>1, <1>2, <1>5
    <3>5. CASE x = m
      BY <2>1, <3>2, <3>3, <3>4, <3>5 DEF Apart
    <3>6. CASE x # m
      BY <2>1, <3>1, <3>2, <3>3, <3>4, <3>6 DEF Apart
    <3> QED BY <3>5, <3>6
  <2>4. CASE x \in mounts'
    BY <2>1, <2>4 DEF HasAt
  <2> QED BY <1>2, <2>2, <2>3, <2>4
<1>6. new \in [DOMAIN qs -> Nat]
  BY <1>2
<1>7. \A i \in DOMAIN qs : new[i] >= t /\ HasAt(mounts', qs[i], new[i])
  <2> SUFFICES ASSUME NEW i \in 1 .. n - 1 PROVE new[i] >= t /\ HasAt(mounts', qs[i], new[i])
    BY <1>2
  <2>1. i + 1 \in DOMAIN ps /\ 1 < i + 1 /\ qs[i] = ps[i + 1] /\ new[i] = ids[i + 1]
    BY <1>2
  <2>2. ids[i + 1] >= t /\ HasAt(mounts', ps[i + 1], ids[i + 1])
    BY <1>1, <1>5, <2>1
  <2> HIDE DEF new, qs
  <2> QED BY <2>1, <2>2
<1>8. \A i, j \in DOMAIN qs : i < j => new[j] < new[i] \/ Apart(qs[i], qs[j])
  <2> SUFFICES ASSUME NEW i \in 1 .. n - 1, NEW j \in 1 .. n - 1, i < j
               PROVE  new[j] < new[i] \/ Apart(qs[i], qs[j])
    BY <1>2
  <2>1. i + 1 \in DOMAIN ps /\ j + 1 \in DOMAIN ps /\ i + 1 < j + 1
    BY <1>2
  <2>2. ids[j + 1] < ids[i + 1] \/ Apart(ps[i + 1], ps[j + 1])
    BY <1>1, <2>1
  <2>3. qs[i] = ps[i + 1] /\ qs[j] = ps[j + 1] /\ new[i] = ids[i + 1] /\ new[j] = ids[j + 1]
    BY <1>2
  <2> HIDE DEF new, qs
  <2> QED BY <2>2, <2>3
<1> HIDE DEF new, qs
<1> QED BY <1>1, <1>4, <1>6, <1>7, <1>8 DEF Detachable, qs

\* A roll-back detaches only mounts of Kagami's, and what was attached upon them.
LEMMA DetachableLeads ==
    ASSUME Shape, NEW ps \in Seq(Places), ps # <<>>, Detachable(mounts, ps), NEW m \in Seen(Head(ps))
    PROVE  m \in Ours
<1>1. PICK t \in Nat, ids \in [DOMAIN ps -> Nat] :
        /\ Since(mounts, t)
        /\ \A i \in DOMAIN ps : ids[i] >= t /\ HasAt(mounts, ps[i], ids[i])
  BY DEF Detachable
<1>2. 1 \in DOMAIN ps /\ Head(ps) = ps[1]
  BY HeadTailProperties
<1>3. ids[1] \in Nat /\ ids[1] >= t /\ HasAt(mounts, ps[1], ids[1])
  BY <1>1, <1>2
<1> QED BY <1>1, <1>2, <1>3, LeadsToOurs

\* The mount a record is of is the only one its path leads to.
LEMMA MatchLeads ==
    ASSUME Shape, Unique, JournalInv, NEW b \in Backends, NEW rec \in Range(read_mount_journal(b)),
           mount_matches(rec), NEW m \in Seen(rec.at)
    PROVE  m \in Ours
<1>1. PICK x \in Seen(rec.at) : x.id = rec.id
  BY DEF mount_matches
<1>2. x \in mounts /\ x.at = rec.at /\ m \in mounts /\ m.at = rec.at
      /\ ~(x.id > m.id) /\ ~(m.id > x.id)
  BY <1>1 DEF Seen
<1>3. x.id = m.id
  BY <1>2 DEF Shape, Mounts
<1>4. m.by \notin Others
  BY <1>1, <1>2, <1>3 DEF JournalInv
<1> QED BY <1>2, <1>4 DEF Ours, Others

-------------------------------------------------------------------------------
\* A journal written of places that a pass has attached names Kagami's mounts.
LEMMA JournalWritten ==
    ASSUME Shape, Unique, Bounded, JournalInv, NEW ps, Attached(mounts, ps),
           NEW b \in Backends, NEW qs \in Seq(Places),
           \A i \in DOMAIN qs : \E j \in DOMAIN ps : qs[i] = ps[j],
           write_mount_journal(b, qs), UNCHANGED <<boot, mounts>>
    PROVE  /\ journal' \in [Backends -> [boot : 0 .. MaxBoots, recs : Seq(Records)]]
           /\ Bounded' /\ JournalInv'
<1> DEFINE recs == [i \in DOMAIN qs |-> Identity(qs[i])]
<1>1. journal' = [journal EXCEPT ![b] = [boot |-> boot, recs |-> recs]]
  BY DEF write_mount_journal
<1>2. DOMAIN qs = 1 .. Len(qs) /\ Len(qs) \in Nat
  OBVIOUS
<1>3. ASSUME NEW i \in DOMAIN qs
      PROVE  \E m \in mounts : recs[i] = [at |-> qs[i], id |-> m.id] /\ m \in Ours
  <2>1. Seen(qs[i]) # {}
    BY DEF write_mount_journal, CanWrite, IsMountPoint, Range
  <2>2. PICK m \in Seen(qs[i]) : m = CHOOSE x \in Seen(qs[i]) : TRUE
    BY <2>1
  <2>3. m \in mounts
    BY DEF Seen
  <2>4. m \in Ours
    BY AttachedLeads
  <2> QED BY <2>2, <2>3, <2>4 DEF Identity
<1>4. \A i \in DOMAIN qs : recs[i] \in Records
  BY <1>2, <1>3 DEF Shape, Mounts, Records
<1>5. recs \in Seq(Records)
  BY <1>2, <1>4, IsASeq
<1>6. journal' \in [Backends -> [boot : 0 .. MaxBoots, recs : Seq(Records)]]
  BY <1>1, <1>5 DEF Shape
<1> HIDE DEF recs
<1>7. DOMAIN recs = DOMAIN qs
  BY DEF recs
<1>8. \A rec \in Range(recs) : \E m \in Ours : rec.id = m.id
  BY <1>3, <1>7 DEF Range
<1>9. /\ \A c \in Backends \ {b} : (read_mount_journal(c))' = read_mount_journal(c)
      /\ (read_mount_journal(b))' = recs
  BY <1>1 DEF Shape, read_mount_journal
<1>10. Bounded'
  <2>1. PICK c \in Nat :
          /\ \A m \in mounts : m.id <= c
          /\ \A d \in Backends : \A rec \in Range(read_mount_journal(d)) : rec.id <= c
    BY DEF Bounded
  <2>2. \A d \in Backends : \A rec \in Range((read_mount_journal(d))') : rec.id <= c
    BY <1>8, <1>9, <2>1 DEF Ours
  <2> QED BY <2>1, <2>2 DEF Bounded
<1>11. JournalInv'
  <2>1. \A c \in Backends : journal'[c].boot <= boot
    BY <1>1 DEF Shape, JournalInv
  <2>2. \A c \in Backends : \A rec \in Range((read_mount_journal(c))') :
          \A m \in mounts : m.id = rec.id => m.by \notin Others
    <3>1. ASSUME NEW rec \in Range(recs), NEW m \in mounts, m.id = rec.id PROVE m.by \notin Others
      BY <1>8, <3>1 DEF Unique, Ours, Others
    <3> QED BY <1>9, <3>1 DEF JournalInv
  <2> QED BY <2>1, <2>2 DEF JournalInv
<1> QED BY <1>6, <1>10, <1>11


-------------------------------------------------------------------------------
\* What the steps have in common.

LEMMA FaultsCounted ==
    ASSUME Shape, Smooth \/ \E kind \in FaultKinds : Faulty(kind)
    PROVE  faults' \in 0 .. MaxFaults
BY JournalAssumption DEF Shape, Smooth, Faulty

LEMMA RecordsRead ==
    ASSUME Shape
    PROVE  \A b \in Backends : Range(read_mount_journal(b)) \subseteq Records
BY DEF Shape, read_mount_journal, Range

\* Of one mount more, and of fewer mounts, the same is true.
LEMMA OneMore ==
    ASSUME Shape, Unique, Bounded, JournalInv, NEW p \in Places, NEW who \in Owners,
           Attach(p, who), UNCHANGED <<boot, journal>>
    PROVE  mounts' \in SUBSET Mounts /\ Unique' /\ Bounded' /\ JournalInv'
<1> DEFINE x == [at |-> p, id |-> Fresh, by |-> who]
<1>1. /\ Fresh \in Nat \ {0}
      /\ \A m \in mounts : m.id < Fresh
      /\ \A b \in Backends : \A rec \in Range(read_mount_journal(b)) : rec.id < Fresh
  BY IsFresh
<1>2. mounts' = mounts \cup {x} /\ x \in Mounts /\ x.id = Fresh
  BY <1>1 DEF Attach, Mounts
<1> HIDE DEF x
<1>3. \A b \in Backends : (read_mount_journal(b))' = read_mount_journal(b)
  BY DEF read_mount_journal
<1>4. \A m \in mounts : m.id \in Nat /\ m.id # Fresh
  BY <1>1 DEF Shape, Mounts
<1>5. Unique'
  BY <1>2, <1>4 DEF Unique
<1>6. Bounded'
  <2>1. \A b \in Backends : \A rec \in Range(read_mount_journal(b)) : rec.id <= Fresh
    <3> QED BY <1>1, RecordsRead DEF Records
  <2>2. \A m \in mounts' : m.id <= Fresh
    BY <1>1, <1>2, <1>4
  <2> QED BY <1>1, <1>3, <2>1, <2>2 DEF Bounded
<1>7. JournalInv'
  <2>1. \A b \in Backends : \A rec \in Range(read_mount_journal(b)) : rec.id # Fresh
    <3> QED BY <1>1, RecordsRead DEF Records
  <2> QED BY <1>2, <1>3, <2>1 DEF JournalInv
<1> QED BY <1>2, <1>5, <1>6, <1>7 DEF Shape

LEMMA NoMore ==
    ASSUME Shape, Unique, Bounded, JournalInv, mounts' \subseteq mounts, UNCHANGED <<boot, journal>>
    PROVE  mounts' \in SUBSET Mounts /\ Unique' /\ Bounded' /\ JournalInv'
<1>1. \A b \in Backends : (read_mount_journal(b))' = read_mount_journal(b)
  BY DEF read_mount_journal
<1>2. Bounded'
  BY <1>1 DEF Bounded
<1>3. JournalInv'
  BY <1>1 DEF JournalInv
<1> QED BY <1>2, <1>3 DEF Shape, Unique

LEMMA JournalRemoved ==
    ASSUME Shape, Bounded, JournalInv, NEW b \in Backends,
           journal' = [journal EXCEPT ![b] = NoJournal], UNCHANGED <<boot, mounts>>
    PROVE  /\ journal' \in [Backends -> [boot : 0 .. MaxBoots, recs : Seq(Records)]]
           /\ Bounded' /\ JournalInv'
<1>1. <<>> \in Seq(Records) /\ Range(<<>>) = {} /\ NoJournal.boot = 0 /\ NoJournal.recs = <<>>
  BY DEF Range, NoJournal
<1>2. journal' \in [Backends -> [boot : 0 .. MaxBoots, recs : Seq(Records)]]
  BY <1>1, JournalAssumption DEF Shape, NoJournal
<1>3. /\ \A c \in Backends \ {b} : (read_mount_journal(c))' = read_mount_journal(c)
      /\ (read_mount_journal(b))' = <<>>
  BY <1>1 DEF Shape, read_mount_journal
<1>4. Bounded'
  BY <1>1, <1>3 DEF Bounded
<1>5. JournalInv'
  <2>1. \A c \in Backends : journal'[c].boot <= boot
    BY <1>1 DEF Shape, JournalInv
  <2> QED BY <1>1, <1>3, <2>1 DEF JournalInv
<1> QED BY <1>2, <1>4, <1>5

\* A stage that begins with nothing attached.
LEMMA Begins ==
    ASSUME mounts' \in SUBSET Mounts, Bounded', run'.done = <<>>,
           run'.at \in {"idle", "read", "gather", "work", "sync", "register", "setup", "leaf"}
    PROVE  StageInv'
<1>1. PICK c \in Nat : \A m \in mounts' : m.id <= c
  BY DEF Bounded
<1>2. PathsOf(<<>>) = <<>>
  BY DEF PathsOf
<1>3. Attached(mounts', <<>>)
  BY <1>1, NothingAttached DEF Mounts
<1>4. Len(<<>>) < Len(Mirrors) /\ DOMAIN <<>> = {}
  BY JournalAssumption
<1>5. run'.at \in {"setup", "leaf"} => Attached(mounts', PathsOf(run'.done))
  BY <1>2, <1>3
<1> QED BY <1>4, <1>5 DEF StageInv

\* The same of the stages that have nothing to do with what is attached.
LEMMA Elsewhere ==
    ASSUME run'.at \in {"idle", "read", "sync", "register"}
    PROVE  StageInv'
BY DEF StageInv

Start(op, at, of, all) ==
    [op |-> op, at |-> at, of |-> of, all |-> all, ok |-> TRUE,
     plan |-> <<>>, left |-> <<>>, done |-> <<>>, kids |-> {}]

LEMMA StartTyped ==
    ASSUME NEW op \in {"none", "mount", "undo", "unmount"}, NEW at \in Points,
           NEW of \in Backends, NEW all \in BOOLEAN
    PROVE  LET r == Start(op, at, of, all) IN r \in Runs /\ r.done = <<>> /\ r.at = at
<1>1. PICK none : none = <<>>
  OBVIOUS
<1>2. PICK r : r = Start(op, at, of, all)
  OBVIOUS
<1>3. r = [op |-> op, at |-> at, of |-> of, all |-> all, ok |-> TRUE,
           plan |-> none, left |-> none, done |-> none, kids |-> {}]
  BY <1>1, <1>2 DEF Start
<1>4. none \in Seq(Places) /\ none \in Seq(Records \cup Attachments) /\ none \in Seq(Attachments)
  BY <1>1
<1>5. r \in Runs /\ r.done = none /\ r.at = at
  BY <1>3, <1>4 DEF Runs
<1> QED BY <1>1, <1>2, <1>5

LEMMA IsOver ==
    ASSUME Shape, NEW ok \in BOOLEAN, Over(ok)
    PROVE  run' \in Runs /\ run'.done = <<>> /\ run'.at \in {"setup", "read", "idle"}
<1>1. run.all \in BOOLEAN /\ run.op \in {"none", "mount", "undo", "unmount"}
  BY DEF Shape, Runs
<1>2. PICK all \in BOOLEAN : all = (run.all /\ ok)
  BY <1>1
<1>3. \/ run' = Start("mount", "setup", "mirror", all)
      \/ run' = Start("unmount", "read", "magic", all)
      \/ run' = Start("unmount", "read", "mirror", all)
      \/ run' = Start(run.op, "idle", "magic", all)
  BY <1>2 DEF Over, Start, NoRun
<1>4. /\ {"setup", "read", "idle"} \subseteq Points /\ {"mirror", "magic"} \subseteq Backends
      /\ {"mount", "unmount", "none"} \subseteq {"none", "mount", "undo", "unmount"}
  BY DEF Points, Backends
<1> QED BY <1>1, <1>2, <1>3, <1>4, StartTyped

LEMMA RollsBack ==
    ASSUME Shape, NEW ds \in Seq(Attachments), Detachable(mounts', Reverse(PathsOf(ds))), RollBack(ds)
    PROVE  run' \in Runs /\ StageInv'
<1>1. Reverse(ds) \in Seq(Records \cup Attachments)
  BY Reversed, AttachmentsAre
<1>2. run' \in Runs /\ run'.at = "roll-back" /\ run'.left = Reverse(ds)
  BY <1>1 DEF Shape, Runs, RollBack, Points
<1>3. Detachable(mounts', PathsOf(run'.left))
  BY <1>2, PathsReversed
<1> QED BY <1>2, <1>3 DEF StageInv

-------------------------------------------------------------------------------
\* Step by step.

LEMMA InitInv == Init => JournalsInv
<1> SUFFICES ASSUME Init PROVE JournalsInv
  OBVIOUS
<1>1. \A i \in DOMAIN Stock : Stock[i] \in Places /\ i \in 1 .. Len(Stock)
  BY JournalAssumption
<1>2. Len(Stock) \in Nat
  BY JournalAssumption
<1>3. mounts = {[at |-> Stock[i], id |-> i, by |-> "stock"] : i \in DOMAIN Stock}
  BY DEF Init, StockMounts
<1>4. mounts \in SUBSET Mounts /\ Unique /\ \A m \in mounts : m.id <= Len(Stock)
  BY <1>1, <1>2, <1>3 DEF Mounts, Owners, Unique
<1>5. <<>> \in Seq(Records) /\ Range(<<>>) = {}
  BY DEF Range
<1>6. journal \in [Backends -> [boot : 0 .. MaxBoots, recs : Seq(Records)]]
      /\ \A b \in Backends : journal[b].boot = 0 /\ journal[b].recs = <<>>
  BY <1>5, JournalAssumption DEF Init, NoJournal
<1>7. \A b \in Backends : Range(read_mount_journal(b)) = {}
  BY <1>5, <1>6 DEF read_mount_journal
<1>8. run = Start("none", "idle", "magic", TRUE)
  BY DEF Init, NoRun, Start
<1>9. run \in Runs /\ run.at = "idle"
  <2>1. "none" \in {"none", "mount", "undo", "unmount"} /\ "idle" \in Points /\ "magic" \in Backends
    BY DEF Points, Backends
  <2> QED BY <1>8, <2>1, StartTyped
<1>10. StageInv
  BY <1>9 DEF StageInv
<1>11. Shape
  <2>1. boot \in 1 .. MaxBoots /\ faults \in 0 .. MaxFaults
    BY JournalAssumption DEF Init
  <2>2. /\ claimed \in BOOLEAN /\ damaged \in BOOLEAN
        /\ registered \in SUBSET Places /\ leaked \in SUBSET Places
    BY DEF Init
  <2> QED BY <1>4, <1>6, <1>9, <2>1, <2>2 DEF Shape
<1>12. Bounded
  BY <1>2, <1>4, <1>7 DEF Bounded
<1>13. JournalInv
  BY <1>6, <1>7 DEF JournalInv, Init
<1> QED BY <1>4, <1>10, <1>11, <1>12, <1>13 DEF JournalsInv

\* Steps that leave mounts and journals alone, and end a backend or begin a stage.
LEMMA Calm ==
    ASSUME JournalsInv, UNCHANGED <<boot, mounts, journal>>, run' \in Runs, StageInv',
           claimed' \in BOOLEAN, damaged' \in BOOLEAN,
           registered' \in SUBSET Places, leaked' \in SUBSET Places,
           Smooth \/ \E kind \in FaultKinds : Faulty(kind)
    PROVE  JournalsInv'
<1>1. Shape /\ Unique /\ Bounded /\ JournalInv
  BY DEF JournalsInv
<1>2. mounts' \in SUBSET Mounts /\ Unique' /\ Bounded' /\ JournalInv'
  BY <1>1, NoMore
<1>3. faults' \in 0 .. MaxFaults
  BY <1>1, FaultsCounted
<1>4. Shape'
  BY <1>1, <1>2, <1>3 DEF Shape
<1> QED BY <1>2, <1>4 DEF JournalsInv

LEMMA OverInv ==
    ASSUME JournalsInv, NEW ok \in BOOLEAN, Over(ok), mounts' \in SUBSET Mounts, Bounded'
    PROVE  run' \in Runs /\ StageInv'
<1>1. run' \in Runs /\ run'.done = <<>> /\ run'.at \in {"setup", "read", "idle"}
  BY IsOver DEF JournalsInv
<1> QED BY <1>1, Begins

LEMMA StartInv ==
    ASSUME NEW op \in {"none", "mount", "undo", "unmount"}, NEW at \in {"idle", "read", "gather"},
           NEW of \in Backends, NEW all \in BOOLEAN, run' = Start(op, at, of, all),
           mounts' \in SUBSET Mounts, Bounded'
    PROVE  run' \in Runs /\ StageInv'
<1>1. at \in Points
  BY DEF Points
<1>2. run' \in Runs /\ run'.done = <<>> /\ run'.at = at
  BY <1>1, StartTyped
<1> QED BY <1>2, Begins

LEMMA StillBounded ==
    ASSUME JournalsInv, UNCHANGED <<boot, mounts, journal>>
    PROVE  mounts' \in SUBSET Mounts /\ Bounded'
BY NoMore DEF JournalsInv

LEMMA BeginInv ==
    ASSUME JournalsInv, BeginUnmount \/ BeginMount
    PROVE  JournalsInv'
<1>1. UNCHANGED <<boot, mounts, journal>> /\ Smooth /\ UNCHANGED <<registered, leaked, damaged>>
      /\ claimed' \in BOOLEAN
  BY DEF JournalsInv, Shape, BeginUnmount, BeginMount, quiet
<1>2. \/ run' = Start("unmount", "read", "overlay", TRUE)
      \/ run' = Start("mount", "read", "magic", TRUE)
  BY DEF BeginUnmount, BeginMount, NoRun, Start
<1>3. {"overlay", "magic"} \subseteq Backends
  BY DEF Backends
<1>4. run' \in Runs /\ StageInv'
  BY <1>1, <1>2, <1>3, StillBounded, StartInv
<1> QED BY <1>1, <1>4, Calm DEF JournalsInv, Shape

LEMMA ReadInv ==
    ASSUME JournalsInv, ReadJournal
    PROVE  JournalsInv'
<1>1. UNCHANGED <<boot, mounts, journal>> /\ UNCHANGED <<claimed, registered, leaked>>
  BY DEF ReadJournal, quiet
<1>2. CASE run' = [run EXCEPT !.at = "detach", !.left = Reverse(read_mount_journal(run.of))]
           /\ Smooth /\ UNCHANGED damaged
  <2>1. run.of \in Backends /\ read_mount_journal(run.of) \in Seq(Records)
    BY DEF JournalsInv, Shape, Runs, read_mount_journal
  <2>2. Reverse(read_mount_journal(run.of)) \in Seq(Records \cup Attachments)
        /\ Range(Reverse(read_mount_journal(run.of))) = Range(read_mount_journal(run.of))
    BY <2>1, Reversed, AttachmentsAre
  <2> DEFINE left == Reverse(read_mount_journal(run.of))
  <2> HIDE DEF left
  <2>3. run' \in Runs /\ run'.at = "detach" /\ run'.left = left /\ run'.of = run.of
    BY <1>2, <2>2 DEF JournalsInv, Shape, Runs, Points, left
  <2>4. Range(run'.left) \subseteq Range((read_mount_journal(run.of))')
    BY <1>1, <2>2, <2>3 DEF read_mount_journal, left
  <2>5. StageInv'
    BY <2>3, <2>4 DEF StageInv, read_mount_journal
  <2> QED BY <1>1, <1>2, <2>3, <2>5, Calm DEF JournalsInv, Shape
<1>3. CASE Faulty("reads") /\ Over(FALSE) /\ damaged' = TRUE
  <2>1. run' \in Runs /\ StageInv'
    BY <1>1, <1>3, StillBounded, OverInv
  <2> QED BY <1>1, <1>3, <2>1, Calm DEF JournalsInv, Shape, FaultKinds
<1> QED BY <1>2, <1>3 DEF ReadJournal

LEMMA TearDownInv ==
    ASSUME JournalsInv, TearDownRecord
    PROVE  JournalsInv'
<1> DEFINE rec == Head(run.left)
<1>1. Shape /\ Unique /\ Bounded /\ JournalInv /\ run \in Runs
  BY DEF JournalsInv, Shape
<1>2. run.at = "detach" /\ run.left # <<>> /\ UNCHANGED <<boot, claimed, journal>>
      /\ (SkipRecord(rec) \/ DetachRecord(rec))
  BY DEF TearDownRecord, quiet
<1>3. /\ run.left \in Seq(Records \cup Attachments)
      /\ Range(run.left) \subseteq Range(read_mount_journal(run.of))
  BY <1>1, <1>2 DEF JournalsInv, Runs, StageInv
<1>4. /\ rec \in Records \cup Attachments /\ Tail(run.left) \in Seq(Records \cup Attachments)
      /\ Range(Tail(run.left)) \subseteq Range(read_mount_journal(run.of))
  BY <1>2, <1>3, TailOf
<1>5. rec.at \in Places
  BY <1>4 DEF Records, Attachments
<1> HIDE DEF rec
<1>6. run' = Rest \/ run' = [Rest EXCEPT !.ok = FALSE]
  BY <1>2 DEF SkipRecord, DetachRecord, Unregister
<1> DEFINE left == Tail(run.left)
<1> HIDE DEF left
<1>7. left \in Seq(Records \cup Attachments) /\ Rest = [run EXCEPT !.left = left]
  BY <1>4 DEF left, Rest
<1>8. run' \in Runs /\ run'.at = "detach" /\ run'.left = left /\ run'.of = run.of
  BY <1>1, <1>2, <1>6, <1>7 DEF Runs
<1>9. mounts' \subseteq mounts
  <2>1. UNCHANGED mounts \/ Detach(rec.at)
    BY <1>2 DEF SkipRecord, DetachRecord
  <2> QED BY <2>1, OneDetached
<1>10. registered' \in SUBSET Places /\ leaked' \in SUBSET Places
  <2>1. UNCHANGED <<registered, leaked>> \/ Unregister(rec.at)
    BY <1>2 DEF SkipRecord, DetachRecord
  <2> QED BY <1>1, <1>5, <2>1 DEF Shape, Unregister
<1>11. Smooth \/ \E kind \in FaultKinds : Faulty(kind)
  BY <1>2 DEF SkipRecord, DetachRecord, Unregister, FaultKinds
<1>12. damaged' \in BOOLEAN
  BY <1>1, <1>2 DEF SkipRecord, DetachRecord, Shape
<1>13. StageInv'
  <2>1. Range(run'.left) \subseteq Range((read_mount_journal(run.of))')
    BY <1>2, <1>4, <1>8 DEF read_mount_journal, left
  <2> QED BY <1>8, <2>1 DEF StageInv, read_mount_journal
<1>14. mounts' \in SUBSET Mounts /\ Unique' /\ Bounded' /\ JournalInv'
  BY <1>1, <1>2, <1>9, NoMore
<1>15. faults' \in 0 .. MaxFaults
  BY <1>1, <1>11, FaultsCounted
<1>16. Shape'
  BY <1>1, <1>2, <1>8, <1>10, <1>12, <1>14, <1>15 DEF Shape
<1> QED BY <1>13, <1>14, <1>16 DEF JournalsInv

LEMMA AfterTeardownInv ==
    ASSUME JournalsInv, NEW ok \in BOOLEAN, AfterTeardown(ok), mounts' \in SUBSET Mounts, Bounded'
    PROVE  run' \in Runs /\ StageInv'
<1>1. run.op \in {"none", "mount", "undo", "unmount"}
  BY DEF JournalsInv, Shape, Runs
<1>2. CASE run.op = "mount" /\ ok
  <2>1. run' = Start("mount", "gather", "magic", TRUE)
    BY <1>2 DEF AfterTeardown, NoRun, Start
  <2>2. "magic" \in Backends
    BY DEF Backends
  <2> QED BY <2>1, <2>2, StartInv
<1>3. CASE ~(run.op = "mount" /\ ok)
  <2>1. Over(ok /\ run.op # "undo")
    BY <1>3 DEF AfterTeardown
  <2>2. PICK good \in BOOLEAN : good = (ok /\ run.op # "undo")
    OBVIOUS
  <2>3. Over(good)
    BY <2>1, <2>2 DEF Over
  <2> QED BY <2>3, OverInv
<1> QED BY <1>2, <1>3

LEMMA RemoveJournalInv ==
    ASSUME JournalsInv, RemoveJournal
    PROVE  JournalsInv'
<1>1. Shape /\ Unique /\ Bounded /\ JournalInv /\ run.of \in Backends
  BY DEF JournalsInv, Shape, Runs
<1>2. UNCHANGED <<boot, claimed, mounts, registered, leaked, damaged>>
  BY DEF RemoveJournal, quiet
<1>3. CASE journal' = [journal EXCEPT ![run.of] = NoJournal] /\ AfterTeardown(TRUE) /\ Smooth
  <2>1. /\ journal' \in [Backends -> [boot : 0 .. MaxBoots, recs : Seq(Records)]]
        /\ Bounded' /\ JournalInv'
    BY <1>1, <1>2, <1>3, JournalRemoved
  <2>2. mounts' \in SUBSET Mounts /\ Unique'
    BY <1>1, <1>2 DEF Shape, Unique
  <2>3. run' \in Runs /\ StageInv'
    BY <1>3, <2>1, <2>2, AfterTeardownInv
  <2>4. Shape'
    BY <1>1, <1>2, <1>3, <2>1, <2>2, <2>3 DEF Shape, Smooth
  <2> QED BY <2>1, <2>2, <2>3, <2>4 DEF JournalsInv
<1>4. CASE AfterTeardown(FALSE) /\ UNCHANGED journal /\ (Faulty("calls") \/ Smooth)
  <2>1. run' \in Runs /\ StageInv'
    BY <1>2, <1>4, StillBounded, AfterTeardownInv
  <2> QED BY <1>2, <1>4, <2>1, Calm DEF JournalsInv, Shape, FaultKinds
<1> QED BY <1>3, <1>4 DEF RemoveJournal

LEMMA GatherInv ==
    ASSUME JournalsInv, GatherFiles
    PROVE  JournalsInv'
<1>1. UNCHANGED <<boot, mounts, journal, claimed, registered, leaked, damaged>>
      /\ (Smooth \/ Faulty("calls"))
  BY DEF GatherFiles, quiet
<1>2. run' \in Runs /\ StageInv'
  <2>1. CASE Goes("work")
    <3>1. run.done = <<>> /\ run \in Runs
      BY DEF JournalsInv, Shape, StageInv, GatherFiles
    <3>2. run' \in Runs /\ run'.at = "work" /\ run'.done = <<>>
      BY <2>1, <3>1 DEF Goes, Runs, Points
    <3> QED BY <1>1, <3>2, StillBounded, Begins
  <2>2. CASE Over(TRUE) \/ Over(FALSE)
    BY <1>1, <2>2, StillBounded, OverInv
  <2> QED BY <2>1, <2>2 DEF GatherFiles
<1> QED BY <1>1, <1>2, Calm DEF JournalsInv, Shape, FaultKinds

LEMMA EmptyPaths == PathsOf(<<>>) = <<>> /\ <<>> \in Seq(Places) /\ <<>> \in Seq(Attachments)
                    /\ \A p \in Places : Append(<<>>, p) = <<p>>
BY DEF PathsOf

LEMMA MountWorkInv ==
    ASSUME JournalsInv, MountWork
    PROVE  JournalsInv'
<1>1. Shape /\ Unique /\ Bounded /\ JournalInv /\ run \in Runs /\ run.done = <<>>
  BY DEF JournalsInv, Shape, StageInv, MountWork
<1>2. UNCHANGED <<boot, journal, claimed, registered, leaked, damaged>>
  BY DEF MountWork, quiet
<1>3. CASE Attach(Work, "magic") /\ Goes("first-save") /\ Smooth
  <2>1. Work \in Places /\ "magic" \in Owners \ Others /\ "magic" \in Owners
    BY JournalAssumption DEF Owners, Others, Backends
  <2>2. mounts' \in SUBSET Mounts /\ Unique' /\ Bounded' /\ JournalInv'
    BY <1>1, <1>2, <1>3, <2>1, OneMore
  <2>3. PICK c \in Nat : \A m \in mounts : m.id <= c
    BY <1>1 DEF Bounded
  <2>4. Attached(mounts, <<>>)
    BY <1>1, <2>3, NothingAttached DEF Shape, Mounts
  <2>5. Attached(mounts', <<Work>>)
    BY <1>1, <1>3, <2>1, <2>4, EmptyPaths, MoreAttached DEF Attach
  <2>6. run' \in Runs /\ run'.at = "first-save" /\ run'.done = <<>>
    BY <1>1, <1>3 DEF Goes, Runs, Points
  <2>7. StageInv'
    BY <2>5, <2>6 DEF StageInv
  <2>8. Shape'
    BY <1>1, <1>2, <1>3, <2>2, <2>6 DEF Shape, Smooth
  <2> QED BY <2>2, <2>7, <2>8 DEF JournalsInv
<1>4. CASE Over(FALSE) /\ UNCHANGED mounts /\ (Smooth \/ Faulty("calls"))
  <2>1. run' \in Runs /\ StageInv'
    BY <1>2, <1>4, StillBounded, OverInv
  <2> QED BY <1>2, <1>4, <2>1, Calm DEF JournalsInv, Shape, FaultKinds
<1> QED BY <1>3, <1>4 DEF MountWork

\* A pass notes what it attaches.
LEMMA Noted ==
    ASSUME Shape, NEW p \in Places, NEW reg \in BOOLEAN
    PROVE  /\ Did(p, reg) \in Seq(Attachments) /\ PathsOf(run.done) \in Seq(Places)
           /\ PathsOf(Did(p, reg)) = Append(PathsOf(run.done), p)
<1> DEFINE d == [at |-> p, reg |-> reg]
<1>1. d \in Attachments /\ run.done \in Seq(Attachments) /\ d.at = p
  BY DEF Shape, Runs, Attachments
<1> HIDE DEF d
<1>2. Append(run.done, d) \in Seq(Attachments)
  BY <1>1, AppendProperties
<1>3. PathsOf(Append(run.done, d)) = Append(PathsOf(run.done), p)
  BY <1>1, PathsAppended
<1>4. PathsOf(run.done) \in Seq(Places)
  BY <1>1, AttachmentsAre, PathsAre
<1> QED BY <1>2, <1>3, <1>4 DEF Did, d

LEMMA Appended ==
    ASSUME NEW ps \in Seq(Places), NEW p \in Places
    PROVE  /\ Range(Append(ps, p)) = Range(ps) \cup {p}
           /\ <<Work>> \o Append(ps, p) = Append(<<Work>> \o ps, p)
           /\ <<Work>> \o ps \in Seq(Places)
<1>1. Append(ps, p) \in Seq(Places) /\ Len(Append(ps, p)) = Len(ps) + 1
      /\ (\A i \in 1 .. Len(ps) : Append(ps, p)[i] = ps[i]) /\ Append(ps, p)[Len(ps) + 1] = p
  BY AppendProperties
<1>2. DOMAIN ps = 1 .. Len(ps) /\ DOMAIN Append(ps, p) = 1 .. Len(ps) + 1 /\ Len(ps) \in Nat
  BY <1>1
<1>3. Range(Append(ps, p)) \subseteq Range(ps) \cup {p}
  BY <1>1, <1>2 DEF Range
<1>4. Range(ps) \cup {p} \subseteq Range(Append(ps, p))
  BY <1>1, <1>2 DEF Range
<1>5. <<Work>> \in Seq(Places) /\ <<p>> \in Seq(Places)
  BY JournalAssumption
<1>6. <<Work>> \o ps \in Seq(Places)
  BY <1>5, ConcatProperties
<1>7. <<Work>> \o (ps \o <<p>>) = (<<Work>> \o ps) \o <<p>>
  BY <1>5, ConcatAssociative
<1>8. Append(ps, p) = ps \o <<p>> /\ Append(<<Work>> \o ps, p) = (<<Work>> \o ps) \o <<p>>
  BY <1>6, AppendIsConcat
<1> QED BY <1>3, <1>4, <1>6, <1>7, <1>8

LEMMA JustWork == <<Work>> \in Seq(Places) /\ Range(<<Work>>) = {Work} /\ <<Work>> \o <<>> = <<Work>>
                  /\ Reverse(<<Work>>) = <<Work>> /\ PathsOf(<<[at |-> Work, reg |-> FALSE]>>) = <<Work>>
                  /\ <<[at |-> Work, reg |-> FALSE]>> \in Seq(Attachments)
<1>1. <<Work>> \in Seq(Places) /\ Len(<<Work>>) = 1 /\ <<Work>>[1] = Work /\ DOMAIN <<Work>> = {1}
  BY JournalAssumption
<1>2. Range(<<Work>>) = {Work}
  BY <1>1 DEF Range
<1>3. <<Work>> \o <<>> = <<Work>>
  BY <1>1, ConcatEmptySeq
<1>4. Reverse(<<Work>>) = <<Work>>
  <2>1. Reverse(<<Work>>) \in Seq(Places) /\ Len(Reverse(<<Work>>)) = 1
        /\ \A i \in 1 .. 1 : Reverse(<<Work>>)[i] = <<Work>>[1 - i + 1]
    BY <1>1, Reversed
  <2>2. \A i \in 1 .. 1 : Reverse(<<Work>>)[i] = <<Work>>[i]
    BY <2>1
  <2> QED BY <1>1, <2>1, <2>2, SeqEqual
<1>5. PICK d : d = [at |-> Work, reg |-> FALSE]
  OBVIOUS
<1>6. d \in Attachments /\ d.at = Work
  BY <1>5, JournalAssumption DEF Attachments
<1>7. <<d>> \in Seq(Attachments) /\ DOMAIN <<d>> = {1} /\ <<d>>[1] = d
  BY <1>6
<1>8. PathsOf(<<d>>) = <<Work>>
  <2>1. PathsOf(<<d>>) \in Seq(Places) /\ Len(PathsOf(<<d>>)) = 1
    BY <1>7, AttachmentsAre, PathsAre
  <2>2. \A i \in 1 .. 1 : PathsOf(<<d>>)[i] = <<Work>>[i]
    BY <1>6, <1>7 DEF PathsOf
  <2> QED BY <1>1, <2>1, <2>2, SeqEqual
<1> QED BY <1>1, <1>2, <1>3, <1>4, <1>5, <1>7, <1>8

LEMMA SaveWorkInv ==
    ASSUME JournalsInv, SaveWork
    PROVE  JournalsInv'
<1>1. Shape /\ Unique /\ Bounded /\ JournalInv /\ run \in Runs /\ run.done = <<>>
      /\ Attached(mounts, <<Work>>)
  BY DEF JournalsInv, Shape, StageInv, SaveWork
<1>2. UNCHANGED <<boot, mounts, claimed, registered, leaked, damaged>>
  BY DEF SaveWork, quiet
<1>3. CASE write_mount_journal("magic", <<Work>>) /\ Smooth
           /\ run' = [run EXCEPT !.at = "walk", !.plan = MagicPlan]
  <2>1. "magic" \in Backends
    BY DEF Backends
  <2>2. \A i \in DOMAIN <<Work>> : \E j \in DOMAIN <<Work>> : <<Work>>[i] = <<Work>>[j]
    OBVIOUS
  <2>3. /\ journal' \in [Backends -> [boot : 0 .. MaxBoots, recs : Seq(Records)]]
        /\ Bounded' /\ JournalInv'
    BY <1>1, <1>2, <1>3, <2>1, <2>2, JustWork, JournalWritten
  <2>4. run' \in Runs /\ run'.at = "walk" /\ run'.done = <<>> /\ run'.plan = MagicPlan
    BY <1>1, <1>3, JournalAssumption DEF Runs, Points
  <2>5. Range(PathsOf(run'.done)) \cup Range(run'.plan) \subseteq Range(MagicPlan)
    BY <2>4, EmptyPaths DEF Range
  <2>6. Attached(mounts', <<Work>> \o PathsOf(run'.done))
    BY <1>1, <1>2, <2>4, EmptyPaths, JustWork
  <2>7. StageInv'
    BY <2>4, <2>5, <2>6 DEF StageInv
  <2>8. Shape'
    BY <1>1, <1>2, <1>3, <2>3, <2>4 DEF Shape, Smooth
  <2>9. Unique'
    BY <1>1, <1>2 DEF Unique
  <2> QED BY <2>3, <2>7, <2>8, <2>9 DEF JournalsInv
<1>4. CASE Faulty("calls") /\ RollBack(<<[at |-> Work, reg |-> FALSE]>>) /\ UNCHANGED journal
  <2>1. Detachable(mounts', <<Work>>)
    BY <1>1, <1>2, JustWork, ReverseDetachable
  <2>2. run' \in Runs /\ StageInv'
    BY <1>1, <1>4, <2>1, JustWork, RollsBack
  <2> QED BY <1>2, <1>4, <2>2, Calm DEF JournalsInv, Shape, FaultKinds
<1> QED BY <1>3, <1>4 DEF SaveWork

LEMMA WalkInv ==
    ASSUME JournalsInv, WalkOn
    PROVE  JournalsInv'
<1> DEFINE p == Head(run.plan)
           ps == PathsOf(run.done)
<1>1. Shape /\ Unique /\ Bounded /\ JournalInv /\ run \in Runs /\ run.plan # <<>>
      /\ Attached(mounts, <<Work>> \o ps)
      /\ Range(ps) \cup Range(run.plan) \subseteq Range(MagicPlan)
  BY DEF JournalsInv, Shape, StageInv, WalkOn
<1>2. UNCHANGED <<boot, journal, claimed, registered, leaked, damaged>>
  BY DEF WalkOn, quiet
<1>3. p \in Places /\ p \in Range(run.plan) /\ Tail(run.plan) \in Seq(Places)
      /\ Range(Tail(run.plan)) \subseteq Range(run.plan)
  BY <1>1, TailOf DEF Runs
<1> DEFINE did == Did(p, FALSE)
           rest == Tail(run.plan)
<1> HIDE DEF p, rest
<1>4. did \in Seq(Attachments) /\ ps \in Seq(Places) /\ PathsOf(did) = Append(ps, p)
  BY <1>1, <1>3, Noted
<1> HIDE DEF did, ps
<1>5. CASE Attach(p, "magic") /\ (Smooth \/ Faulty("calls"))
           /\ (run' = [Onward EXCEPT !.done = did]
               \/ run' = [run EXCEPT !.at = "save", !.ok = FALSE, !.done = did])
  <2>1. "magic" \in Owners \ Others /\ "magic" \in Owners
    BY DEF Owners, Others, Backends
  <2>2. mounts' \in SUBSET Mounts /\ Unique' /\ Bounded' /\ JournalInv'
    BY <1>1, <1>2, <1>3, <1>5, <2>1, OneMore
  <2>3. <<Work>> \o ps \in Seq(Places) /\ Range(Append(ps, p)) = Range(ps) \cup {p}
        /\ <<Work>> \o Append(ps, p) = Append(<<Work>> \o ps, p)
    BY <1>3, <1>4, Appended
  <2>4. Attached(mounts', Append(<<Work>> \o ps, p))
    BY <1>1, <1>3, <1>5, <2>1, <2>3, MoreAttached DEF Attach
  <2>5. run' \in Runs /\ run'.at \in {"walk", "save"} /\ run'.done = did /\ run'.plan \in {rest, run.plan}
    <3>1. run.at = "walk" /\ rest \in Seq(Places) /\ Onward = [run EXCEPT !.plan = rest]
      BY <1>3 DEF WalkOn, Onward, rest
    <3> QED BY <1>1, <1>4, <1>5, <3>1 DEF Runs, Points
  <2>6. Attached(mounts', <<Work>> \o PathsOf(run'.done))
    BY <1>4, <2>3, <2>4, <2>5
  <2>7. Range(PathsOf(run'.done)) \cup Range(run'.plan) \subseteq Range(MagicPlan)
    BY <1>1, <1>3, <1>4, <2>3, <2>5 DEF rest
  <2>8. StageInv'
    BY <2>5, <2>6, <2>7 DEF StageInv
  <2>9. faults' \in 0 .. MaxFaults
    BY <1>1, <1>5, FaultsCounted DEF FaultKinds
  <2>10. Shape'
    BY <1>1, <1>2, <2>2, <2>5, <2>9 DEF Shape
  <2> QED BY <2>2, <2>8, <2>10 DEF JournalsInv
<1>6. CASE Faulty("calls") /\ Fails("save") /\ UNCHANGED mounts
  <2>1. run' \in Runs /\ run'.at = "save" /\ run'.done = run.done /\ run'.plan = run.plan
    BY <1>1, <1>6 DEF Fails, Runs, Points
  <2>2. StageInv'
    BY <1>1, <1>6, <2>1 DEF StageInv, ps
  <2> QED BY <1>2, <1>6, <2>1, <2>2, Calm DEF JournalsInv, Shape, FaultKinds
<1> QED BY <1>5, <1>6 DEF WalkOn, p, did

LEMMA SaveMountsInv ==
    ASSUME JournalsInv, SaveMounts
    PROVE  JournalsInv'
<1> DEFINE ps == PathsOf(run.done)
           committed == Did(Work, FALSE)
<1>1. Shape /\ Unique /\ Bounded /\ JournalInv /\ run \in Runs
      /\ Attached(mounts, <<Work>> \o ps) /\ Range(ps) \subseteq Range(MagicPlan)
  BY DEF JournalsInv, Shape, StageInv, SaveMounts
<1>2. UNCHANGED <<boot, mounts, claimed, registered, leaked, damaged>>
  BY DEF SaveMounts, quiet
<1>3. /\ committed \in Seq(Attachments) /\ ps \in Seq(Places)
      /\ PathsOf(committed) = Append(ps, Work)
  BY <1>1, Noted, JournalAssumption
<1> HIDE DEF ps, committed
<1>4. CASE write_mount_journal("magic", PathsOf(committed)) /\ Smooth
           /\ run' = [run EXCEPT !.at = "register", !.done = committed]
  <2>1. "magic" \in Backends
    BY DEF Backends
  <2>2. Append(ps, Work) \in Seq(Places)
    BY <1>3, JournalAssumption, AppendProperties
  <2>3. \A i \in DOMAIN Append(ps, Work) :
           \E j \in DOMAIN (<<Work>> \o ps) : Append(ps, Work)[i] = (<<Work>> \o ps)[j]
    <3>1. /\ Len(Append(ps, Work)) = Len(ps) + 1 /\ Append(ps, Work)[Len(ps) + 1] = Work
          /\ \A i \in 1 .. Len(ps) : Append(ps, Work)[i] = ps[i]
      BY <1>3, JournalAssumption, AppendProperties
    <3>2. /\ <<Work>> \o ps \in Seq(Places) /\ Len(<<Work>> \o ps) = 1 + Len(ps)
          /\ \A i \in 1 .. 1 + Len(ps) : (<<Work>> \o ps)[i] = IF i <= 1 THEN <<Work>>[i] ELSE ps[i - 1]
      BY <1>3, JustWork, ConcatProperties
    <3>3. Len(ps) \in Nat
      BY <1>3
    <3>4. ASSUME NEW i \in 1 .. Len(ps) + 1
          PROVE \E j \in 1 .. Len(ps) + 1 : Append(ps, Work)[i] = (<<Work>> \o ps)[j]
      <4>1. CASE i = Len(ps) + 1
        <5>1. 1 \in 1 .. Len(ps) + 1 /\ (<<Work>> \o ps)[1] = Work
          BY <3>2, <3>3
        <5> QED BY <3>1, <4>1, <5>1
      <4>2. CASE i # Len(ps) + 1
        <5>1. i \in 1 .. Len(ps) /\ i + 1 \in 1 .. Len(ps) + 1 /\ ~(i + 1 <= 1) /\ i + 1 - 1 = i
          BY <3>3, <4>2
        <5>2. (<<Work>> \o ps)[i + 1] = ps[i]
          BY <3>2, <3>3, <5>1
        <5> QED BY <3>1, <5>1, <5>2
      <4> QED BY <4>1, <4>2
    <3>5. DOMAIN Append(ps, Work) = 1 .. Len(ps) + 1 /\ DOMAIN (<<Work>> \o ps) = 1 .. Len(ps) + 1
      BY <2>2, <3>1, <3>2, <3>3
    <3> QED BY <3>4, <3>5
  <2>4. /\ journal' \in [Backends -> [boot : 0 .. MaxBoots, recs : Seq(Records)]]
        /\ Bounded' /\ JournalInv'
    BY <1>1, <1>2, <1>3, <1>4, <2>1, <2>2, <2>3, JournalWritten, ZenonT(40)
  <2>5. run' \in Runs /\ run'.at = "register"
    BY <1>1, <1>3, <1>4 DEF Runs, Points
  <2>6. StageInv'
    BY <2>5, Elsewhere
  <2>7. Shape'
    BY <1>1, <1>2, <1>4, <2>4, <2>5 DEF Shape, Smooth
  <2>8. Unique'
    BY <1>1, <1>2 DEF Unique
  <2> QED BY <2>4, <2>6, <2>7, <2>8 DEF JournalsInv
<1>5. CASE Faulty("calls") /\ RollBack(committed) /\ UNCHANGED journal
  <2>1. Detachable(mounts, Reverse(Append(ps, Work)))
    BY <1>1, <1>3, ReverseMagicDetachable
  <2>2. Detachable(mounts', Reverse(PathsOf(committed)))
    BY <1>2, <1>3, <2>1
  <2>3. run' \in Runs /\ StageInv'
    BY <1>1, <1>3, <1>5, <2>2, RollsBack
  <2> QED BY <1>2, <1>5, <2>3, Calm DEF JournalsInv, Shape, FaultKinds
<1> QED BY <1>4, <1>5 DEF SaveMounts, committed

LEMMA RegisterInv ==
    ASSUME JournalsInv, RegisterMounts
    PROVE  JournalsInv'
<1>1. Shape /\ run \in Runs /\ run.done \in Seq(Attachments) /\ run.all \in BOOLEAN
  BY DEF JournalsInv, Shape, Runs
<1>2. UNCHANGED <<boot, mounts, journal, claimed, leaked, damaged>> /\ (Smooth \/ Faulty("calls"))
  BY DEF RegisterMounts, quiet
<1>3. Range(PathsOf(run.done)) \subseteq Places
  <2>1. PathsOf(run.done) \in Seq(Places)
    BY <1>1, PathsAre, AttachmentsAre
  <2> QED BY <2>1 DEF Range
<1>4. registered' \in SUBSET Places
  BY <1>1, <1>3 DEF RegisterMounts, Shape
<1>5. run' \in Runs /\ StageInv'
  <2>1. CASE Over(TRUE)
    BY <1>2, <2>1, StillBounded, OverInv
  <2>2. CASE run' = [NoRun EXCEPT !.op = "undo", !.at = "read", !.all = run.all]
    <3>1. run' = Start("undo", "read", "magic", run.all)
      BY <2>2 DEF NoRun, Start
    <3>2. "magic" \in Backends
      BY DEF Backends
    <3> QED BY <1>1, <1>2, <3>1, <3>2, StillBounded, StartInv
  <2> QED BY <2>1, <2>2 DEF RegisterMounts
<1> QED BY <1>1, <1>2, <1>4, <1>5, Calm DEF JournalsInv, Shape, FaultKinds

\* What a pass attaches is counted in with what it attached before.
LEMMA NotedAttached ==
    ASSUME Shape, Unique, Bounded, JournalInv, Attached(mounts, PathsOf(run.done)),
           NEW p \in Places, NEW who \in Backends \cup {"bind"}, NEW reg \in BOOLEAN,
           Attach(p, who), UNCHANGED <<boot, journal>>
    PROVE  /\ mounts' \in SUBSET Mounts /\ Unique' /\ Bounded' /\ JournalInv'
           /\ Did(p, reg) \in Seq(Attachments) /\ Attached(mounts', PathsOf(Did(p, reg)))
<1>1. who \in Owners \ Others /\ who \in Owners
  BY DEF Owners, Others, Backends
<1>2. mounts' \in SUBSET Mounts /\ Unique' /\ Bounded' /\ JournalInv'
  BY <1>1, OneMore
<1>3. /\ Did(p, reg) \in Seq(Attachments) /\ PathsOf(run.done) \in Seq(Places)
      /\ PathsOf(Did(p, reg)) = Append(PathsOf(run.done), p)
  BY Noted
<1>4. Attached(mounts', Append(PathsOf(run.done), p))
  BY <1>1, <1>3, MoreAttached DEF Attach
<1> QED BY <1>2, <1>3, <1>4

\* A pass may roll back what it attached whenever it is all still there.
LEMMA RollsBackDone ==
    ASSUME Shape, NEW ds \in Seq(Attachments), Attached(mounts', PathsOf(ds)), RollBack(ds)
    PROVE  run' \in Runs /\ StageInv'
<1>1. PathsOf(ds) \in Seq(Places)
  BY PathsAre, AttachmentsAre
<1>2. Detachable(mounts', Reverse(PathsOf(ds)))
  BY <1>1, ReverseDetachable
<1> QED BY <1>2, RollsBack

LEMMA AttachMirrorInv ==
    ASSUME JournalsInv, AttachMirror
    PROVE  JournalsInv'
<1> DEFINE n == Len(run.done) + 1
           p == Mirrors[n]
           did == Did(p, FALSE)
<1>1. Shape /\ Unique /\ Bounded /\ JournalInv /\ run \in Runs /\ run.at = "setup"
      /\ run.done \in Seq(Attachments) /\ Attached(mounts, PathsOf(run.done))
      /\ Len(run.done) < Len(Mirrors)
      /\ \A i \in DOMAIN run.done : i \in DOMAIN Mirrors /\ run.done[i].at = Mirrors[i]
  BY DEF JournalsInv, Shape, StageInv, AttachMirror, Runs
<1>2. UNCHANGED <<boot, journal, claimed, registered, leaked, damaged>>
  BY DEF AttachMirror, quiet
<1>3. Mirrors \in Seq(Places) /\ Len(Mirrors) \in Nat /\ DOMAIN Mirrors = 1 .. Len(Mirrors)
      /\ Len(run.done) \in Nat /\ DOMAIN run.done = 1 .. Len(run.done)
  BY <1>1, JournalAssumption
<1>4. n \in 1 .. Len(Mirrors) /\ p \in Places
  BY <1>1, <1>3
<1>5. did = Append(run.done, [at |-> p, reg |-> FALSE])
  BY DEF Did
<1> HIDE DEF p, did
<1>6. CASE Attach(p, "mirror") /\ Smooth
           /\ run' = [run EXCEPT !.done = did, !.at = IF n = Len(Mirrors) THEN "finalize" ELSE @]
  <2>1. mounts' \in SUBSET Mounts /\ Unique' /\ Bounded' /\ JournalInv'
        /\ did \in Seq(Attachments) /\ Attached(mounts', PathsOf(did))
    <3>1. "mirror" \in Backends \cup {"bind"}
      BY DEF Backends
    <3> QED BY <1>1, <1>2, <1>4, <1>6, <3>1, NotedAttached DEF did
  <2>2. PICK d \in Attachments : d = [at |-> p, reg |-> FALSE]
    BY <1>4 DEF Attachments
  <2>3. did = Append(run.done, d) /\ d.at = p
    BY <1>5, <2>2
  <2>4. Len(did) = n /\ (\A i \in 1 .. Len(run.done) : did[i] = run.done[i]) /\ did[n] = d
    BY <1>1, <2>3, AppendProperties
  <2>5. ASSUME NEW i \in DOMAIN did PROVE i \in DOMAIN Mirrors /\ did[i].at = Mirrors[i]
    <3>1. i \in 1 .. n
      BY <2>1, <2>4
    <3>2. CASE i = n
      BY <1>3, <1>4, <2>3, <2>4, <3>2 DEF p
    <3>3. CASE i # n
      <4>1. i \in 1 .. Len(run.done)
        BY <1>3, <3>1, <3>3
      <4> QED BY <1>1, <1>3, <2>4, <4>1
    <3> QED BY <3>2, <3>3
  <2>6. run' \in Runs /\ run'.done = did
        /\ run'.at = (IF n = Len(Mirrors) THEN "finalize" ELSE "setup")
    BY <1>1, <1>6, <2>1 DEF Runs, Points
  <2>7. run'.at = "setup" => Len(run'.done) < Len(Mirrors)
    <3>1. n < Len(Mirrors) \/ n = Len(Mirrors)
      <4>1. PICK l \in Nat, m \in Nat : l = Len(run.done) /\ m = Len(Mirrors) /\ l < m
        BY <1>1, <1>3
      <4>2. l + 1 < m \/ l + 1 = m
        BY <4>1
      <4> QED BY <4>1, <4>2
    <3> HIDE DEF n
    <3> QED BY <2>4, <2>6, <3>1
  <2>8. run'.at = "finalize" => Len(run'.done) = Len(Mirrors)
    BY <2>4, <2>6
  <2>9. StageInv'
    BY <2>1, <2>5, <2>6, <2>7, <2>8 DEF StageInv
  <2>10. Shape'
    BY <1>1, <1>2, <1>6, <2>1, <2>6 DEF Shape, Smooth
  <2> QED BY <2>1, <2>9, <2>10 DEF JournalsInv
<1>7. CASE RollBack(run.done) /\ UNCHANGED mounts /\ (Smooth \/ Faulty("calls"))
  <2>1. run' \in Runs /\ StageInv'
    BY <1>1, <1>7, RollsBackDone
  <2> QED BY <1>2, <1>7, <2>1, Calm DEF JournalsInv, Shape, FaultKinds
<1> QED BY <1>6, <1>7 DEF AttachMirror, did, p

\* The same places, registered or not.
LEMMA SamePlaces ==
    ASSUME NEW ds \in Seq(Attachments), NEW f, NEW es, es = [i \in DOMAIN ds |-> [ds[i] EXCEPT !.reg = f[i]]],
           \A i \in DOMAIN ds : f[i] \in BOOLEAN
    PROVE  /\ es \in Seq(Attachments) /\ DOMAIN es = DOMAIN ds /\ Len(es) = Len(ds)
           /\ PathsOf(es) = PathsOf(ds) /\ \A i \in DOMAIN ds : es[i].at = ds[i].at
<1>1. DOMAIN ds = 1 .. Len(ds) /\ Len(ds) \in Nat
  OBVIOUS
<1>2. \A i \in DOMAIN ds : es[i] \in Attachments /\ es[i].at = ds[i].at
  <2> SUFFICES ASSUME NEW i \in DOMAIN ds PROVE es[i] \in Attachments /\ es[i].at = ds[i].at
    OBVIOUS
  <2>1. ds[i] \in Attachments /\ f[i] \in BOOLEAN /\ es[i] = [ds[i] EXCEPT !.reg = f[i]]
    OBVIOUS
  <2> QED BY <2>1 DEF Attachments
<1>3. es \in [1 .. Len(ds) -> Attachments]
  BY <1>1, <1>2
<1>4. es \in Seq(Attachments) /\ Len(es) = Len(ds) /\ DOMAIN es = DOMAIN ds
  BY <1>1, <1>3, IsASeq
<1>5. PathsOf(es) = PathsOf(ds)
  BY <1>2, <1>4 DEF PathsOf
<1> QED BY <1>2, <1>4, <1>5

LEMMA FinalizeMirrorInv ==
    ASSUME JournalsInv, FinalizeMirror
    PROVE  JournalsInv'
<1>1. Shape /\ Unique /\ Bounded /\ JournalInv /\ run \in Runs
      /\ run.done \in Seq(Attachments) /\ Attached(mounts, PathsOf(run.done))
      /\ Len(run.done) = Len(Mirrors)
      /\ \A i \in DOMAIN run.done : i \in DOMAIN Mirrors /\ run.done[i].at = Mirrors[i]
  BY DEF JournalsInv, Shape, StageInv, FinalizeMirror, Runs
<1>2. UNCHANGED <<boot, mounts, journal, claimed, leaked, damaged>>
  BY DEF FinalizeMirror, quiet
<1>3. Mirrors \in Seq(Places) /\ \A i \in DOMAIN Mirrors : Mirrors[i] \in Places
  BY JournalAssumption
<1>4. registered' \in SUBSET Places
  <2>1. Range(Mirrors) \subseteq Places
    BY <1>3 DEF Range
  <2>2. \/ registered' = registered \cup Range(Mirrors)
        \/ \E k \in DOMAIN Mirrors :
              registered' = registered \cup {Mirrors[i] : i \in {j \in DOMAIN Mirrors : j > k}}
    BY DEF FinalizeMirror
  <2>3. registered \in SUBSET Places
    BY <1>1 DEF Shape
  <2> QED BY <1>3, <2>1, <2>2, <2>3
<1>5. CASE Smooth /\ run' = [run EXCEPT !.at = "record",
                                        !.done = [i \in DOMAIN @ |-> [@[i] EXCEPT !.reg = TRUE]]]
  <2> DEFINE ds == run.done
             f == [i \in DOMAIN ds |-> TRUE]
             es == [i \in DOMAIN ds |-> [ds[i] EXCEPT !.reg = f[i]]]
  <2>1. es \in Seq(Attachments) /\ DOMAIN es = DOMAIN ds /\ Len(es) = Len(ds)
        /\ PathsOf(es) = PathsOf(ds) /\ \A i \in DOMAIN ds : es[i].at = ds[i].at
    <3>1. \A i \in DOMAIN ds : f[i] \in BOOLEAN
      OBVIOUS
    <3>2. es = [i \in DOMAIN ds |-> [ds[i] EXCEPT !.reg = f[i]]]
      OBVIOUS
    <3>3. ds \in Seq(Attachments)
      BY <1>1
    <3> HIDE DEF f, es, ds
    <3>4. es \in Seq(Attachments) /\ Len(es) = Len(ds) /\ PathsOf(es) = PathsOf(ds)
      BY <3>1, <3>2, <3>3, SamePlaces
    <3>5. DOMAIN es = DOMAIN ds
      BY <3>1, <3>2, <3>3, SamePlaces
    <3>6. ASSUME NEW i \in DOMAIN ds PROVE es[i].at = ds[i].at
      <4>1. es[i] = [ds[i] EXCEPT !.reg = f[i]] /\ ds[i] \in Attachments
        BY <3>2, <3>3
      <4> QED BY <4>1 DEF Attachments
    <3> QED BY <3>4, <3>5, <3>6
  <2>2. es = [i \in DOMAIN run.done |-> [run.done[i] EXCEPT !.reg = TRUE]]
    OBVIOUS
  <2> HIDE DEF es
  <2>3. run' \in Runs /\ run'.at = "record" /\ run'.done = es
    BY <1>1, <1>5, <2>1, <2>2 DEF Runs, Points
  <2>4. StageInv'
    BY <1>1, <1>2, <2>1, <2>3 DEF StageInv
  <2> QED BY <1>2, <1>4, <1>5, <2>3, <2>4, Calm DEF JournalsInv, Shape
<1>6. ASSUME NEW k \in DOMAIN Mirrors, Faulty("calls"),
             RollBack([i \in DOMAIN run.done |-> [run.done[i] EXCEPT !.reg = i > k]])
      PROVE  JournalsInv'
  <2> DEFINE ds == run.done
             f == [i \in DOMAIN ds |-> i > k]
             es == [i \in DOMAIN ds |-> [ds[i] EXCEPT !.reg = f[i]]]
  <2>1. es \in Seq(Attachments) /\ PathsOf(es) = PathsOf(ds)
    <3>1. ASSUME NEW i \in DOMAIN ds PROVE f[i] \in BOOLEAN
      <4>1. f[i] = (i > k)
        OBVIOUS
      <4>2. (i > k) \in BOOLEAN
        OBVIOUS
      <4> HIDE DEF f
      <4> QED BY <4>1, <4>2
    <3>2. es = [i \in DOMAIN ds |-> [ds[i] EXCEPT !.reg = f[i]]]
      OBVIOUS
    <3>3. ds \in Seq(Attachments)
      BY <1>1
    <3> HIDE DEF f, es, ds
    <3> QED BY <3>1, <3>2, <3>3, SamePlaces
  <2>2. es = [i \in DOMAIN run.done |-> [run.done[i] EXCEPT !.reg = i > k]]
    OBVIOUS
  <2> HIDE DEF es
  <2>3. RollBack(es)
    BY <1>6, <2>2
  <2>4. run' \in Runs /\ StageInv'
    BY <1>1, <1>2, <2>1, <2>3, RollsBackDone
  <2> QED BY <1>2, <1>4, <1>6, <2>4, Calm DEF JournalsInv, Shape, FaultKinds
<1> QED BY <1>5, <1>6 DEF FinalizeMirror

LEMMA RecordMirrorInv ==
    ASSUME JournalsInv, RecordMirror
    PROVE  JournalsInv'
<1>1. Shape /\ Unique /\ Bounded /\ JournalInv /\ run \in Runs
      /\ run.done \in Seq(Attachments) /\ Attached(mounts, PathsOf(run.done))
      /\ Len(run.done) = Len(Mirrors)
      /\ \A i \in DOMAIN run.done : i \in DOMAIN Mirrors /\ run.done[i].at = Mirrors[i]
  BY DEF JournalsInv, Shape, StageInv, RecordMirror, Runs
<1>2. UNCHANGED <<boot, mounts, claimed, registered, leaked, damaged>>
  BY DEF RecordMirror, quiet
<1>3. Mirrors \in Seq(Places)
  BY JournalAssumption
<1>4. CASE write_mount_journal("mirror", Mirrors) /\ Goes("sync") /\ Smooth
  <2>1. "mirror" \in Backends
    BY DEF Backends
  <2>2. \A i \in DOMAIN Mirrors : \E j \in DOMAIN PathsOf(run.done) : Mirrors[i] = PathsOf(run.done)[j]
    <3>1. DOMAIN Mirrors = DOMAIN run.done
      BY <1>1, <1>3
    <3> QED BY <1>1, <3>1 DEF PathsOf
  <2>3. /\ journal' \in [Backends -> [boot : 0 .. MaxBoots, recs : Seq(Records)]]
        /\ Bounded' /\ JournalInv'
    BY <1>1, <1>2, <1>3, <1>4, <2>1, <2>2, JournalWritten
  <2>4. run' \in Runs /\ run'.at = "sync"
    BY <1>1, <1>4 DEF Goes, Runs, Points
  <2>5. StageInv'
    BY <2>4, Elsewhere
  <2>6. Shape'
    BY <1>1, <1>2, <1>4, <2>3, <2>4 DEF Shape, Smooth
  <2>7. Unique'
    BY <1>1, <1>2 DEF Unique
  <2> QED BY <2>3, <2>5, <2>6, <2>7 DEF JournalsInv
<1>5. CASE Faulty("calls") /\ RollBack(run.done) /\ UNCHANGED journal
  <2>1. run' \in Runs /\ StageInv'
    BY <1>1, <1>2, <1>5, RollsBackDone
  <2> QED BY <1>2, <1>5, <2>1, Calm DEF JournalsInv, Shape, FaultKinds
<1> QED BY <1>4, <1>5 DEF RecordMirror

LEMMA SyncInv ==
    ASSUME JournalsInv, SyncContent
    PROVE  JournalsInv'
<1>1. UNCHANGED <<boot, mounts, journal, claimed, registered, leaked, damaged>>
      /\ (Smooth \/ Faulty("calls"))
  BY DEF SyncContent, quiet
<1>2. CASE run' = [run EXCEPT !.at = "leaf", !.of = "overlay", !.plan = OverlayPlan, !.done = <<>>]
  <2>1. PICK none : none = <<>> /\ none \in Seq(Attachments)
    BY EmptyPaths
  <2>2. run \in Runs /\ OverlayPlan \in Seq(Places)
    BY JournalAssumption DEF JournalsInv, Shape
  <2>3. run' = [run EXCEPT !.at = "leaf", !.of = "overlay", !.plan = OverlayPlan, !.done = none]
    BY <1>2, <2>1
  <2>4. run' \in Runs /\ run'.at = "leaf" /\ run'.done = <<>>
    BY <2>1, <2>2, <2>3 DEF Runs, Points, Backends
  <2>5. StageInv'
    BY <1>1, <2>4, StillBounded, Begins
  <2> QED BY <1>1, <2>4, <2>5, Calm DEF JournalsInv, Shape, FaultKinds
<1>3. CASE Over(FALSE)
  <2>1. run' \in Runs /\ StageInv'
    BY <1>1, <1>3, StillBounded, OverInv
  <2> QED BY <1>1, <2>1, Calm DEF JournalsInv, Shape, FaultKinds
<1> QED BY <1>2, <1>3 DEF SyncContent

\* An overlay attached goes on with the leaf, or has everything rolled back.
LEMMA OverlayInv ==
    ASSUME JournalsInv, run.at \in {"leaf", "child"}, NEW p \in Places, NEW next,
           next \in Runs, next.at = "child", next.plan # <<>>, AttachOverlay(p, next),
           UNCHANGED <<boot, journal, claimed, leaked, damaged>>
    PROVE  JournalsInv'
<1>1. Shape /\ Unique /\ Bounded /\ JournalInv /\ run \in Runs
      /\ Attached(mounts, PathsOf(run.done))
  BY DEF JournalsInv, Shape, StageInv
<1>2. Attach(p, "overlay") /\ "overlay" \in Backends \cup {"bind"}
  BY DEF AttachOverlay, Backends
<1>3. ASSUME NEW reg \in BOOLEAN
      PROVE  /\ mounts' \in SUBSET Mounts /\ Unique' /\ Bounded' /\ JournalInv'
             /\ Did(p, reg) \in Seq(Attachments) /\ Attached(mounts', PathsOf(Did(p, reg)))
  BY <1>1, <1>2, NotedAttached
<1>4. registered' \in SUBSET Places
  BY <1>1 DEF AttachOverlay, Shape
<1>5. run' \in Runs /\ StageInv'
  <2>1. CASE run' = [next EXCEPT !.done = Did(p, TRUE)]
    <3> DEFINE did == Did(p, TRUE)
    <3>1. did \in Seq(Attachments) /\ Attached(mounts', PathsOf(did))
      BY <1>3
    <3> HIDE DEF did
    <3>2. run' \in Runs /\ run'.at = "child" /\ run'.done = did /\ run'.plan # <<>>
      BY <2>1, <3>1 DEF Runs, did
    <3> QED BY <3>1, <3>2 DEF StageInv
  <2>2. CASE RollBack(Did(p, FALSE))
    BY <1>1, <1>3, <2>2, RollsBackDone
  <2> QED BY <2>1, <2>2 DEF AttachOverlay
<1>6. faults' \in 0 .. MaxFaults
  BY <1>1, FaultsCounted DEF AttachOverlay, FaultKinds
<1>7. mounts' \in SUBSET Mounts /\ Unique' /\ Bounded' /\ JournalInv'
  BY <1>3
<1>8. Shape'
  BY <1>1, <1>4, <1>5, <1>6, <1>7 DEF Shape
<1> QED BY <1>5, <1>7, <1>8 DEF JournalsInv

\* At any leaf a pass may fail, with what it attached so far.
LEMMA LeafFails ==
    ASSUME JournalsInv, run.at \in {"leaf", "child"}, Faulty("calls"), RollBack(run.done),
           UNCHANGED <<boot, mounts, journal, claimed, registered, leaked, damaged>>
    PROVE  JournalsInv'
<1>1. Shape /\ run.done \in Seq(Attachments) /\ Attached(mounts, PathsOf(run.done))
  BY DEF JournalsInv, Shape, StageInv, Runs
<1>2. run' \in Runs /\ StageInv'
  BY <1>1, RollsBackDone
<1> QED BY <1>1, <1>2, Calm DEF Shape, FaultKinds

LEMMA LeafInv ==
    ASSUME JournalsInv, MountLeaf
    PROVE  JournalsInv'
<1>1. run \in Runs /\ run.at = "leaf" /\ run.plan # <<>> /\ run.plan \in Seq(Places)
  BY DEF JournalsInv, Shape, MountLeaf, Runs
<1>2. UNCHANGED <<boot, journal, claimed, leaked, damaged>>
  BY DEF MountLeaf, quiet
<1> DEFINE p == Head(run.plan)
<1>3. p \in Places
  BY <1>1, TailOf
<1> HIDE DEF p
<1>4. ASSUME NEW kids \in {child_mounts(p), {}},
             AttachOverlay(p, [run EXCEPT !.at = "child", !.kids = kids])
      PROVE  JournalsInv'
  <2>1. PICK next : next = [run EXCEPT !.at = "child", !.kids = kids]
    OBVIOUS
  <2>2. kids \subseteq Places
    BY <1>4 DEF child_mounts
  <2>3. next \in Runs /\ next.at = "child" /\ next.plan # <<>>
    BY <1>1, <2>1, <2>2 DEF Runs, Points
  <2>4. AttachOverlay(p, next)
    BY <1>4, <2>1
  <2> QED BY <1>1, <1>2, <1>3, <2>3, <2>4, OverlayInv
<1>5. CASE Faulty("calls") /\ RollBack(run.done) /\ UNCHANGED <<mounts, registered>>
  BY <1>1, <1>2, <1>5, LeafFails
<1> QED BY <1>4, <1>5 DEF MountLeaf, p

LEMMA ChildInv ==
    ASSUME JournalsInv, MountChild
    PROVE  JournalsInv'
<1>1. Shape /\ Unique /\ Bounded /\ JournalInv /\ run \in Runs /\ run.at = "child"
      /\ run.kids \subseteq Places /\ Attached(mounts, PathsOf(run.done))
      /\ run.plan # <<>>
  BY DEF JournalsInv, Shape, StageInv, MountChild, Runs
<1>2. UNCHANGED <<boot, journal, claimed, leaked, damaged>>
  BY DEF MountChild, quiet
<1>3. PICK q \in run.kids :
        LET next == [run EXCEPT !.kids = @ \ {q}]
        IN  \/ run' = next /\ Smooth /\ UNCHANGED <<mounts, registered>>
            \/ /\ Attach(q, "bind") /\ run' = [next EXCEPT !.done = Did(q, FALSE)]
               /\ Smooth /\ UNCHANGED registered
            \/ AttachOverlay(q, next)
            \/ Faulty("calls") /\ RollBack(run.done) /\ UNCHANGED <<mounts, registered>>
  BY DEF MountChild
<1>4. PICK next : next = [run EXCEPT !.kids = @ \ {q}]
  OBVIOUS
<1>5. next \in Runs /\ next.at = "child" /\ next.done = run.done /\ next.plan # <<>> /\ q \in Places
  BY <1>1, <1>4 DEF Runs
<1>6. CASE run' = next /\ Smooth /\ UNCHANGED <<mounts, registered>>
  <2>1. StageInv'
    BY <1>1, <1>5, <1>6 DEF StageInv
  <2> QED BY <1>1, <1>2, <1>5, <1>6, <2>1, Calm DEF Shape
<1>7. CASE Attach(q, "bind") /\ run' = [next EXCEPT !.done = Did(q, FALSE)]
           /\ Smooth /\ UNCHANGED registered
  <2> DEFINE did == Did(q, FALSE)
  <2>1. mounts' \in SUBSET Mounts /\ Unique' /\ Bounded' /\ JournalInv'
        /\ did \in Seq(Attachments) /\ Attached(mounts', PathsOf(did))
    BY <1>1, <1>2, <1>5, <1>7, NotedAttached
  <2> HIDE DEF did
  <2>2. run' \in Runs /\ run'.at = "child" /\ run'.done = did /\ run'.plan # <<>>
    BY <1>5, <1>7, <2>1 DEF Runs, did
  <2>3. StageInv'
    BY <2>1, <2>2 DEF StageInv
  <2>4. Shape'
    BY <1>1, <1>2, <1>7, <2>1, <2>2 DEF Shape, Smooth
  <2> QED BY <2>1, <2>3, <2>4 DEF JournalsInv
<1>8. CASE AttachOverlay(q, next)
  BY <1>1, <1>2, <1>5, <1>8, OverlayInv
<1>9. CASE Faulty("calls") /\ RollBack(run.done) /\ UNCHANGED <<mounts, registered>>
  BY <1>1, <1>2, <1>9, LeafFails
<1> QED BY <1>3, <1>4, <1>6, <1>7, <1>8, <1>9

LEMMA LeafDoneInv ==
    ASSUME JournalsInv, LeafDone
    PROVE  JournalsInv'
<1>1. Shape /\ run \in Runs /\ run.at = "child" /\ Attached(mounts, PathsOf(run.done))
      /\ run.plan \in Seq(Places) /\ run.plan # <<>>
  BY DEF JournalsInv, Shape, StageInv, LeafDone, Runs
<1>2. UNCHANGED <<boot, mounts, journal, claimed, registered, leaked, damaged>>
  BY DEF LeafDone, quiet
<1>3. CASE run' = [Onward EXCEPT !.at = "leaf"] /\ Smooth
  <2> DEFINE rest == Tail(run.plan)
  <2>1. rest \in Seq(Places)
    BY <1>1, TailOf
  <2>2. run' = [run EXCEPT !.plan = rest, !.at = "leaf"]
    BY <1>1, <1>3 DEF Onward, Runs
  <2> HIDE DEF rest
  <2>3. run' \in Runs /\ run'.at = "leaf" /\ run'.done = run.done
    BY <1>1, <2>1, <2>2 DEF Runs, Points
  <2>4. StageInv'
    BY <1>1, <1>2, <2>3 DEF StageInv
  <2> QED BY <1>1, <1>2, <1>3, <2>3, <2>4, Calm DEF Shape
<1>4. CASE Faulty("calls") /\ RollBack(run.done)
  BY <1>1, <1>2, <1>4, LeafFails
<1> QED BY <1>3, <1>4 DEF LeafDone

LEMMA SaveOverlaysInv ==
    ASSUME JournalsInv, SaveOverlays
    PROVE  JournalsInv'
<1> DEFINE ps == PathsOf(run.done)
           qs == PathsOf(Registered(run.done))
<1>1. Shape /\ Unique /\ Bounded /\ JournalInv /\ run \in Runs /\ run.at = "leaf"
      /\ run.done \in Seq(Attachments) /\ Attached(mounts, ps)
  BY DEF JournalsInv, Shape, StageInv, SaveOverlays, Runs
<1>2. UNCHANGED <<boot, mounts, claimed, registered, leaked, damaged>>
  BY DEF SaveOverlays, quiet
<1>3. CASE write_mount_journal("overlay", qs) /\ Over(TRUE) /\ Smooth
  <2>1. "overlay" \in Backends
    BY DEF Backends
  <2>2. /\ Registered(run.done) \in Seq(Attachments)
        /\ \A i \in DOMAIN Registered(run.done) : \E j \in DOMAIN run.done : Registered(run.done)[i] = run.done[j]
    BY <1>1, SomeRegistered
  <2>3. qs \in Seq(Places) /\ DOMAIN qs = DOMAIN Registered(run.done) /\ DOMAIN ps = DOMAIN run.done
    BY <1>1, <2>2, PathsAre, AttachmentsAre
  <2>4. \A i \in DOMAIN qs : \E j \in DOMAIN ps : qs[i] = ps[j]
    <3>1. \A i \in DOMAIN qs : qs[i] = Registered(run.done)[i].at
      BY <2>3 DEF PathsOf
    <3>2. \A j \in DOMAIN ps : ps[j] = run.done[j].at
      BY <2>3 DEF PathsOf
    <3> HIDE DEF ps, qs
    <3> QED BY <2>2, <2>3, <3>1, <3>2
  <2> HIDE DEF ps, qs
  <2>5. /\ journal' \in [Backends -> [boot : 0 .. MaxBoots, recs : Seq(Records)]]
        /\ Bounded' /\ JournalInv'
    BY <1>1, <1>2, <1>3, <2>1, <2>3, <2>4, JournalWritten
  <2>6. mounts' \in SUBSET Mounts /\ Unique'
    BY <1>1, <1>2 DEF Shape, Unique
  <2>7. run' \in Runs /\ StageInv'
    BY <1>3, <2>5, <2>6, OverInv
  <2>8. Shape'
    BY <1>1, <1>2, <1>3, <2>5, <2>6, <2>7 DEF Shape, Smooth
  <2> QED BY <2>5, <2>6, <2>7, <2>8 DEF JournalsInv
<1>4. CASE Faulty("calls") /\ RollBack(run.done) /\ UNCHANGED journal
  BY <1>1, <1>2, <1>4, LeafFails
<1> QED BY <1>3, <1>4 DEF SaveOverlays

LEMMA RollBackInv ==
    ASSUME JournalsInv, RollBackOne
    PROVE  JournalsInv'
<1> DEFINE ps == PathsOf(run.left)
           left == Tail(run.left)
           d == Head(run.left)
<1>1. Shape /\ Unique /\ Bounded /\ JournalInv /\ run \in Runs /\ run.at = "roll-back"
      /\ run.left \in Seq(Records \cup Attachments) /\ run.left # <<>> /\ Detachable(mounts, ps)
  BY DEF JournalsInv, Shape, StageInv, RollBackOne, Runs
<1>2. UNCHANGED <<boot, claimed, journal>>
  BY DEF RollBackOne, quiet
<1>3. UNCHANGED mounts \/ Detach(d.at)
  BY DEF RollBackOne
<1>4. /\ ps \in Seq(Places) /\ ps # <<>> /\ Head(ps) = d.at /\ PathsOf(left) = Tail(ps)
      /\ left \in Seq(Records \cup Attachments) /\ d \in Records \cup Attachments
  BY <1>1, PathsAre, PathsTail, TailOf
<1>5. run' = [run EXCEPT !.left = left]
  BY <1>1 DEF RollBackOne, Rest, Runs
<1>6. registered' \in SUBSET Places /\ leaked' \in SUBSET Places /\ damaged' \in BOOLEAN
  <2>1. d.at \in Places
    BY <1>4 DEF Records, Attachments
  <2> QED BY <1>1, <2>1 DEF RollBackOne, Shape
<1>7. faults' \in 0 .. MaxFaults
  BY <1>1, FaultsCounted DEF RollBackOne, FaultKinds
<1> HIDE DEF ps, left, d
<1>8. run' \in Runs /\ run'.at = "roll-back" /\ run'.left = left
  BY <1>1, <1>4, <1>5 DEF Runs
<1>9. mounts' \subseteq mounts
  BY <1>3, OneDetached
<1>10. mounts' \in SUBSET Mounts /\ Unique' /\ Bounded' /\ JournalInv'
  BY <1>1, <1>2, <1>9, NoMore
<1>11. Detachable(mounts', Tail(ps))
  BY <1>1, <1>3, <1>4, RestDetachable
<1>12. StageInv'
  BY <1>4, <1>8, <1>11 DEF StageInv
<1>13. Shape'
  BY <1>1, <1>2, <1>6, <1>7, <1>8, <1>10 DEF Shape
<1> QED BY <1>10, <1>12, <1>13 DEF JournalsInv

LEMMA RolledBackInv ==
    ASSUME JournalsInv, RolledBack
    PROVE  JournalsInv'
<1>1. UNCHANGED <<boot, mounts, journal, claimed, registered, leaked, damaged>> /\ Smooth /\ Over(FALSE)
  BY DEF RolledBack, quiet
<1>2. run' \in Runs /\ StageInv'
  BY <1>1, StillBounded, OverInv
<1> QED BY <1>1, <1>2, Calm DEF JournalsInv, Shape

LEMMA KillInv ==
    ASSUME JournalsInv, Kill
    PROVE  JournalsInv'
<1>1. UNCHANGED <<boot, mounts, journal, claimed, registered, leaked>> /\ Faulty("deaths")
      /\ damaged' \in BOOLEAN
  BY DEF JournalsInv, Shape, Kill, quiet, Exposed
<1>2. run' = Start(run.op, "idle", "magic", FALSE) /\ run.op \in {"none", "mount", "undo", "unmount"}
  BY DEF JournalsInv, Shape, Runs, Kill, NoRun, Start
<1>3. run' \in Runs /\ StageInv'
  BY <1>1, <1>2, StillBounded, StartInv DEF Backends
<1> QED BY <1>1, <1>3, Calm DEF JournalsInv, Shape, FaultKinds

LEMMA RebootInv ==
    ASSUME JournalsInv, Reboot
    PROVE  JournalsInv'
<1>1. Shape /\ JournalInv
  BY DEF JournalsInv
<1>2. boot' = boot + 1 /\ boot' \in 1 .. MaxBoots /\ boot \in Nat
  BY <1>1, JournalAssumption DEF Shape, Reboot
<1>3. \A i \in DOMAIN Stock : Stock[i] \in Places /\ i \in 1 .. Len(Stock)
  BY JournalAssumption
<1>4. Len(Stock) \in Nat
  BY JournalAssumption
<1>5. mounts' = {[at |-> Stock[i], id |-> i, by |-> "stock"] : i \in DOMAIN Stock}
  BY DEF Reboot, StockMounts
<1>6. mounts' \in SUBSET Mounts /\ Unique' /\ \A m \in mounts' : m.id <= Len(Stock)
  BY <1>3, <1>4, <1>5 DEF Mounts, Owners, Unique
<1>7. \A b \in Backends : journal'[b].boot # boot' /\ journal'[b].boot <= boot'
  <2>1. \A b \in Backends : journal[b].boot \in Nat /\ journal[b].boot <= boot
    BY <1>1 DEF Shape, JournalInv
  <2> QED BY <1>2, <2>1 DEF Reboot
<1>8. \A b \in Backends : Range((read_mount_journal(b))') = {}
  BY <1>7 DEF read_mount_journal, Range
<1>9. run' = Start("none", "idle", "magic", TRUE)
  BY DEF Reboot, NoRun, Start
<1>10. Bounded'
  BY <1>4, <1>6, <1>8 DEF Bounded
<1>11. JournalInv'
  BY <1>7, <1>8 DEF JournalInv
<1>12. run' \in Runs /\ StageInv'
  <2>1. "none" \in {"none", "mount", "undo", "unmount"} /\ "magic" \in Backends
    BY DEF Backends
  <2> QED BY <1>6, <1>9, <1>10, <2>1, StartInv
<1>13. Shape'
  <2>1. /\ registered' \in SUBSET Places /\ leaked' \in SUBSET Places
        /\ claimed' \in BOOLEAN /\ damaged' \in BOOLEAN /\ journal' = journal
    BY DEF Reboot
  <2>2. faults' \in 0 .. MaxFaults
    BY JournalAssumption DEF Reboot
  <2> QED BY <1>1, <1>2, <1>6, <1>12, <2>1, <2>2 DEF Shape
<1> QED BY <1>6, <1>10, <1>11, <1>12, <1>13 DEF JournalsInv

LEMMA InterfereInv ==
    ASSUME JournalsInv, Interfere
    PROVE  JournalsInv'
<1>1. Shape /\ Unique /\ Bounded /\ JournalInv
  BY DEF JournalsInv
<1>2. UNCHANGED <<boot, claimed, registered, journal, run, leaked>> /\ run.at = "idle"
      /\ Faulty("others") /\ damaged' = TRUE
  BY DEF Interfere, Idle, quiet
<1>3. mounts' \in SUBSET Mounts /\ Unique' /\ Bounded' /\ JournalInv'
  <2>1. PICK p \in Places : Attach(p, "other") \/ Detach(p)
    BY DEF Interfere
  <2>2. CASE Attach(p, "other")
    BY <1>1, <1>2, <2>2, OneMore DEF Owners
  <2>3. CASE Detach(p)
    <3>1. mounts' \subseteq mounts
      BY <2>3, OneDetached
    <3> QED BY <1>1, <1>2, <3>1, NoMore
  <2> QED BY <2>1, <2>2, <2>3
<1>4. StageInv'
  BY <1>2, Elsewhere
<1>5. faults' \in 0 .. MaxFaults
  BY <1>1, <1>2, FaultsCounted DEF FaultKinds
<1>6. Shape'
  BY <1>1, <1>2, <1>3, <1>5 DEF Shape
<1> QED BY <1>3, <1>4, <1>6 DEF JournalsInv

-------------------------------------------------------------------------------
\* What is proved.

LEMMA StepInv ==
    ASSUME JournalsInv, [Next]_vars
    PROVE  JournalsInv'
<1>1. CASE BeginUnmount \/ BeginMount
  BY <1>1, BeginInv
<1>2. CASE ReadJournal \/ TearDownRecord \/ RemoveJournal
  BY <1>2, ReadInv, TearDownInv, RemoveJournalInv
<1>3. CASE GatherFiles \/ MountWork \/ SaveWork \/ WalkOn \/ SaveMounts \/ RegisterMounts
  BY <1>3, GatherInv, MountWorkInv, SaveWorkInv, WalkInv, SaveMountsInv, RegisterInv
<1>4. CASE AttachMirror \/ FinalizeMirror \/ RecordMirror \/ SyncContent
  BY <1>4, AttachMirrorInv, FinalizeMirrorInv, RecordMirrorInv, SyncInv
<1>5. CASE MountLeaf \/ MountChild \/ LeafDone \/ SaveOverlays
  BY <1>5, LeafInv, ChildInv, LeafDoneInv, SaveOverlaysInv
<1>6. CASE RollBackOne \/ RolledBack \/ Kill \/ Reboot \/ Interfere
  BY <1>6, RollBackInv, RolledBackInv, KillInv, RebootInv, InterfereInv
<1>7. CASE UNCHANGED vars
  BY <1>7, ZenonT(40) DEF vars, JournalsInv, Shape, Unique, Bounded, JournalInv, StageInv, read_mount_journal
<1> QED BY <1>1, <1>2, <1>3, <1>4, <1>5, <1>6, <1>7 DEF Next, Kagami

\* The invariant of every step, whatever fails or is killed.
THEOREM Invariance == Spec => []JournalsInv
<1>1. Init => JournalsInv
  BY InitInv
<1>2. JournalsInv /\ [Next]_vars => JournalsInv'
  BY StepInv
<1> QED BY <1>1, <1>2, PTL DEF Spec

\* Whatever fails, is killed or interferes, identities of mounts are unique and
\* every journal, read in any boot, names places with identities.
THEOREM TypeCorrect == Spec => []TypeOK
<1>1. JournalsInv => TypeOK
  BY DEF JournalsInv, Shape, Unique, Runs, TypeOK
<1> QED BY <1>1, Invariance, PTL

\* Detaching a path that leads only to Kagami's takes nobody else's but what is upon it.
LEMMA DetachesOurs ==
    ASSUME NEW p, Detach(p), \A m \in Seen(p) : m \in Ours
    PROVE  \A x \in (mounts \ mounts') \ Ours : \E m \in Ours \ mounts' : x \in Upon(m)
BY OneDetached

LEMMA OnlyAttaches ==
    ASSUME Kagami, ~TearDownRecord, ~RollBackOne
    PROVE  mounts \subseteq mounts'
<1>1. CASE BeginUnmount \/ ReadJournal \/ RemoveJournal \/ BeginMount \/ GatherFiles
           \/ SaveWork \/ SaveMounts \/ RegisterMounts
  BY <1>1 DEF BeginUnmount, ReadJournal, RemoveJournal, BeginMount, GatherFiles, SaveWork,
     SaveMounts, RegisterMounts
<1>2. CASE FinalizeMirror \/ RecordMirror \/ SyncContent \/ LeafDone \/ SaveOverlays \/ RolledBack \/ Kill
  BY <1>2 DEF FinalizeMirror, RecordMirror, SyncContent, LeafDone, SaveOverlays, RolledBack, Kill
<1>3. CASE MountWork \/ WalkOn \/ AttachMirror
  BY <1>3 DEF MountWork, WalkOn, AttachMirror, Attach
<1>4. CASE MountLeaf \/ MountChild
  BY <1>4 DEF MountLeaf, MountChild, AttachOverlay, Attach
<1> QED BY <1>1, <1>2, <1>3, <1>4 DEF Kagami

\* In no pass, teardown or roll-back does Kagami detach what somebody else attached,
\* except what stands upon a mount of its own that it detaches.
THEOREM OnlyOursAreDetached == Spec => OnlyOursDetached
<1> DEFINE Fair == Kagami => \A x \in (mounts \ mounts') \ Ours :
                                 \E m \in Ours \ mounts' : x \in Upon(m)
<1>1. JournalsInv /\ [Next]_vars => [Fair]_vars
  <2> SUFFICES ASSUME JournalsInv, Kagami
               PROVE  \A x \in (mounts \ mounts') \ Ours : \E m \in Ours \ mounts' : x \in Upon(m)
    OBVIOUS
  <2>1. Shape /\ Unique /\ JournalInv /\ run \in Runs
    BY DEF JournalsInv, Shape
  <2>2. CASE TearDownRecord
    <3> DEFINE rec == Head(run.left)
    <3>1. UNCHANGED mounts \/ (mount_matches(rec) /\ Detach(rec.at))
      BY <2>2 DEF TearDownRecord, SkipRecord, DetachRecord
    <3>2. /\ run.at = "detach" /\ run.left # <<>> /\ run.left \in Seq(Records \cup Attachments)
          /\ Range(run.left) \subseteq Range(read_mount_journal(run.of)) /\ run.of \in Backends
      BY <2>1, <2>2 DEF TearDownRecord, JournalsInv, StageInv, Runs
    <3>3. rec \in Range(read_mount_journal(run.of))
      BY <3>2, TailOf
    <3> HIDE DEF rec
    <3>4. mount_matches(rec) => \A m \in Seen(rec.at) : m \in Ours
      BY <2>1, <3>2, <3>3, MatchLeads
    <3> QED BY <3>1, <3>4, DetachesOurs
  <2>3. CASE RollBackOne
    <3> DEFINE d == Head(run.left)
    <3>1. UNCHANGED mounts \/ Detach(d.at)
      BY <2>3 DEF RollBackOne
    <3>2. run.left # <<>> /\ run.left \in Seq(Records \cup Attachments)
          /\ Detachable(mounts, PathsOf(run.left))
      BY <2>1, <2>3 DEF RollBackOne, JournalsInv, StageInv, Runs
    <3>3. /\ PathsOf(run.left) \in Seq(Places) /\ PathsOf(run.left) # <<>>
          /\ Head(PathsOf(run.left)) = d.at
      BY <3>2, PathsAre, PathsTail
    <3> HIDE DEF d
    <3>4. \A m \in Seen(d.at) : m \in Ours
      BY <2>1, <3>2, <3>3, DetachableLeads
    <3> QED BY <3>1, <3>4, DetachesOurs
  <2>4. CASE ~TearDownRecord /\ ~RollBackOne
    BY <2>4, OnlyAttaches
  <2> QED BY <2>2, <2>3, <2>4
<1> QED BY <1>1, Invariance, PTL DEF Spec, OnlyOursDetached

-------------------------------------------------------------------------------
\* What is attached can be found again, as long as nothing was done that leaves the code
\* without a way to find it (damaged).

Layers == {"overlay", "bind"}
Rec(m) == [at |-> m.at, id |-> m.id]
Of(b) == Range(read_mount_journal(b))
PlacesIn(ds) == {ds[i].at : i \in DOMAIN ds}
RegisteredIn(ds) == {ds[i].at : i \in {j \in DOMAIN ds : ds[j].reg}}
InOrder(ds) == \A i, j \in DOMAIN ds : i < j => Apart(ds[j].at, ds[i].at)
InTurn(ds) == \A i, j \in DOMAIN ds : i < j => Apart(ds[i].at, ds[j].at)
Listed == registered \ leaked
There(rec) == \E m \in mounts : Rec(m) = rec

\* What each backend attaches lies where its plan says; only overlays and what is put
\* back upon them hide what Kagami attached, and nothing is attached after them.
Hides(x, m) == x.id > m.id /\ x.at \in {m.at} \cup Above[m.at]
LayInv ==
    /\ \A m \in mounts : m.by = "magic" => m.at \in {Work} \cup Range(MagicPlan)
    /\ \A m \in mounts : m.by = "mirror" => m.at \in Range(Mirrors)
    /\ \A m \in Ours, x \in mounts : Hides(x, m) => x.by \in Layers /\ m.by \notin Layers
    /\ \A m, x \in mounts : x.id > m.id /\ m.by \in Layers => x.by \in Layers
    /\ \A m \in mounts : m.by = "bind" => \E n \in mounts : n.by = "overlay" /\ m \in Upon(n)

\* A journal's records name its backend's mounts, those of the mirror and of overlays in
\* an order in which the last one can be detached first.
RefInv ==
    /\ \A b \in Backends : \A rec \in Of(b) : \A m \in mounts :
          m.id = rec.id => m.by = b /\ m.at = rec.at
    /\ \A b \in {"mirror", "overlay"} : InOrder(read_mount_journal(b))

\* OverlayFS and the mirror forget a record whose mount is gone, which is right only if
\* its path is off KernelSU's list.
GoneInv == \A b \in {"mirror", "overlay"} : \A rec \in Of(b) : rec.at \in Listed => There(rec)

WorldInv == LayInv /\ RefInv /\ GoneInv

Empty(b) == Of(b) = {}
Nothing == Ours = {} /\ Listed = {} /\ \A b \in Backends : Empty(b)
Only(K) == \A m \in Ours : m.by \in K
AllNamed == \A m \in Ours : m.by = "bind" \/ Rec(m) \in Of(m.by)
ByJournals == UNION {PlacesIn(read_mount_journal(b)) : b \in Backends}
AllThere(b) == \A rec \in Of(b) : There(rec)
MagicOnly == Only({"magic"}) /\ Empty("mirror") /\ Empty("overlay")
ClaimedInv == ~claimed => Nothing

\* Between passes; a whole teardown that went well left nothing.
AtIdle ==
    /\ AllNamed /\ Listed \subseteq ByJournals
    /\ run.op = "unmount" /\ run.all => Ours = {} /\ Listed = {}

\* A teardown comes to what is there of what its journal names, the later ones first.
LeftInv ==
    /\ \A m \in mounts : m.by = run.of => Rec(m) \in Range(run.left)
    /\ run.of # "magic" => InTurn(run.left)
    /\ run.ok => \A rec \in Of(run.of) : rec.at \in Listed => rec.at \in PlacesIn(run.left)
AtTeardown ==
    /\ AllNamed /\ Listed \subseteq ByJournals
    /\ run.op = "mount" => Nothing
    /\ run.op = "undo" => MagicOnly
    /\ run.of = "magic" => Only({"magic", "mirror"}) /\ (run.op = "unmount" /\ run.all => Empty("overlay"))
    /\ run.of = "mirror" => Only({"mirror"}) /\ (run.all => Empty("overlay") /\ Empty("magic"))
    /\ run.at = "detach" => LeftInv

\* What Magic Mount has attached is in its work list until its journal names it.
AtFirstSave == MagicOnly /\ Empty("magic") /\ Listed = {} /\ \A m \in Ours : m.at = Work
AtWalk ==
    /\ MagicOnly /\ Listed = {}
    /\ \A m \in Ours : m.at \in PlacesIn(run.done) \/ (m.at = Work /\ Rec(m) \in Of("magic"))
    /\ run.at = "walk" =>
          /\ Scattered(run.plan)
          /\ \A p \in PlacesIn(run.done), q \in Range(run.plan) : Unrelated(p, q)
AtRegister ==
    MagicOnly /\ Listed = {} /\ AllNamed
      /\ PlacesIn(run.done) \subseteq PlacesIn(read_mount_journal("magic"))

AtMirror ==
    /\ Only({"magic", "mirror"}) /\ Empty("mirror") /\ Empty("overlay")
    /\ \A m \in Ours : Rec(m) \in Of("magic") \/ (m.by = "mirror" /\ m.at \in PlacesIn(run.done))
    /\ Listed \subseteq ByJournals \cup (IF run.at = "record" THEN RegisteredIn(run.done) ELSE {})
AtSync ==
    /\ Only({"magic", "mirror"}) /\ Empty("overlay") /\ AllThere("mirror")
    /\ AllNamed /\ Listed \subseteq ByJournals

\* Each leaf lies apart from those before it, and what is put back upon one below it.
Coming == IF run.at = "leaf" THEN Range(run.plan) ELSE Range(Tail(run.plan))
Layered(ds) ==
    /\ \A p \in PlacesIn(ds) : \E m \in mounts : m.at = p /\ m.by \in Layers
    /\ \A m \in mounts : m.by \in Layers => m.at \in PlacesIn(ds)
AtLeaf ==
    /\ Empty("overlay") /\ AllThere("mirror")
    /\ \A m \in Ours : m.by \in Layers \/ Rec(m) \in Of(m.by)
    /\ \A m \in mounts : m.by \in Layers => (m.by = "overlay" <=> m.at \in RegisteredIn(run.done))
    /\ Listed \subseteq ByJournals \cup RegisteredIn(run.done)
    /\ InOrder(run.done) /\ Layered(run.done) /\ Scattered(run.plan)
    /\ \A p \in PlacesIn(run.done), q \in Coming : Unrelated(p, q)
    /\ run.at = "child" =>
          /\ \E n \in mounts : n.by = "overlay" /\ n.at = Head(run.plan)
          /\ \A q \in run.kids : Head(run.plan) \in Above[q]
          /\ \A q \in run.kids, p \in PlacesIn(run.done) : Apart(q, p)

AtRollBack ==
    /\ run.of = "magic" => MagicOnly
    /\ run.of = "mirror" => Only({"magic", "mirror"}) /\ Empty("mirror") /\ Empty("overlay")
    /\ run.of = "overlay" =>
          /\ Empty("overlay") /\ AllThere("mirror")
          /\ InTurn(run.left)
          /\ \A p \in PlacesIn(run.left) : \E m \in mounts : m.at = p /\ m.by \in Layers
    /\ \A m \in Ours : m.by = "bind" \/ Rec(m) \in Of(m.by)
                       \/ (m.by = run.of /\ m.at \in PlacesIn(run.left))
    /\ Listed \subseteq ByJournals \cup RegisteredIn(run.left)

PassInv ==
    /\ run.at = "idle" => AtIdle
    /\ run.at \in {"read", "detach"} => AtTeardown
    /\ run.at \in {"gather", "work"} => Nothing
    /\ run.at = "first-save" => AtFirstSave
    /\ run.at \in {"walk", "save"} => AtWalk
    /\ run.at = "register" => AtRegister
    /\ run.at \in {"setup", "finalize", "record"} => AtMirror
    /\ run.at = "sync" => AtSync
    /\ run.at \in {"leaf", "child"} => AtLeaf
    /\ run.at = "roll-back" => AtRollBack

\* Which operation comes to a stage, and for which backend.
RouteInv ==
    /\ run.at \in {"gather", "work", "first-save", "walk", "save", "register"} =>
          run.op = "mount" /\ run.of = "magic"
    /\ run.at \in {"setup", "finalize", "record", "sync"} => run.op = "mount" /\ run.of = "mirror"
    /\ run.at \in {"leaf", "child"} => run.op = "mount" /\ run.of = "overlay"
    /\ run.at \in {"read", "detach"} => run.op # "none" /\ (run.op # "unmount" => run.of = "magic")
    /\ run.at = "roll-back" => run.op = "mount" /\ run.left \in Seq(Attachments)
    /\ run.op \in {"mount", "undo"} => claimed

Kept == WorldInv /\ ClaimedInv /\ PassInv
KeptInv == ~damaged => Kept
FoundInv == JournalsInv /\ RouteInv /\ KeptInv

-------------------------------------------------------------------------------
\* The places a list of records or attachments names.

LEMMA NoPlaces == PlacesIn(<<>>) = {} /\ RegisteredIn(<<>>) = {} /\ InOrder(<<>>) /\ InTurn(<<>>)
                  /\ Range(<<>>) = {} /\ Scattered(<<>>)
BY DEF PlacesIn, RegisteredIn, InOrder, InTurn, Range, Scattered

LEMMA PlacesOfPaths == \A ds : PlacesIn(ds) = Range(PathsOf(ds))
BY DEF PlacesIn, PathsOf, Range

LEMMA PlacesOfRange ==
    \A ds : /\ PlacesIn(ds) = {d.at : d \in Range(ds)}
           /\ RegisteredIn(ds) = {d.at : d \in {e \in Range(ds) : e.reg}}
<1> SUFFICES ASSUME NEW ds
             PROVE  /\ PlacesIn(ds) = {d.at : d \in Range(ds)}
                    /\ RegisteredIn(ds) = {d.at : d \in {e \in Range(ds) : e.reg}}
  OBVIOUS
<1>1. PlacesIn(ds) = {d.at : d \in Range(ds)}
  BY DEF PlacesIn, Range
<1>2. \A p \in RegisteredIn(ds) : p \in {d.at : d \in {e \in Range(ds) : e.reg}}
  BY DEF RegisteredIn, Range
<1>3. \A p \in {d.at : d \in {e \in Range(ds) : e.reg}} : p \in RegisteredIn(ds)
  BY DEF RegisteredIn, Range
<1> QED BY <1>1, <1>2, <1>3

LEMMA PlacesAppended ==
    ASSUME NEW ds \in Seq(Attachments), NEW d \in Attachments
    PROVE  /\ PlacesIn(Append(ds, d)) = PlacesIn(ds) \cup {d.at}
           /\ d.reg => RegisteredIn(Append(ds, d)) = RegisteredIn(ds) \cup {d.at}
           /\ ~d.reg => RegisteredIn(Append(ds, d)) = RegisteredIn(ds)
           /\ InOrder(ds) /\ (\A p \in PlacesIn(ds) : Apart(d.at, p)) => InOrder(Append(ds, d))
<1> DEFINE n == Len(ds)
           es == Append(ds, d)
<1>1. /\ n \in Nat /\ DOMAIN ds = 1 .. n /\ DOMAIN es = 1 .. n + 1 /\ es[n + 1] = d
      /\ \A i \in 1 .. n : es[i] = ds[i]
  BY AppendProperties
<1>2. DOMAIN es = DOMAIN ds \cup {n + 1} /\ n + 1 \notin DOMAIN ds
  BY <1>1
<1> HIDE DEF es, n
<1>3. PlacesIn(es) = PlacesIn(ds) \cup {d.at}
  BY <1>1, <1>2 DEF PlacesIn
<1>4. d.reg => RegisteredIn(es) = RegisteredIn(ds) \cup {d.at}
  BY <1>1, <1>2 DEF RegisteredIn
<1>5. ~d.reg => RegisteredIn(es) = RegisteredIn(ds)
  BY <1>1, <1>2 DEF RegisteredIn
<1>6. ASSUME InOrder(ds), \A p \in PlacesIn(ds) : Apart(d.at, p) PROVE InOrder(es)
  <2> SUFFICES ASSUME NEW i \in DOMAIN es, NEW j \in DOMAIN es, i < j PROVE Apart(es[j].at, es[i].at)
    BY DEF InOrder
  <2>1. i \in DOMAIN ds
    BY <1>1
  <2>2. CASE j = n + 1
    BY <1>1, <1>6, <2>1, <2>2 DEF PlacesIn
  <2>3. CASE j # n + 1
    BY <1>1, <1>2, <1>6, <2>1, <2>3 DEF InOrder
  <2> QED BY <2>2, <2>3
<1> QED BY <1>3, <1>4, <1>5, <1>6 DEF es

LEMMA PlacesReversed ==
    ASSUME NEW S, NEW ds \in Seq(S)
    PROVE  /\ PlacesIn(Reverse(ds)) = PlacesIn(ds) /\ RegisteredIn(Reverse(ds)) = RegisteredIn(ds)
           /\ InOrder(ds) => InTurn(Reverse(ds))
<1> DEFINE n == Len(ds)
           es == Reverse(ds)
<1>1. n \in Nat /\ DOMAIN ds = 1 .. n /\ es \in Seq(S) /\ Len(es) = n
      /\ \A i \in 1 .. n : es[i] = ds[n - i + 1]
  BY Reversed
<1>2. DOMAIN es = 1 .. n /\ DOMAIN ds = 1 .. n
  BY <1>1
<1> HIDE DEF es, n
<1>3. \A i \in 1 .. n : n - i + 1 \in 1 .. n /\ n - (n - i + 1) + 1 = i
  BY <1>1
<1>4. Range(es) = Range(ds)
  BY Reversed DEF es
<1>5. PlacesIn(es) = PlacesIn(ds)
  BY <1>4, PlacesOfRange
<1>6. RegisteredIn(es) = RegisteredIn(ds)
  BY <1>4, PlacesOfRange
<1>7. ASSUME InOrder(ds) PROVE InTurn(es)
  <2> SUFFICES ASSUME NEW i \in 1 .. n, NEW j \in 1 .. n, i < j PROVE Apart(es[i].at, es[j].at)
    BY <1>2 DEF InTurn
  <2>1. PICK k \in 1 .. n, l \in 1 .. n : k = n - i + 1 /\ l = n - j + 1
    BY <1>3
  <2>2. l < k /\ es[i] = ds[k] /\ es[j] = ds[l]
    BY <1>1, <2>1
  <2> QED BY <1>1, <1>2, <1>7, <2>2 DEF InOrder
<1> QED BY <1>5, <1>6, <1>7 DEF es

LEMMA FirstAndRest ==
    ASSUME NEW S, NEW ds \in Seq(S), ds # <<>>
    PROVE  /\ Len(ds) \in Nat /\ 1 \in DOMAIN ds /\ ds[1] = Head(ds)
           /\ DOMAIN ds = 1 .. Len(ds) /\ DOMAIN Tail(ds) = 1 .. Len(ds) - 1
           /\ \A i \in DOMAIN Tail(ds) : Tail(ds)[i] = ds[i + 1] /\ i + 1 \in DOMAIN ds
           /\ \A i \in DOMAIN ds : i = 1 \/ \E k \in DOMAIN Tail(ds) : k + 1 = i
<1>1. /\ Len(ds) \in Nat /\ DOMAIN ds = 1 .. Len(ds) /\ Len(ds) # 0 /\ ds[1] = Head(ds)
      /\ DOMAIN Tail(ds) = 1 .. Len(ds) - 1
      /\ \A i \in 1 .. Len(ds) - 1 : Tail(ds)[i] = ds[i + 1]
  BY HeadTailProperties
<1>2. ASSUME NEW i \in DOMAIN ds, i # 1 PROVE \E k \in DOMAIN Tail(ds) : k + 1 = i
  <2>1. i - 1 \in 1 .. Len(ds) - 1
    BY <1>1, <1>2
  <2> QED BY <1>1, <2>1
<1> QED BY <1>1, <1>2

LEMMA PlacesOfTail ==
    ASSUME NEW S, NEW ds \in Seq(S), ds # <<>>
    PROVE  /\ Range(ds) = {Head(ds)} \cup Range(Tail(ds))
           /\ PlacesIn(ds) = {Head(ds).at} \cup PlacesIn(Tail(ds))
           /\ RegisteredIn(ds) \subseteq {Head(ds).at} \cup RegisteredIn(Tail(ds))
           /\ InTurn(ds) => /\ InTurn(Tail(ds))
                            /\ \A p \in PlacesIn(Tail(ds)) : Apart(Head(ds).at, p)
<1> DEFINE es == Tail(ds)
           d == Head(ds)
<1>1. /\ Len(ds) \in Nat /\ 1 \in DOMAIN ds /\ ds[1] = d
      /\ DOMAIN ds = 1 .. Len(ds) /\ DOMAIN es = 1 .. Len(ds) - 1
      /\ \A i \in DOMAIN es : es[i] = ds[i + 1] /\ i + 1 \in DOMAIN ds
      /\ \A i \in DOMAIN ds : i = 1 \/ \E k \in DOMAIN es : k + 1 = i
  BY FirstAndRest
<1> HIDE DEF es, d
<1>2. \A i \in DOMAIN ds : ds[i] = d \/ \E k \in DOMAIN es : es[k] = ds[i]
  BY <1>1
<1>3. Range(ds) = {d} \cup Range(es)
  BY <1>1, <1>2 DEF Range
<1>4. PlacesIn(ds) = {d.at} \cup PlacesIn(es)
  BY <1>3, PlacesOfRange
<1>5. RegisteredIn(ds) \subseteq {d.at} \cup RegisteredIn(es)
  BY <1>1, <1>2 DEF RegisteredIn
<1>6. ASSUME InTurn(ds) PROVE InTurn(es) /\ \A p \in PlacesIn(es) : Apart(d.at, p)
  <2>1. \A i, j \in DOMAIN es : i < j => i + 1 < j + 1
    BY <1>1
  <2>2. InTurn(es)
    BY <1>1, <1>6, <2>1 DEF InTurn
  <2>3. \A k \in DOMAIN es : 1 < k + 1
    BY <1>1
  <2>4. \A p \in PlacesIn(es) : Apart(d.at, p)
    BY <1>1, <1>6, <2>3 DEF InTurn, PlacesIn
  <2> QED BY <2>2, <2>4
<1> QED BY <1>3, <1>4, <1>5, <1>6 DEF es, d

LEMMA ScatteredTail ==
    ASSUME NEW ps \in Seq(Places), ps # <<>>, Scattered(ps)
    PROVE  /\ Scattered(Tail(ps)) /\ \A q \in Range(Tail(ps)) : Unrelated(Head(ps), q)
           /\ Range(ps) = {Head(ps)} \cup Range(Tail(ps))
<1> DEFINE qs == Tail(ps)
<1>1. /\ Len(ps) \in Nat /\ 1 \in DOMAIN ps /\ ps[1] = Head(ps)
      /\ DOMAIN ps = 1 .. Len(ps) /\ DOMAIN qs = 1 .. Len(ps) - 1
      /\ \A i \in DOMAIN qs : qs[i] = ps[i + 1] /\ i + 1 \in DOMAIN ps
  BY FirstAndRest
<1> HIDE DEF qs
<1>2. \A i, j \in DOMAIN qs : i # j => i + 1 # j + 1
  BY <1>1
<1>3. \A i \in DOMAIN qs : 1 # i + 1
  BY <1>1
<1>4. Scattered(qs)
  BY <1>1, <1>2 DEF Scattered
<1>5. \A q \in Range(qs) : Unrelated(Head(ps), q)
  BY <1>1, <1>3 DEF Scattered, Range
<1>6. Range(ps) = {Head(ps)} \cup Range(qs)
  BY PlacesOfTail DEF qs
<1> QED BY <1>4, <1>5, <1>6 DEF qs

\* What a pass notes.
LEMMA PlacesNoted ==
    ASSUME Shape, NEW p \in Places
    PROVE  /\ \A reg \in BOOLEAN : PlacesIn(Did(p, reg)) = PlacesIn(run.done) \cup {p}
           /\ RegisteredIn(Did(p, TRUE)) = RegisteredIn(run.done) \cup {p}
           /\ RegisteredIn(Did(p, FALSE)) = RegisteredIn(run.done)
           /\ InOrder(run.done) /\ (\A q \in PlacesIn(run.done) : Apart(p, q)) =>
                 \A reg \in BOOLEAN : InOrder(Did(p, reg))
<1>1. run.done \in Seq(Attachments)
  BY DEF Shape, Runs
<1>2. ASSUME NEW reg \in BOOLEAN
      PROVE  /\ PlacesIn(Did(p, reg)) = PlacesIn(run.done) \cup {p}
             /\ reg => RegisteredIn(Did(p, reg)) = RegisteredIn(run.done) \cup {p}
             /\ ~reg => RegisteredIn(Did(p, reg)) = RegisteredIn(run.done)
             /\ InOrder(run.done) /\ (\A q \in PlacesIn(run.done) : Apart(p, q)) => InOrder(Did(p, reg))
  <2>1. PICK d \in Attachments : d = [at |-> p, reg |-> reg]
    BY DEF Attachments
  <2>2. d.at = p /\ d.reg = reg /\ Did(p, reg) = Append(run.done, d)
    BY <2>1 DEF Did
  <2> QED BY <1>1, <2>2, PlacesAppended
<1>3. TRUE \in BOOLEAN /\ FALSE \in BOOLEAN
  OBVIOUS
<1> QED BY <1>2, <1>3

-------------------------------------------------------------------------------
\* What a path leads to, and what becomes of it when mounts come and go.

LEMMA OneSeen ==
    ASSUME Shape, Unique, NEW p, NEW m \in Seen(p), NEW n \in Seen(p)
    PROVE  m = n
<1>1. m \in mounts /\ n \in mounts /\ ~(m.id > n.id) /\ ~(n.id > m.id)
  BY DEF Seen
<1>2. m.id = n.id
  BY <1>1 DEF Shape, Mounts
<1> QED BY <1>1, <1>2 DEF Unique

\* Nothing hides an overlay, and only overlays hide another mount of Kagami's.
LEMMA Visible ==
    ASSUME Shape, LayInv, NEW m \in Ours, m.by \in Layers \/ \A n \in mounts : n.by \notin Layers
    PROVE  m \in Seen(m.at)
<1>1. m \in mounts
  BY DEF Ours
<1>2. ASSUME NEW x \in mounts, x.id > m.id PROVE x.at \notin {m.at} \cup Above[m.at]
  <2>1. ~Hides(x, m)
    BY <1>1, <1>2 DEF LayInv
  <2> QED BY <1>2, <2>1 DEF Hides
<1> QED BY <1>1, <1>2 DEF Seen

LEMMA Identified ==
    ASSUME Shape, Unique, NEW p, NEW m \in Seen(p)
    PROVE  m \in mounts /\ m.at = p /\ Identity(p) = Rec(m)
<1>1. m \in mounts /\ m.at = p
  BY DEF Seen
<1>2. (CHOOSE x \in Seen(p) : TRUE) = m
  BY OneSeen
<1> QED BY <1>1, <1>2 DEF Identity, Rec

\* Mounts of two backends are never taken for one another.
LEMMA OwnersOf ==
    ASSUME Shape, NEW m \in mounts
    PROVE  /\ m.at \in Places /\ m.id \in Nat /\ m.by \in Owners
           /\ m \in Ours <=> m.by \in Backends \cup {"bind"}
BY DEF Shape, Mounts, Owners, Ours, Backends

LEMMA NamedBy ==
    ASSUME RefInv, NEW b \in Backends, NEW m \in mounts, Rec(m) \in Of(b)
    PROVE  m.by = b
BY DEF RefInv, Rec

\* Steps that change no mount and no journal.
LEMMA Frame ==
    ASSUME UNCHANGED <<boot, mounts, journal>>
    PROVE  /\ Ours' = Ours
           /\ \A b \in Backends : /\ (read_mount_journal(b))' = read_mount_journal(b)
                                  /\ (Of(b))' = Of(b) /\ (Empty(b))' = Empty(b)
                                  /\ (AllThere(b))' = AllThere(b)
           /\ \A rec : (There(rec))' = There(rec)
           /\ ByJournals' = ByJournals
           /\ AllNamed' = AllNamed
           /\ MagicOnly' = MagicOnly
           /\ \A K : (Only(K))' = Only(K)
           /\ LayInv => LayInv'
           /\ RefInv => RefInv'
<1>1. Ours' = Ours
  BY DEF Ours
<1>2. \A b : (read_mount_journal(b))' = read_mount_journal(b)
  BY DEF read_mount_journal
<1>3. \A b : (Of(b))' = Of(b)
  BY <1>2 DEF Of
<1>4. \A rec : (There(rec))' = There(rec)
  BY DEF There
<1>5. \A b : (Empty(b))' = Empty(b) /\ (AllThere(b))' = AllThere(b)
  BY <1>3, <1>4 DEF Empty, AllThere
<1>6. ByJournals' = ByJournals
  BY <1>2 DEF ByJournals
<1>7. \A K : (Only(K))' = Only(K)
  BY <1>1 DEF Only
<1>8. AllNamed' = AllNamed /\ MagicOnly' = MagicOnly
  BY <1>1, <1>3, <1>5, <1>7 DEF AllNamed, MagicOnly
<1>9. LayInv => LayInv'
  BY <1>1 DEF LayInv, Upon
<1>10. RefInv => RefInv'
  BY <1>2, <1>3 DEF RefInv
<1> QED BY <1>1, <1>2, <1>3, <1>4, <1>5, <1>6, <1>7, <1>8, <1>9, <1>10

LEMMA FrameWorld ==
    ASSUME UNCHANGED <<boot, mounts, journal>>, WorldInv,
           Listed' \subseteq Listed \/ \A b \in {"mirror", "overlay"} : AllThere(b)
    PROVE  WorldInv'
<1>1. LayInv' /\ RefInv'
  BY Frame DEF WorldInv
<1>2. GoneInv'
  <2>1. \A b \in {"mirror", "overlay"} : (Of(b))' = Of(b)
    BY Frame DEF Backends
  <2>2. \A rec : (There(rec))' = There(rec)
    BY Frame
  <2>3. CASE Listed' \subseteq Listed
    BY <2>1, <2>2, <2>3 DEF GoneInv, WorldInv
  <2>4. CASE \A b \in {"mirror", "overlay"} : AllThere(b)
    BY <2>1, <2>2, <2>4 DEF GoneInv, AllThere
  <2> QED BY <2>3, <2>4
<1> QED BY <1>1, <1>2 DEF WorldInv

\* One mount more.
LEMMA OneMoreLaid ==
    ASSUME Shape, Bounded, LayInv, NEW p \in Places, NEW who \in Backends \cup {"bind"},
           Attach(p, who),
           who = "magic" => p \in {Work} \cup Range(MagicPlan),
           who = "mirror" => p \in Range(Mirrors),
           \A m \in Ours : who \notin Layers \/ m.by \in Layers => Apart(p, m.at),
           who \notin Layers => \A m \in mounts : m.by \notin Layers,
           who = "bind" => \E n \in mounts : n.by = "overlay" /\ n.at \in Above[p]
    PROVE  LayInv'
<1> DEFINE x == [at |-> p, id |-> Fresh, by |-> who]
<1>1. /\ Fresh \in Nat /\ \A m \in mounts : m.id < Fresh
      /\ mounts' = mounts \cup {x} /\ x.at = p /\ x.id = Fresh /\ x.by = who
  BY IsFresh DEF Attach
<1> HIDE DEF x
<1>2. Ours' \subseteq Ours \cup {x} /\ Ours \subseteq mounts
  BY <1>1 DEF Ours
<1>3. \A m \in mounts : m.id \in Nat
  BY OwnersOf
<1>4. \A m \in mounts' : m.by = "magic" => m.at \in {Work} \cup Range(MagicPlan)
  BY <1>1 DEF LayInv
<1>5. \A m \in mounts' : m.by = "mirror" => m.at \in Range(Mirrors)
  BY <1>1 DEF LayInv
<1>6. ASSUME NEW m \in Ours', NEW y \in mounts', Hides(y, m) PROVE y.by \in Layers /\ m.by \notin Layers
  <2>1. CASE m = x
    BY <1>1, <1>3, <1>6, <2>1 DEF Hides
  <2>2. CASE m # x /\ y = x
    <3>1. m \in Ours
      BY <1>2, <2>2
    <3>2. ~Apart(p, m.at)
      BY <1>1, <1>6, <2>2 DEF Hides, Apart
    <3> QED BY <1>1, <2>2, <3>1, <3>2
  <2>3. CASE m # x /\ y # x
    BY <1>1, <1>2, <1>6, <2>3 DEF LayInv
  <2> QED BY <2>1, <2>2, <2>3
<1>7. ASSUME NEW m \in mounts', NEW y \in mounts', y.id > m.id, m.by \in Layers PROVE y.by \in Layers
  <2>1. CASE m = x
    BY <1>1, <1>3, <1>7, <2>1
  <2>2. CASE m # x /\ y = x
    BY <1>1, <1>7, <2>2
  <2>3. CASE m # x /\ y # x
    BY <1>1, <1>7, <2>3 DEF LayInv
  <2> QED BY <2>1, <2>2, <2>3
<1>8. ASSUME NEW m \in mounts', m.by = "bind" PROVE \E n \in mounts' : n.by = "overlay" /\ (m \in Upon(n))'
  <2>1. CASE m = x
    <3>1. PICK n \in mounts : n.by = "overlay" /\ n.at \in Above[p]
      BY <1>1, <1>8, <2>1
    <3>2. x.id > n.id
      BY <1>1, <1>3
    <3> QED BY <1>1, <2>1, <3>1, <3>2 DEF Upon
  <2>2. CASE m # x
    BY <1>1, <1>8, <2>2 DEF LayInv, Upon
  <2> QED BY <2>1, <2>2
<1> QED BY <1>4, <1>5, <1>6, <1>7, <1>8 DEF LayInv

LEMMA OneMoreNamed ==
    ASSUME Shape, Bounded, RefInv, NEW p \in Places, NEW who \in Backends \cup {"bind"},
           Attach(p, who), UNCHANGED <<boot, journal>>
    PROVE  /\ RefInv' /\ Ours' = Ours \cup {[at |-> p, id |-> Fresh, by |-> who]}
           /\ \A m \in mounts : m.id < Fresh
           /\ \A b \in Backends : /\ (read_mount_journal(b))' = read_mount_journal(b)
                                  /\ (Of(b))' = Of(b) /\ (Empty(b))' = Empty(b)
                                  /\ AllThere(b) => (AllThere(b))'
           /\ ByJournals' = ByJournals
<1> DEFINE x == [at |-> p, id |-> Fresh, by |-> who]
<1>1. /\ Fresh \in Nat /\ \A m \in mounts : m.id < Fresh
      /\ mounts' = mounts \cup {x} /\ x.id = Fresh /\ x.by = who
      /\ \A b \in Backends : \A rec \in Of(b) : rec.id < Fresh
  BY IsFresh DEF Attach, Of
<1> HIDE DEF x
<1>2. \A b : (read_mount_journal(b))' = read_mount_journal(b)
  BY DEF read_mount_journal
<1>3. \A b : (Of(b))' = Of(b) /\ (Empty(b))' = Empty(b)
  BY <1>2 DEF Of, Empty
<1>4. \A b : AllThere(b) => (AllThere(b))'
  BY <1>1, <1>3 DEF AllThere, There
<1>5. ByJournals' = ByJournals
  BY <1>2 DEF ByJournals
<1>6. Ours' = Ours \cup {x}
  <2>1. who \notin {"stock", "other"}
    BY DEF Backends
  <2> QED BY <1>1, <2>1 DEF Ours
<1>7. \A b \in Backends : \A rec \in Of(b) : rec.id \in Nat
  BY RecordsRead DEF Of, Records
<1>8. \A b \in Backends : \A rec \in Of(b) : rec.id # x.id
  BY <1>1, <1>7
<1>9. RefInv'
  BY <1>1, <1>2, <1>3, <1>8 DEF RefInv
<1> QED BY <1>1, <1>2, <1>3, <1>4, <1>5, <1>6, <1>9 DEF x

\* Fewer mounts: what was attached upon those that were detached has gone with them.
LEMMA DetachedLaid ==
    ASSUME Shape, Unique, LayInv, RefInv, NEW p, Detach(p), UNCHANGED <<boot, journal>>
    PROVE  LayInv' /\ RefInv' /\ Ours' = {m \in Ours : m \in mounts'} /\ mounts' \subseteq mounts
<1>1. mounts' \subseteq mounts
  BY OneDetached
<1>2. Ours' = {m \in Ours : m \in mounts'}
  BY <1>1 DEF Ours
<1>3. RefInv'
  BY <1>1 DEF RefInv, Of, read_mount_journal, InOrder
<1>4. ASSUME NEW m \in mounts', m.by = "bind" PROVE \E n \in mounts' : n.by = "overlay" /\ (m \in Upon(n))'
  <2>1. PICK n \in mounts : n.by = "overlay" /\ m \in Upon(n)
    BY <1>1, <1>4 DEF LayInv
  <2>2. m \in mounts /\ m.id > n.id /\ n.at \in Above[m.at]
    BY <2>1 DEF Upon
  <2>3. CASE n \in mounts'
    BY <2>1, <2>2, <2>3 DEF Upon
  <2>4. CASE n \notin mounts'
    <3>1. PICK s \in Seen(p) : n = s \/ n \in Upon(s)
      BY <2>4, OneDetached
    <3>2. m \in Upon(s)
      <4>1. CASE n = s
        BY <2>1, <4>1
      <4>2. CASE n \in Upon(s)
        <5>1. s \in mounts /\ n.id > s.id /\ s.at \in Above[n.at]
          BY <4>2 DEF Upon, Seen
        <5>2. m.id > s.id
          BY <2>2, <5>1, OwnersOf
        <5>3. Above[n.at] \subseteq Above[m.at]
          BY <2>2, TreeAssumption, OwnersOf
        <5> QED BY <2>2, <5>1, <5>2, <5>3 DEF Upon
      <4> QED BY <3>1, <4>1, <4>2
    <3>3. m \notin mounts'
      BY <3>2 DEF Detach
    <3> QED BY <1>4, <3>3
  <2> QED BY <2>3, <2>4
<1>5. LayInv'
  BY <1>1, <1>2, <1>4 DEF LayInv, Hides
<1> QED BY <1>1, <1>2, <1>3, <1>5

\* A journal written of places that lead to the backend's mounts names these.
LEMMA WrittenNames ==
    ASSUME Shape, Unique, LayInv, RefInv, NEW b \in Backends, NEW qs \in Seq(Places),
           write_mount_journal(b, qs), UNCHANGED <<boot, mounts>>,
           \A p \in Range(qs) : \A m \in Seen(p) : m.by = b,
           b # "magic" => \A i, j \in DOMAIN qs : i < j => Apart(qs[j], qs[i])
    PROVE  /\ LayInv' /\ RefInv' /\ Ours' = Ours
           /\ \A c \in Backends \ {b} : /\ (read_mount_journal(c))' = read_mount_journal(c)
                                        /\ (Of(c))' = Of(c) /\ (Empty(c))' = Empty(c)
                                        /\ (AllThere(c))' = AllThere(c)
           /\ PlacesIn((read_mount_journal(b))') = Range(qs)
           /\ (AllThere(b))'
           /\ \A p \in Range(qs) : \A m \in Seen(p) : Rec(m) \in (Of(b))'
           /\ \A K : (Only(K))' = Only(K)
<1> DEFINE recs == [i \in DOMAIN qs |-> Identity(qs[i])]
<1>1. journal' = [journal EXCEPT ![b] = [boot |-> boot, recs |-> recs]]
  BY DEF write_mount_journal
<1> HIDE DEF recs
<1>2. /\ \A c \in Backends \ {b} : (read_mount_journal(c))' = read_mount_journal(c)
      /\ (read_mount_journal(b))' = recs
  BY <1>1 DEF Shape, read_mount_journal
<1>3. ASSUME NEW i \in DOMAIN qs
      PROVE  \E m \in Seen(qs[i]) : m \in mounts /\ m.at = qs[i] /\ m.by = b /\ recs[i] = Rec(m)
  <2>1. qs[i] \in Range(qs)
    BY DEF Range
  <2>2. PICK m \in Seen(qs[i]) : TRUE
    BY <2>1 DEF write_mount_journal, CanWrite, IsMountPoint
  <2>3. m \in mounts /\ m.at = qs[i] /\ Identity(qs[i]) = Rec(m)
    BY Identified
  <2>4. recs[i] = Identity(qs[i])
    BY DEF recs
  <2> QED BY <2>1, <2>3, <2>4
<1>4. DOMAIN recs = DOMAIN qs
  BY DEF recs
<1>5. ASSUME NEW i \in DOMAIN qs PROVE recs[i].at = qs[i]
  <2>1. PICK m \in mounts : m.at = qs[i] /\ recs[i] = Rec(m)
    BY <1>3
  <2>2. Rec(m).at = m.at
    BY DEF Rec
  <2> QED BY <2>1, <2>2
<1>6. (Of(b))' = Range(recs) /\ \A c \in Backends \ {b} : (Of(c))' = Of(c)
  BY <1>2 DEF Of
<1>7. PlacesIn((read_mount_journal(b))') = Range(qs)
  BY <1>2, <1>4, <1>5 DEF PlacesIn, Range
<1>8. \A rec \in Range(recs) : \E m \in mounts : rec = Rec(m) /\ m.by = b
  BY <1>3, <1>4 DEF Range
<1>9. (AllThere(b))'
  BY <1>6, <1>8 DEF AllThere, There
<1>10. ASSUME NEW p \in Range(qs), NEW m \in Seen(p) PROVE Rec(m) \in (Of(b))'
  <2>1. PICK i \in DOMAIN qs : qs[i] = p
    BY DEF Range
  <2>2. recs[i] = Rec(m)
    BY <1>3, <2>1, OneSeen
  <2> QED BY <1>4, <1>6, <2>2 DEF Range
<1>11. LayInv' /\ Ours' = Ours /\ \A K : (Only(K))' = Only(K)
  BY DEF LayInv, Upon, Ours, Only
<1>12. RefInv'
  <2>1. \A rec \in Range(recs) : \A m \in mounts : m.id = rec.id => m.by = b /\ m.at = rec.at
    BY <1>8 DEF Unique, Rec
  <2>2. \A c \in Backends : \A rec \in (Of(c))' : \A m \in mounts : m.id = rec.id => m.by = c /\ m.at = rec.at
    BY <1>6, <2>1 DEF RefInv
  <2>3. b # "magic" => InOrder(recs)
    BY <1>4, <1>5 DEF InOrder
  <2>4. \A c \in {"mirror", "overlay"} : InOrder((read_mount_journal(c))')
    <3>1. {"mirror", "overlay"} \subseteq Backends /\ "magic" \notin {"mirror", "overlay"}
      BY DEF Backends
    <3> QED BY <1>2, <2>3, <3>1 DEF RefInv
  <2> QED BY <2>2, <2>4 DEF RefInv
<1>13. \A c \in Backends \ {b} : (Empty(c))' = Empty(c) /\ (AllThere(c))' = AllThere(c)
  BY <1>6 DEF Empty, AllThere, There
<1> QED BY <1>2, <1>6, <1>7, <1>9, <1>10, <1>11, <1>12, <1>13

LEMMA RemovedNames ==
    ASSUME Shape, LayInv, RefInv, NEW b \in Backends, journal' = [journal EXCEPT ![b] = NoJournal],
           UNCHANGED <<boot, mounts>>
    PROVE  /\ LayInv' /\ RefInv' /\ Ours' = Ours /\ (Of(b))' = {} /\ (Empty(b))'
           /\ PlacesIn((read_mount_journal(b))') = {}
           /\ \A c \in Backends \ {b} : /\ (read_mount_journal(c))' = read_mount_journal(c)
                                        /\ (Of(c))' = Of(c) /\ (Empty(c))' = Empty(c)
           /\ \A rec : (There(rec))' = There(rec)
           /\ \A K : (Only(K))' = Only(K)
<1>1. NoJournal.recs = <<>>
  BY DEF NoJournal
<1>2. /\ \A c \in Backends \ {b} : (read_mount_journal(c))' = read_mount_journal(c)
      /\ (read_mount_journal(b))' = <<>>
  BY <1>1 DEF Shape, read_mount_journal
<1>3. (Of(b))' = {} /\ PlacesIn((read_mount_journal(b))') = {}
  BY <1>2, NoPlaces DEF Of
<1>4. \A c \in Backends \ {b} : (Of(c))' = Of(c)
  BY <1>2 DEF Of
<1>5. (Empty(b))' /\ \A c \in Backends \ {b} : (Empty(c))' = Empty(c)
  BY <1>3, <1>4 DEF Empty
<1>6. LayInv' /\ Ours' = Ours /\ (\A rec : (There(rec))' = There(rec)) /\ \A K : (Only(K))' = Only(K)
  BY DEF LayInv, Upon, Ours, There, Only
<1>7. RefInv'
  <2>1. \A c \in Backends : \A rec \in (Of(c))' : \A m \in mounts : m.id = rec.id => m.by = c /\ m.at = rec.at
    BY <1>3, <1>4 DEF RefInv
  <2>2. \A c \in {"mirror", "overlay"} : InOrder((read_mount_journal(c))')
    <3>1. {"mirror", "overlay"} \subseteq Backends
      BY DEF Backends
    <3> QED BY <1>2, <3>1, NoPlaces DEF RefInv
  <2> QED BY <2>1, <2>2 DEF RefInv
<1> QED BY <1>2, <1>3, <1>4, <1>5, <1>6, <1>7

-------------------------------------------------------------------------------
\* Where a pass goes next, and what it must have seen to before.

LEMMA StartFields ==
    ASSUME NEW op, NEW at, NEW of, NEW all, NEW r, r = Start(op, at, of, all)
    PROVE  /\ r.op = op /\ r.at = at /\ r.of = of /\ r.all = all /\ r.ok = TRUE
           /\ r.done = <<>> /\ r.left = <<>> /\ r.plan = <<>> /\ r.kids = {}
BY DEF Start

LEMMA OverTo ==
    ASSUME Shape, NEW ok \in BOOLEAN, Over(ok)
    PROVE  /\ run.op \in {"mount", "undo"} /\ run.of = "magic" =>
                 run' = Start("mount", "setup", "mirror", run.all /\ ok)
           /\ run.op = "unmount" /\ run.of = "overlay" =>
                 run' = Start("unmount", "read", "magic", run.all /\ ok)
           /\ run.op = "unmount" /\ run.of = "magic" =>
                 run' = Start("unmount", "read", "mirror", run.all /\ ok)
           /\ run.op = "unmount" /\ run.of = "mirror" =>
                 run' = Start("unmount", "idle", "magic", run.all /\ ok)
           /\ run.op = "mount" /\ run.of # "magic" =>
                 run' = Start("mount", "idle", "magic", run.all /\ ok)
<1>1. PICK all \in BOOLEAN : all = (run.all /\ ok)
  OBVIOUS
<1>2. CASE run.op \in {"mount", "undo"} /\ run.of = "magic"
  <2>1. run' = Start("mount", "setup", "mirror", all)
    BY <1>1, <1>2 DEF Over, Start, NoRun
  <2> QED BY <1>1, <1>2, <2>1
<1>3. CASE run.op = "unmount" /\ run.of = "overlay"
  <2>1. run' = Start("unmount", "read", "magic", all)
    BY <1>1, <1>3 DEF Over, Start, NoRun
  <2> QED BY <1>1, <1>3, <2>1
<1>4. CASE run.op = "unmount" /\ run.of = "magic"
  <2>1. run' = Start("unmount", "read", "mirror", all)
    BY <1>1, <1>4 DEF Over, Start, NoRun
  <2> QED BY <1>1, <1>4, <2>1
<1>5. CASE run.op \in {"mount", "unmount"} /\ run.of # "magic" /\ ~(run.op = "unmount" /\ run.of = "overlay")
  <2>1. run' = Start(run.op, "idle", "magic", all)
    BY <1>1, <1>5 DEF Over, Start, NoRun
  <2> QED BY <1>1, <1>5, <2>1
<1>6. run.op \in {"none", "mount", "undo", "unmount"} /\ run.of \in Backends
  BY DEF Shape, Runs
<1> QED BY <1>2, <1>3, <1>4, <1>5, <1>6 DEF Backends

LEMMA AfterTeardownTo ==
    ASSUME Shape, NEW ok \in BOOLEAN, AfterTeardown(ok), run.op \in {"mount", "undo"} => run.of = "magic"
    PROVE  /\ run.op = "mount" /\ ok => run' = Start("mount", "gather", "magic", TRUE)
           /\ run.op = "mount" /\ ~ok => run' = Start("mount", "setup", "mirror", FALSE)
           /\ run.op = "undo" => run' = Start("mount", "setup", "mirror", FALSE)
           /\ run.op = "unmount" /\ run.of = "overlay" =>
                 run' = Start("unmount", "read", "magic", run.all /\ ok)
           /\ run.op = "unmount" /\ run.of = "magic" =>
                 run' = Start("unmount", "read", "mirror", run.all /\ ok)
           /\ run.op = "unmount" /\ run.of = "mirror" =>
                 run' = Start("unmount", "idle", "magic", run.all /\ ok)
<1>1. CASE run.op = "mount" /\ ok
  <2>1. run' = Start("mount", "gather", "magic", TRUE)
    BY <1>1 DEF AfterTeardown, NoRun, Start
  <2> QED BY <1>1, <2>1
<1>2. CASE ~(run.op = "mount" /\ ok)
  <2>1. PICK good \in BOOLEAN : good = (ok /\ run.op # "undo")
    OBVIOUS
  <2>2. Over(ok /\ run.op # "undo")
    BY <1>2 DEF AfterTeardown
  <2>3. Over(good)
    BY <2>1, <2>2 DEF Over
  <2>4. (run.all /\ good) \in BOOLEAN /\ run.all \in BOOLEAN /\ (run.op = "unmount" => good = ok)
    BY <2>1 DEF Shape, Runs
  <2>5. /\ run.op \in {"mount", "undo"} /\ run.of = "magic" =>
              run' = Start("mount", "setup", "mirror", run.all /\ good)
        /\ run.op = "unmount" /\ run.of = "overlay" =>
              run' = Start("unmount", "read", "magic", run.all /\ good)
        /\ run.op = "unmount" /\ run.of = "magic" =>
              run' = Start("unmount", "read", "mirror", run.all /\ good)
        /\ run.op = "unmount" /\ run.of = "mirror" =>
              run' = Start("unmount", "idle", "magic", run.all /\ good)
    BY <2>3, OverTo
  <2>6. run.op \in {"mount", "undo"} => (run.all /\ good) = FALSE
    BY <1>2, <2>1
  <2> QED BY <1>2, <2>4, <2>5, <2>6
<1> QED BY <1>1, <1>2

\* A stage asks only for its own part of the invariant.
LEMMA Lands ==
    /\ run'.at = "idle" /\ AtIdle' => PassInv'
    /\ run'.at \in {"read", "detach"} /\ AtTeardown' => PassInv'
    /\ run'.at \in {"gather", "work"} /\ Nothing' => PassInv'
    /\ run'.at = "first-save" /\ AtFirstSave' => PassInv'
    /\ run'.at \in {"walk", "save"} /\ AtWalk' => PassInv'
    /\ run'.at = "register" /\ AtRegister' => PassInv'
    /\ run'.at \in {"setup", "finalize", "record"} /\ AtMirror' => PassInv'
    /\ run'.at = "sync" /\ AtSync' => PassInv'
    /\ run'.at \in {"leaf", "child"} /\ AtLeaf' => PassInv'
    /\ run'.at = "roll-back" /\ AtRollBack' => PassInv'
BY DEF PassInv

LEMMA StillClaimed ==
    ASSUME ClaimedInv,
           \/ claimed'
           \/ /\ claimed' = claimed /\ Ours' \subseteq Ours /\ Listed' \subseteq Listed
              /\ \A b \in Backends : (Of(b))' \subseteq Of(b)
    PROVE  ClaimedInv'
BY DEF ClaimedInv, Nothing, Empty

-------------------------------------------------------------------------------
\* Which operation comes to a stage.

MagicStages == {"gather", "work", "first-save", "walk", "save", "register"}
MirrorStages == {"setup", "finalize", "record", "sync"}
LeafStages == {"leaf", "child"}
DownStages == {"read", "detach"}

LEMMA RouteStarts ==
    ASSUME NEW op, NEW at, NEW of, NEW all, run' = Start(op, at, of, all),
           \/ at = "idle"
           \/ op = "mount" /\ at = "setup" /\ of = "mirror"
           \/ op = "mount" /\ at = "gather" /\ of = "magic"
           \/ op = "unmount" /\ at = "read"
           \/ op \in {"mount", "undo"} /\ at = "read" /\ of = "magic",
           op \in {"mount", "undo"} => claimed'
    PROVE  RouteInv'
<1>1. run'.op = op /\ run'.at = at /\ run'.of = of
  BY DEF Start
<1> QED BY <1>1 DEF RouteInv

LEMMA RouteStays ==
    ASSUME RouteInv, run'.op = run.op, run'.of = run.of, claimed' = claimed,
           \/ run.at \in MagicStages /\ run'.at \in MagicStages
           \/ run.at \in MirrorStages /\ run'.at \in MirrorStages
           \/ run.at \in LeafStages /\ run'.at \in LeafStages
           \/ run.at \in DownStages /\ run'.at \in DownStages
           \/ /\ run.at \in MagicStages \cup MirrorStages \cup LeafStages \cup {"roll-back"}
              /\ run'.at = "roll-back" /\ run'.left \in Seq(Attachments)
    PROVE  RouteInv'
BY DEF RouteInv, MagicStages, MirrorStages, LeafStages, DownStages

\* Everything but the idle controller is in some operation.
LEMMA Routes ==
    ASSUME Shape, RouteInv, run.at # "idle"
    PROVE  /\ run.op \in {"mount", "undo", "unmount"} /\ run.of \in Backends
           /\ run.op = "undo" => run.of = "magic"
           /\ run.op \in {"mount", "undo"} => claimed
<1>1. run.at \in Points /\ run.op \in {"none", "mount", "undo", "unmount"} /\ run.of \in Backends
  BY DEF Shape, Runs
<1> QED BY <1>1 DEF RouteInv, Points

LEMMA RouteOver ==
    ASSUME Shape, RouteInv, run.at # "idle", NEW ok \in BOOLEAN, Over(ok), claimed' = claimed
    PROVE  RouteInv'
<1>1. /\ run.op \in {"mount", "undo", "unmount"} /\ run.of \in Backends
      /\ run.op = "undo" => run.of = "magic"
      /\ run.op \in {"mount", "undo"} => claimed
  BY Routes
<1>2. \/ run' = Start("mount", "setup", "mirror", run.all /\ ok) /\ claimed
      \/ run' = Start("unmount", "read", "magic", run.all /\ ok)
      \/ run' = Start("unmount", "read", "mirror", run.all /\ ok)
      \/ run' = Start("unmount", "idle", "magic", run.all /\ ok)
      \/ run' = Start("mount", "idle", "magic", run.all /\ ok) /\ claimed
  BY <1>1, OverTo DEF Backends
<1> QED BY <1>2, RouteStarts

LEMMA RouteRollsBack ==
    ASSUME Shape, RouteInv, NEW ds \in Seq(Attachments), RollBack(ds), claimed' = claimed,
           run.at \in MagicStages \cup MirrorStages \cup LeafStages
    PROVE  /\ RouteInv' /\ run'.at = "roll-back" /\ run'.of = run.of /\ run'.op = run.op
           /\ run'.left = Reverse(ds)
<1> DEFINE left == Reverse(ds)
<1>1. left \in Seq(Attachments)
  BY Reversed
<1>2. run' = [run EXCEPT !.at = "roll-back", !.ok = FALSE, !.left = left] /\ run \in Runs
  BY DEF RollBack, Shape
<1> HIDE DEF left
<1>3. /\ run'.at = "roll-back" /\ run'.of = run.of /\ run'.op = run.op /\ run'.left = left
  BY <1>2 DEF Runs
<1> QED BY <1>1, <1>3, RouteStays DEF left

LEMMA RouteOfTeardown ==
    ASSUME JournalsInv, RouteInv,
           BeginUnmount \/ BeginMount \/ ReadJournal \/ TearDownRecord \/ RemoveJournal
    PROVE  RouteInv'
<1>1. Shape /\ run \in Runs
  BY DEF JournalsInv, Shape
<1>2. CASE BeginUnmount
  <2>1. run' = Start("unmount", "read", "overlay", TRUE)
    BY <1>2 DEF BeginUnmount, NoRun, Start
  <2> QED BY <2>1, RouteStarts
<1>3. CASE BeginMount
  <2>1. run' = Start("mount", "read", "magic", TRUE) /\ claimed'
    BY <1>3 DEF BeginMount, NoRun, Start
  <2> QED BY <2>1, RouteStarts
<1>4. CASE ReadJournal
  <2>1. run.at = "read" /\ claimed' = claimed
    BY <1>4 DEF ReadJournal, quiet
  <2>2. CASE run' = [run EXCEPT !.at = "detach", !.left = Reverse(read_mount_journal(run.of))]
    <3>1. run'.at = "detach" /\ run'.op = run.op /\ run'.of = run.of
      BY <1>1, <2>2 DEF Runs
    <3> QED BY <2>1, <3>1, RouteStays DEF DownStages
  <2>3. CASE Over(FALSE)
    BY <1>1, <2>1, <2>3, RouteOver
  <2> QED BY <1>4, <2>2, <2>3 DEF ReadJournal
<1>5. CASE TearDownRecord
  <2>1. run' = Rest \/ run' = [Rest EXCEPT !.ok = FALSE]
    BY <1>5 DEF TearDownRecord, SkipRecord, DetachRecord, Unregister
  <2>2. run.at = "detach" /\ claimed' = claimed
    BY <1>5 DEF TearDownRecord, quiet
  <2>3. run'.at = run.at /\ run'.op = run.op /\ run'.of = run.of
    BY <1>1, <2>1 DEF Runs, Rest
  <2> QED BY <2>2, <2>3, RouteStays DEF DownStages
<1>6. CASE RemoveJournal
  <2>1. run.at = "detach" /\ claimed' = claimed /\ (AfterTeardown(TRUE) \/ AfterTeardown(FALSE))
    BY <1>6 DEF RemoveJournal, quiet
  <2>2. PICK ok \in BOOLEAN : AfterTeardown(ok)
    BY <2>1
  <2>3. /\ run.op \in {"mount", "undo", "unmount"} /\ run.of \in Backends
        /\ run.op \in {"mount", "undo"} => claimed /\ run.of = "magic"
    BY <1>1, <2>1, Routes DEF RouteInv
  <2>4. \/ run' = Start("mount", "gather", "magic", TRUE) /\ claimed
        \/ run' = Start("mount", "setup", "mirror", FALSE) /\ claimed
        \/ run' = Start("unmount", "read", "magic", run.all /\ ok)
        \/ run' = Start("unmount", "read", "mirror", run.all /\ ok)
        \/ run' = Start("unmount", "idle", "magic", run.all /\ ok)
    BY <1>1, <2>2, <2>3, AfterTeardownTo DEF Backends
  <2> QED BY <2>1, <2>4, RouteStarts
<1> QED BY <1>2, <1>3, <1>4, <1>5, <1>6

LEMMA RouteOfMagic ==
    ASSUME JournalsInv, RouteInv,
           GatherFiles \/ MountWork \/ SaveWork \/ WalkOn \/ SaveMounts \/ RegisterMounts
    PROVE  RouteInv'
<1>1. Shape /\ run \in Runs /\ run.done \in Seq(Attachments)
  BY DEF JournalsInv, Shape, Runs
<1>2. run.at \in MagicStages /\ claimed' = claimed
  BY DEF GatherFiles, MountWork, SaveWork, WalkOn, SaveMounts, RegisterMounts, quiet, MagicStages
<1>3. run.at # "idle" /\ run.op = "mount" /\ run.of = "magic" /\ claimed
  BY <1>2 DEF RouteInv, MagicStages
<1>4. CASE Over(TRUE) \/ Over(FALSE)
  BY <1>1, <1>2, <1>3, <1>4, RouteOver
<1>5. CASE \E ds \in Seq(Attachments) : RollBack(ds)
  BY <1>1, <1>2, <1>5, RouteRollsBack
<1>6. CASE run'.at \in MagicStages /\ run'.op = run.op /\ run'.of = run.of
  BY <1>2, <1>6, RouteStays
<1>7. CASE GatherFiles
  <2>1. CASE Goes("work")
    BY <1>1, <1>6, <2>1 DEF Goes, Runs, MagicStages
  <2> QED BY <1>4, <1>7, <2>1 DEF GatherFiles
<1>8. CASE MountWork
  <2>1. CASE Goes("first-save")
    BY <1>1, <1>6, <2>1 DEF Goes, Runs, MagicStages
  <2> QED BY <1>4, <1>8, <2>1 DEF MountWork
<1>9. CASE SaveWork
  <2>1. CASE run' = [run EXCEPT !.at = "walk", !.plan = MagicPlan]
    BY <1>1, <1>6, <2>1 DEF Runs, MagicStages
  <2> QED BY <1>5, <1>9, <2>1, JustWork DEF SaveWork
<1>10. CASE WalkOn
  <2> DEFINE did == Did(Head(run.plan), FALSE)
             rest == Tail(run.plan)
  <2> HIDE DEF did, rest
  <2>1. \/ run' = [[run EXCEPT !.plan = rest] EXCEPT !.done = did]
        \/ run' = [run EXCEPT !.at = "save", !.ok = FALSE, !.done = did]
        \/ run' = [run EXCEPT !.at = "save", !.ok = FALSE]
    BY <1>10 DEF WalkOn, Onward, Fails, did, rest
  <2>2. run'.at \in {run.at, "save"} /\ run'.op = run.op /\ run'.of = run.of
    BY <1>1, <2>1 DEF Runs
  <2> QED BY <1>2, <1>6, <2>2 DEF MagicStages
<1>11. CASE SaveMounts
  <2> DEFINE committed == Did(Work, FALSE)
  <2>1. committed \in Seq(Attachments)
    BY <1>1, Noted, JournalAssumption
  <2> HIDE DEF committed
  <2>2. \/ run' = [run EXCEPT !.at = "register", !.done = committed]
        \/ RollBack(committed)
    BY <1>11 DEF SaveMounts, committed
  <2>3. CASE run' = [run EXCEPT !.at = "register", !.done = committed]
    BY <1>1, <1>6, <2>3 DEF Runs, MagicStages
  <2> QED BY <1>5, <2>1, <2>2, <2>3
<1>12. CASE RegisterMounts
  <2>1. CASE run' = [NoRun EXCEPT !.op = "undo", !.at = "read", !.all = run.all]
    <3>1. run' = Start("undo", "read", "magic", run.all)
      BY <2>1 DEF NoRun, Start
    <3> QED BY <1>2, <1>3, <3>1, RouteStarts
  <2> QED BY <1>4, <1>12, <2>1 DEF RegisterMounts
<1> QED BY <1>7, <1>8, <1>9, <1>10, <1>11, <1>12

LEMMA RouteOfMirror ==
    ASSUME JournalsInv, RouteInv, AttachMirror \/ FinalizeMirror \/ RecordMirror \/ SyncContent
    PROVE  RouteInv'
<1>1. Shape /\ run \in Runs /\ run.done \in Seq(Attachments)
  BY DEF JournalsInv, Shape, Runs
<1>2. run.at \in MirrorStages /\ claimed' = claimed
  BY DEF AttachMirror, FinalizeMirror, RecordMirror, SyncContent, quiet, MirrorStages
<1>3. run.at # "idle" /\ run.op = "mount" /\ run.of = "mirror" /\ claimed
  BY <1>2 DEF RouteInv, MirrorStages
<1>4. CASE \E ds \in Seq(Attachments) : RollBack(ds)
  BY <1>1, <1>2, <1>4, RouteRollsBack
<1>5. CASE run'.at \in MirrorStages /\ run'.op = run.op /\ run'.of = run.of
  BY <1>2, <1>5, RouteStays
<1>6. CASE AttachMirror
  <2> DEFINE did == Did(Mirrors[Len(run.done) + 1], FALSE)
             last == Len(run.done) + 1 = Len(Mirrors)
  <2> HIDE DEF did, last
  <2>1. \/ run' = [run EXCEPT !.done = did, !.at = IF last THEN "finalize" ELSE @]
        \/ RollBack(run.done)
    BY <1>6 DEF AttachMirror, did, last
  <2>2. CASE run' = [run EXCEPT !.done = did, !.at = IF last THEN "finalize" ELSE @]
    BY <1>1, <1>2, <1>5, <2>2 DEF Runs, MirrorStages
  <2> QED BY <1>1, <1>4, <2>1, <2>2
<1>7. CASE FinalizeMirror
  <2> DEFINE es == [i \in DOMAIN run.done |-> [run.done[i] EXCEPT !.reg = TRUE]]
             part(k) == [i \in DOMAIN run.done |-> [run.done[i] EXCEPT !.reg = i > k]]
  <2>1. ASSUME NEW k \in DOMAIN Mirrors PROVE part(k) \in Seq(Attachments)
    <3> DEFINE f == [i \in DOMAIN run.done |-> i > k]
    <3>1. ASSUME NEW i \in DOMAIN run.done PROVE f[i] \in BOOLEAN
      <4>1. f[i] = (i > k)
        OBVIOUS
      <4>2. (i > k) \in BOOLEAN
        OBVIOUS
      <4> HIDE DEF f
      <4> QED BY <4>1, <4>2
    <3>2. part(k) = [i \in DOMAIN run.done |-> [run.done[i] EXCEPT !.reg = f[i]]]
      OBVIOUS
    <3> HIDE DEF part, f
    <3> QED BY <1>1, <3>1, <3>2, SamePlaces
  <2>2. \/ run' = [run EXCEPT !.at = "record", !.done = es]
        \/ \E k \in DOMAIN Mirrors : RollBack(part(k))
    BY <1>7 DEF FinalizeMirror
  <2> HIDE DEF es, part
  <2>3. CASE run' = [run EXCEPT !.at = "record", !.done = es]
    BY <1>1, <1>5, <2>3 DEF Runs, MirrorStages
  <2> QED BY <1>4, <2>1, <2>2, <2>3
<1>8. CASE RecordMirror
  <2>1. CASE Goes("sync")
    BY <1>1, <1>5, <2>1 DEF Goes, Runs, MirrorStages
  <2> QED BY <1>1, <1>4, <1>8, <2>1 DEF RecordMirror
<1>9. CASE SyncContent
  <2>1. CASE run' = [run EXCEPT !.at = "leaf", !.of = "overlay", !.plan = OverlayPlan, !.done = <<>>]
    <3>1. PICK none : none = <<>>
      OBVIOUS
    <3>2. run' = [run EXCEPT !.at = "leaf", !.of = "overlay", !.plan = OverlayPlan, !.done = none]
      BY <2>1, <3>1
    <3>3. run'.at = "leaf" /\ run'.of = "overlay" /\ run'.op = "mount"
      BY <1>1, <1>3, <3>2 DEF Runs
    <3> QED BY <1>2, <1>3, <3>3 DEF RouteInv
  <2>2. CASE Over(FALSE)
    BY <1>1, <1>2, <1>3, <2>2, RouteOver
  <2> QED BY <1>9, <2>1, <2>2 DEF SyncContent
<1> QED BY <1>6, <1>7, <1>8, <1>9

LEMMA RouteOfLeaves ==
    ASSUME JournalsInv, RouteInv, MountLeaf \/ MountChild \/ LeafDone \/ SaveOverlays
    PROVE  RouteInv'
<1>1. Shape /\ run \in Runs /\ run.done \in Seq(Attachments) /\ run.plan \in Seq(Places)
      /\ run.kids \subseteq Places
  BY DEF JournalsInv, Shape, Runs
<1>2. run.at \in LeafStages /\ claimed' = claimed
  BY DEF MountLeaf, MountChild, LeafDone, SaveOverlays, quiet, LeafStages
<1>3. run.at # "idle"
  BY <1>2 DEF LeafStages
<1>4. CASE \E ds \in Seq(Attachments) : RollBack(ds)
  BY <1>1, <1>2, <1>4, RouteRollsBack
<1>5. CASE run'.at \in LeafStages /\ run'.op = run.op /\ run'.of = run.of
  BY <1>2, <1>5, RouteStays
<1>6. ASSUME NEW p \in Places, NEW next \in Runs, AttachOverlay(p, next),
             next.at = "child", next.op = run.op, next.of = run.of
      PROVE  RouteInv'
  <2> DEFINE did == Did(p, TRUE)
             less == Did(p, FALSE)
  <2>1. less \in Seq(Attachments)
    BY <1>1, Noted
  <2> HIDE DEF did, less
  <2>2. run' = [next EXCEPT !.done = did] \/ RollBack(less)
    BY <1>6 DEF AttachOverlay, did, less
  <2>3. CASE run' = [next EXCEPT !.done = did]
    BY <1>5, <1>6, <2>3 DEF Runs, LeafStages
  <2> QED BY <1>4, <2>1, <2>2, <2>3
<1>7. CASE MountLeaf
  <2>1. run.plan # <<>>
    BY <1>7 DEF MountLeaf
  <2>2. Head(run.plan) \in Places
    BY <1>1, <2>1, TailOf
  <2>3. ASSUME NEW kids \in {child_mounts(Head(run.plan)), {}},
               AttachOverlay(Head(run.plan), [run EXCEPT !.at = "child", !.kids = kids])
        PROVE  RouteInv'
    <3>1. PICK next : next = [run EXCEPT !.at = "child", !.kids = kids]
      OBVIOUS
    <3>2. kids \subseteq Places
      BY <2>3 DEF child_mounts
    <3>3. next \in Runs /\ next.at = "child" /\ next.op = run.op /\ next.of = run.of
      BY <1>1, <3>1, <3>2 DEF Runs, Points
    <3> QED BY <1>6, <2>2, <2>3, <3>1, <3>3
  <2> QED BY <1>1, <1>4, <1>7, <2>3 DEF MountLeaf
<1>8. CASE MountChild
  <2>1. PICK q \in run.kids :
          LET next == [run EXCEPT !.kids = @ \ {q}]
          IN  \/ run' = next
              \/ run' = [next EXCEPT !.done = Did(q, FALSE)]
              \/ AttachOverlay(q, next)
              \/ RollBack(run.done)
    BY <1>8 DEF MountChild
  <2>2. PICK next : next = [run EXCEPT !.kids = @ \ {q}]
    OBVIOUS
  <2>3. next \in Runs /\ next.at = "child" /\ next.op = run.op /\ next.of = run.of /\ q \in Places
    BY <1>1, <1>8, <2>2 DEF Runs, MountChild
  <2> DEFINE did == Did(q, FALSE)
  <2> HIDE DEF did
  <2>4. run' = next \/ run' = [next EXCEPT !.done = did] \/ AttachOverlay(q, next) \/ RollBack(run.done)
    BY <2>1, <2>2 DEF did
  <2>5. CASE run' = next \/ run' = [next EXCEPT !.done = did]
    BY <1>5, <2>3, <2>5 DEF Runs, LeafStages
  <2> QED BY <1>1, <1>4, <1>6, <2>3, <2>4, <2>5
<1>9. CASE LeafDone
  <2> DEFINE rest == Tail(run.plan)
  <2> HIDE DEF rest
  <2>1. run' = [[run EXCEPT !.plan = rest] EXCEPT !.at = "leaf"] \/ RollBack(run.done)
    BY <1>9 DEF LeafDone, Onward, rest
  <2>2. CASE run' = [[run EXCEPT !.plan = rest] EXCEPT !.at = "leaf"]
    BY <1>1, <1>5, <2>2 DEF Runs, LeafStages
  <2> QED BY <1>1, <1>4, <2>1, <2>2
<1>10. CASE SaveOverlays
  BY <1>1, <1>2, <1>3, <1>4, <1>10, RouteOver DEF SaveOverlays
<1> QED BY <1>7, <1>8, <1>9, <1>10

LEMMA RouteKept ==
    ASSUME JournalsInv, RouteInv, [Next]_vars
    PROVE  RouteInv'
<1>1. Shape /\ run \in Runs
  BY DEF JournalsInv, Shape
<1>2. CASE RollBackOne
  <2>1. run.at = "roll-back" /\ run.left # <<>> /\ run' = [run EXCEPT !.left = Tail(run.left)]
        /\ claimed' = claimed
    BY <1>2 DEF RollBackOne, Rest, quiet
  <2>2. Tail(run.left) \in Seq(Attachments)
    BY <2>1, TailOf DEF RouteInv
  <2> DEFINE left == Tail(run.left)
  <2> HIDE DEF left
  <2>3. run'.at = "roll-back" /\ run'.op = run.op /\ run'.of = run.of /\ run'.left = left
    BY <1>1, <2>1 DEF Runs, left
  <2> QED BY <2>1, <2>2, <2>3, RouteStays DEF left
<1>3. CASE RolledBack
  BY <1>1, <1>3, RouteOver DEF RolledBack, quiet
<1>4. CASE Kill
  <2>1. run' = Start(run.op, "idle", "magic", FALSE) /\ claimed' = claimed
    BY <1>4 DEF Kill, NoRun, Start, quiet
  <2> QED BY <2>1, RouteStarts DEF RouteInv
<1>5. CASE Reboot
  <2>1. run' = Start("none", "idle", "magic", TRUE)
    BY <1>5 DEF Reboot, NoRun, Start
  <2> QED BY <2>1, RouteStarts
<1>6. CASE Interfere \/ UNCHANGED vars
  <2>1. run' = run /\ claimed' = claimed
    BY <1>6 DEF Interfere, quiet, vars
  <2> QED BY <2>1 DEF RouteInv
<1> QED BY <1>2, <1>3, <1>4, <1>5, <1>6, RouteOfTeardown, RouteOfMagic, RouteOfMirror, RouteOfLeaves
        DEF Next, Kagami

-------------------------------------------------------------------------------
\* What the next stage asks for, when a pass goes on to it.

LEMMA NothingMeans ==
    ASSUME Nothing
    PROVE  /\ MagicOnly /\ AllNamed /\ Listed \subseteq ByJournals /\ Ours = {} /\ Listed = {}
           /\ \A b \in Backends : Of(b) = {} /\ Empty(b) /\ AllThere(b)
           /\ \A K : Only(K)
BY DEF Nothing, MagicOnly, AllNamed, Only, Empty, AllThere, Backends

LEMMA NextIsMirror ==
    ASSUME NEW all, run' = Start("mount", "setup", "mirror", all),
           MagicOnly', AllNamed', Listed' \subseteq ByJournals'
    PROVE  PassInv'
<1>1. run'.at = "setup" /\ run'.done = <<>>
  BY DEF Start
<1>2. (Only({"magic", "mirror"}))' /\ (Empty("mirror"))' /\ (Empty("overlay"))'
  BY DEF MagicOnly, Only
<1>3. \A m \in Ours' : Rec(m) \in (Of("magic"))'
  BY DEF MagicOnly, Only, AllNamed
<1>4. AtMirror'
  BY <1>1, <1>2, <1>3 DEF AtMirror
<1> QED BY <1>1, <1>4, Lands

LEMMA NextIsIdle ==
    ASSUME NEW op, NEW all, run' = Start(op, "idle", "magic", all),
           AllNamed', Listed' \subseteq ByJournals',
           op = "unmount" /\ all => Ours' = {} /\ Listed' = {}
    PROVE  PassInv'
<1>1. run'.at = "idle" /\ run'.op = op /\ run'.all = all
  BY DEF Start
<1>2. AtIdle'
  BY <1>1 DEF AtIdle
<1> QED BY <1>1, <1>2, Lands

LEMMA NextIsRollBack ==
    ASSUME NEW ds \in Seq(Attachments),
           run'.at = "roll-back", run'.of = run.of, run'.left = Reverse(ds),
           run.of = "magic" => MagicOnly',
           run.of = "mirror" => (Only({"magic", "mirror"}))' /\ (Empty("mirror"))' /\ (Empty("overlay"))',
           run.of = "overlay" =>
              /\ (Empty("overlay"))' /\ (AllThere("mirror"))' /\ InOrder(ds)
              /\ \A p \in PlacesIn(ds) : \E m \in mounts' : m.at = p /\ m.by \in Layers,
           \A m \in Ours' : \/ m.by = "bind" \/ Rec(m) \in (Of(m.by))'
                            \/ m.by = run.of /\ m.at \in PlacesIn(ds),
           Listed' \subseteq ByJournals' \cup RegisteredIn(ds)
    PROVE  PassInv'
<1>1. /\ PlacesIn(run'.left) = PlacesIn(ds) /\ RegisteredIn(run'.left) = RegisteredIn(ds)
      /\ InOrder(ds) => InTurn(run'.left)
  BY PlacesReversed
<1>2. AtRollBack'
  BY <1>1 DEF AtRollBack
<1> QED BY <1>2, Lands

-------------------------------------------------------------------------------
\* What is attached can be found again, step by step: teardowns.

LEMMA BeginKept ==
    ASSUME JournalsInv, RouteInv, Kept, BeginUnmount \/ BeginMount
    PROVE  Kept'
<1>1. UNCHANGED <<boot, mounts, journal, registered, leaked>> /\ run.at = "idle"
  BY DEF BeginUnmount, BeginMount, quiet, Idle
<1>2. /\ AllNamed' = AllNamed /\ ByJournals' = ByJournals /\ Ours' = Ours /\ Listed' = Listed
      /\ \A b \in Backends : (Of(b))' = Of(b) /\ (Empty(b))' = Empty(b)
      /\ \A K : (Only(K))' = Only(K)
  BY <1>1, Frame DEF Listed
<1>3. WorldInv'
  BY <1>1, <1>2, FrameWorld DEF Kept
<1>4. AllNamed' /\ Listed' \subseteq ByJournals'
  BY <1>1, <1>2 DEF Kept, PassInv, AtIdle
<1>5. CASE BeginUnmount
  <2>1. run' = Start("unmount", "read", "overlay", TRUE) /\ claimed' = claimed
    BY <1>5 DEF BeginUnmount, NoRun, Start, quiet
  <2>2. run'.at = "read" /\ run'.op = "unmount" /\ run'.of = "overlay"
    BY <2>1 DEF Start
  <2>3. AtTeardown'
    BY <1>4, <2>2 DEF AtTeardown
  <2>4. ClaimedInv'
    BY <1>2, <2>1, StillClaimed DEF Kept
  <2> QED BY <1>3, <2>2, <2>3, <2>4, Lands DEF Kept
<1>6. CASE BeginMount
  <2>1. run' = Start("mount", "read", "magic", TRUE) /\ claimed' /\ ~claimed
    BY <1>6 DEF BeginMount, NoRun, Start
  <2>2. run'.at = "read" /\ run'.op = "mount" /\ run'.of = "magic"
    BY <2>1 DEF Start
  <2>3. Nothing /\ Nothing'
    BY <1>2, <2>1 DEF Kept, ClaimedInv, Nothing
  <2>4. (Only({"magic", "mirror"}))'
    BY <1>2, <2>3, NothingMeans
  <2>5. AtTeardown'
    BY <1>4, <2>2, <2>3, <2>4 DEF AtTeardown
  <2>6. ClaimedInv'
    BY <2>1 DEF ClaimedInv
  <2> QED BY <1>3, <2>2, <2>5, <2>6, Lands DEF Kept
<1> QED BY <1>5, <1>6

LEMMA ReadKept ==
    ASSUME JournalsInv, RouteInv, Kept, ReadJournal, ~damaged'
    PROVE  Kept'
<1> DEFINE recs == read_mount_journal(run.of)
           left == Reverse(recs)
<1>1. Shape /\ run \in Runs /\ run.of \in Backends /\ run.at = "read"
  BY DEF JournalsInv, Shape, Runs, ReadJournal
<1>2. UNCHANGED <<boot, mounts, journal, registered, leaked, claimed>>
      /\ run' = [run EXCEPT !.at = "detach", !.left = left]
  BY DEF ReadJournal, quiet
<1>3. recs \in Seq(Records)
  BY <1>1 DEF Shape, read_mount_journal
<1>4. Range(left) = Range(recs) /\ PlacesIn(left) = PlacesIn(recs) /\ (InOrder(recs) => InTurn(left))
  BY <1>3, Reversed, PlacesReversed
<1>5. Range(recs) = Of(run.of)
  BY DEF Of
<1>6. run.of # "magic" => InOrder(recs)
  BY <1>1 DEF Kept, WorldInv, RefInv, Backends
<1> HIDE DEF recs, left
<1>7. run'.at = "detach" /\ run'.op = run.op /\ run'.of = run.of /\ run'.all = run.all
      /\ run'.left = left
  BY <1>1, <1>2 DEF Runs
<1>8. /\ AllNamed' = AllNamed /\ ByJournals' = ByJournals /\ Ours' = Ours /\ Listed' = Listed
      /\ \A b \in Backends : (Of(b))' = Of(b) /\ (Empty(b))' = Empty(b)
      /\ \A K : (Only(K))' = Only(K)
      /\ MagicOnly' = MagicOnly
  BY <1>2, Frame DEF Listed
<1>9. Nothing' = Nothing
  BY <1>8 DEF Nothing
<1>10. AtTeardown
  BY <1>1 DEF Kept, PassInv
<1>11. \A m \in mounts : m.by = run.of => Rec(m) \in Range(left)
  <2> SUFFICES ASSUME NEW m \in mounts, m.by = run.of PROVE Rec(m) \in Range(left)
    OBVIOUS
  <2>1. m \in Ours /\ m.by # "bind"
    BY <1>1, OwnersOf DEF Backends
  <2> QED BY <1>4, <1>5, <1>10, <2>1 DEF AtTeardown, AllNamed
<1>12. \A rec \in Of(run.of) : rec.at \in PlacesIn(left)
  BY <1>4, <1>5, PlacesOfRange
<1>13. LeftInv'
  BY <1>2, <1>4, <1>6, <1>7, <1>8, <1>11, <1>12, <1>1 DEF LeftInv
<1>14. AtTeardown'
  BY <1>7, <1>8, <1>9, <1>10, <1>13 DEF AtTeardown, Backends
<1>15. WorldInv'
  BY <1>2, <1>8, FrameWorld DEF Kept
<1>16. ClaimedInv'
  BY <1>2, <1>8, StillClaimed DEF Kept
<1> QED BY <1>7, <1>14, <1>15, <1>16, Lands DEF Kept

\* Taking a path off the list, or not, in a teardown.
LEMMA TakenOff ==
    ASSUME Shape, NEW p, Unregister(p)
    PROVE  /\ Listed' \subseteq Listed
           /\ run'.ok => p \notin Listed'
           /\ run.of # "magic" => p \notin Listed'
<1>1. run \in Runs
  BY DEF Shape
<1>2. CASE registered' = registered \ {p} /\ UNCHANGED leaked
  BY <1>2 DEF Listed
<1>3. CASE /\ run' = [Rest EXCEPT !.ok = FALSE] /\ UNCHANGED registered
           /\ leaked' = IF run.of = "magic" \/ p \notin registered THEN leaked ELSE leaked \cup {p}
  <2> DEFINE left == Tail(run.left)
  <2> HIDE DEF left
  <2>1. run' = [[run EXCEPT !.left = left] EXCEPT !.ok = FALSE]
    BY <1>3 DEF Rest, left
  <2>2. run'.ok = FALSE
    BY <1>1, <2>1 DEF Runs
  <2>3. Listed' \subseteq Listed
    BY <1>3 DEF Listed
  <2>4. run.of # "magic" => p \notin Listed'
    BY <1>3 DEF Listed
  <2> QED BY <2>2, <2>3, <2>4
<1> QED BY <1>2, <1>3 DEF Unregister

\* A record is that of the mount its path leads to, or of none that is there.
LEMMA MatchedIsThere ==
    ASSUME Shape, Unique, LayInv, RefInv, AtTeardown, run.at = "detach", run.of \in Backends,
           NEW rec \in Of(run.of)
    PROVE  /\ There(rec) => mount_matches(rec)
           /\ \A m \in Seen(rec.at) : mount_matches(rec) => Rec(m) = rec /\ m.by = run.of
<1>1. rec.id \in Nat
  BY RecordsRead DEF Of, Records
<1>2. ASSUME There(rec) PROVE mount_matches(rec)
  <2>1. PICK m \in mounts : Rec(m) = rec
    BY <1>2 DEF There
  <2>2. m.id = rec.id /\ m.at = rec.at
    BY <2>1 DEF Rec
  <2>3. m.by = run.of
    BY <2>2 DEF RefInv
  <2>4. m \in Ours
    BY <2>3, OwnersOf
  <2>5. m.by \in Layers \/ \A n \in mounts : n.by \notin Layers
    <3>1. CASE run.of = "overlay"
      BY <2>3, <3>1 DEF Layers
    <3>2. CASE run.of # "overlay"
      <4>1. Only({"magic", "mirror"})
        BY <3>2 DEF AtTeardown, Only, Backends
      <4> QED BY <4>1, OwnersOf DEF Only, Layers, Backends
    <3> QED BY <3>1, <3>2
  <2>6. m \in Seen(rec.at)
    BY <2>2, <2>4, <2>5, Visible
  <2> QED BY <2>2, <2>6 DEF mount_matches
<1>3. ASSUME mount_matches(rec), NEW m \in Seen(rec.at) PROVE Rec(m) = rec /\ m.by = run.of
  <2>1. PICK x \in Seen(rec.at) : x.id = rec.id
    BY <1>3 DEF mount_matches
  <2>2. m = x /\ m \in mounts /\ m.at = rec.at
    BY <1>3, <2>1, OneSeen DEF Seen
  <2>3. m.by = run.of
    BY <2>1, <2>2 DEF RefInv
  <2>4. rec \in Records
    BY RecordsRead DEF Of
  <2> QED BY <2>1, <2>2, <2>3, <2>4 DEF Rec, Records
<1> QED BY <1>2, <1>3

\* What a teardown detaches takes nothing with it that it counts on.
LEMMA TornFrom ==
    ASSUME JournalsInv, RouteInv, Kept, run.at = "detach", run.left # <<>>,
           NEW rec, rec = Head(run.left), mount_matches(rec), Detach(rec.at), UNCHANGED <<boot, journal>>,
           NEW r, NEW b \in {"mirror", "overlay"}, r \in Of(b), There(r),
           run.of = "magic" \/ r.at # rec.at
    PROVE  There(r)'
<1>1. /\ Shape /\ Unique /\ run \in Runs /\ run.of \in Backends /\ b \in Backends
      /\ run.left \in Seq(Records \cup Attachments)
      /\ Range(run.left) \subseteq Of(run.of)
  BY DEF JournalsInv, Shape, Runs, StageInv, Backends, Of
<1>2. rec \in Of(run.of)
  BY <1>1, TailOf
<1>3. LayInv /\ RefInv /\ AtTeardown /\ LeftInv
  BY DEF Kept, WorldInv, PassInv, AtTeardown
<1>4. PICK m \in mounts : Rec(m) = r
  BY DEF There
<1>5. m.at = r.at /\ m.by = b /\ m \in Ours
  <2>1. m.at = r.at /\ m.id = r.id
    BY <1>4 DEF Rec
  <2>2. m.by = b
    BY <1>1, <1>3, <2>1 DEF RefInv
  <2> QED BY <1>1, <2>1, <2>2, OwnersOf
<1>6. SUFFICES ASSUME m \notin mounts' PROVE FALSE
  BY <1>4 DEF There
<1>7. PICK s \in Seen(rec.at) : m = s \/ (m \in Upon(s) /\ m.id > s.id /\ rec.at \in Above[m.at])
  BY <1>4, <1>6, OneDetached
<1>8. s \in mounts /\ s.at = rec.at /\ Rec(s) = rec /\ s.by = run.of
  BY <1>1, <1>2, <1>3, <1>7, MatchedIsThere DEF Seen
<1>9. CASE m = s
  BY <1>5, <1>8, <1>9
<1>10. CASE m # s /\ run.of = "magic"
  <2>1. s.at \in {Work} \cup Range(MagicPlan)
    BY <1>3, <1>8, <1>10 DEF LayInv
  <2>2. m.by = "mirror"
    BY <1>3, <1>5, <1>10 DEF AtTeardown, Only
  <2>3. m.at \in Range(Mirrors)
    BY <1>3, <2>2 DEF LayInv
  <2>4. Unrelated(s.at, m.at)
    BY <2>1, <2>3, PlansApart
  <2> QED BY <1>7, <1>8, <1>10, <2>4 DEF Unrelated
<1>11. CASE m # s /\ run.of # "magic"
  <2>1. m.by = run.of
    <3>1. CASE run.of = "mirror"
      BY <1>3, <1>5, <3>1 DEF AtTeardown, Only
    <3>2. CASE run.of = "overlay"
      <4>1. m.by \in Layers
        BY <1>3, <1>7, <1>8, <1>11, <3>2 DEF LayInv, Layers
      <4> QED BY <1>5, <3>2, <4>1 DEF Layers
    <3> QED BY <1>1, <1>11, <3>1, <3>2 DEF Backends
  <2>2. r \in Range(run.left)
    BY <1>3, <1>4, <2>1 DEF LeftInv
  <2>3. r.at \in PlacesIn(run.left) /\ r.at # rec.at
    BY <1>11, <2>2, PlacesOfRange
  <2>4. Apart(rec.at, r.at)
    BY <1>1, <1>3, <1>11, <2>3, PlacesOfTail DEF LeftInv
  <2> QED BY <1>5, <1>7, <1>11, <2>4 DEF Apart
<1> QED BY <1>9, <1>10, <1>11

LEMMA TearDownKept ==
    ASSUME JournalsInv, RouteInv, Kept, TearDownRecord, ~damaged'
    PROVE  Kept'
<1> DEFINE rec == Head(run.left)
           left == Tail(run.left)
<1>1. /\ Shape /\ Unique /\ run \in Runs /\ run.of \in Backends
      /\ run.at = "detach" /\ run.left # <<>> /\ run.left \in Seq(Records \cup Attachments)
      /\ Range(run.left) \subseteq Of(run.of)
      /\ UNCHANGED <<boot, claimed, journal>>
      /\ (SkipRecord(rec) \/ DetachRecord(rec))
  BY DEF JournalsInv, Shape, Runs, StageInv, Of, TearDownRecord, quiet
<1>2. /\ Range(run.left) = {rec} \cup Range(left)
      /\ PlacesIn(run.left) = {rec.at} \cup PlacesIn(left)
      /\ InTurn(run.left) => InTurn(left)
  BY <1>1, PlacesOfTail
<1>3. run' = [run EXCEPT !.left = left] \/ run' = [[run EXCEPT !.left = left] EXCEPT !.ok = FALSE]
  BY <1>1 DEF SkipRecord, DetachRecord, Unregister, Rest
<1>4. \/ ~mount_matches(rec) /\ UNCHANGED <<mounts, registered, leaked>> /\ run.of # "magic"
      \/ ~mount_matches(rec) /\ UNCHANGED mounts /\ Unregister(rec.at)
      \/ mount_matches(rec) /\ Detach(rec.at) /\ Unregister(rec.at)
  BY <1>1 DEF SkipRecord, DetachRecord
<1> HIDE DEF rec, left
<1>5. /\ run'.at = "detach" /\ run'.op = run.op /\ run'.of = run.of /\ run'.all = run.all
      /\ run'.left = left /\ (run'.ok => run.ok)
  BY <1>1, <1>3 DEF Runs
<1>6. rec \in Of(run.of)
  BY <1>1, <1>2
<1>7. LayInv /\ RefInv /\ GoneInv /\ AtTeardown /\ LeftInv
  BY <1>1 DEF Kept, WorldInv, PassInv, AtTeardown
<1>8. /\ There(rec) => mount_matches(rec)
      /\ \A m \in Seen(rec.at) : mount_matches(rec) => Rec(m) = rec /\ m.by = run.of
  BY <1>1, <1>6, <1>7, MatchedIsThere
<1>9. \A b : /\ (read_mount_journal(b))' = read_mount_journal(b)
             /\ (Of(b))' = Of(b) /\ (Empty(b))' = Empty(b)
  BY <1>1 DEF read_mount_journal, Of, Empty
<1>10. ByJournals' = ByJournals
  BY <1>9 DEF ByJournals
\* The mounts that are left.
<1>11. LayInv' /\ RefInv' /\ Ours' = {m \in Ours : m \in mounts'} /\ mounts' \subseteq mounts
  <2>1. CASE UNCHANGED mounts
    <3>1. LayInv' /\ RefInv' /\ Ours' = Ours
      BY <1>1, <1>7, <2>1, Frame
    <3> QED BY <2>1, <3>1 DEF Ours
  <2>2. CASE Detach(rec.at)
    BY <1>1, <1>7, <2>2, DetachedLaid
  <2> QED BY <1>4, <2>1, <2>2
<1>12. \A K : Only(K) => (Only(K))'
  BY <1>11 DEF Only
<1>13. MagicOnly => MagicOnly'
  BY <1>9, <1>12 DEF MagicOnly
<1>14. AllNamed'
  BY <1>7, <1>9, <1>11 DEF AllNamed, AtTeardown
\* KernelSU's list.
<1>15. Listed' \subseteq Listed
  <2>1. CASE UNCHANGED <<registered, leaked>>
    BY <2>1 DEF Listed
  <2> QED BY <1>1, <1>4, <2>1, TakenOff
<1>16. run'.ok => rec.at \notin Listed'
  <2>1. CASE Unregister(rec.at)
    BY <1>1, <2>1, TakenOff
  <2>2. CASE ~mount_matches(rec) /\ run.of # "magic"
    <3>1. rec.at \notin Listed
      BY <1>1, <1>6, <1>7, <1>8, <2>2 DEF GoneInv, Backends
    <3> QED BY <1>15, <3>1
  <2> QED BY <1>4, <2>1, <2>2
<1>17. GoneInv'
  <2> SUFFICES ASSUME NEW b \in {"mirror", "overlay"}, NEW r \in Of(b), r.at \in Listed'
               PROVE  There(r)'
    BY <1>9 DEF GoneInv
  <2>1. There(r)
    BY <1>7, <1>15 DEF GoneInv
  <2>2. CASE UNCHANGED mounts
    BY <2>1, <2>2 DEF There
  <2>3. CASE mount_matches(rec) /\ Detach(rec.at) /\ Unregister(rec.at)
    <3>1. run.of = "magic" \/ r.at # rec.at
      BY <1>1, <2>3, TakenOff
    <3> QED BY <1>1, <2>1, <2>3, <3>1, TornFrom DEF rec
  <2> QED BY <1>4, <2>2, <2>3
\* The rest of the teardown.
<1>18. LeftInv'
  <2>1. ASSUME NEW m \in mounts', m.by = run.of PROVE Rec(m) \in Range(left)
    <3>1. m \in mounts /\ Rec(m) \in Range(run.left)
      BY <1>7, <1>11, <2>1 DEF LeftInv
    <3>2. SUFFICES ASSUME Rec(m) = rec PROVE FALSE
      BY <1>2, <3>1
    <3>3. mount_matches(rec)
      BY <1>8, <3>1, <3>2 DEF There
    <3>4. PICK s \in Seen(rec.at) : Rec(s) = rec
      BY <1>8, <3>3 DEF mount_matches
    <3>5. s \in mounts /\ s.id = m.id
      BY <3>2, <3>4 DEF Seen, Rec
    <3>6. m \in Seen(rec.at)
      BY <1>1, <3>1, <3>4, <3>5 DEF Unique
    <3>7. m \notin mounts'
      BY <1>4, <3>3, <3>6, OneDetached
    <3> QED BY <2>1, <3>7
  <2>2. run.of # "magic" => InTurn(left)
    BY <1>2, <1>7 DEF LeftInv
  <2>3. ASSUME run'.ok, NEW r \in Of(run.of), r.at \in Listed' PROVE r.at \in PlacesIn(left)
    <3>1. r.at \in PlacesIn(run.left)
      BY <1>5, <1>7, <1>15, <2>3 DEF LeftInv
    <3> QED BY <1>2, <1>16, <2>3, <3>1
  <2> QED BY <1>5, <1>9, <2>1, <2>2, <2>3 DEF LeftInv
<1>19. run.op # "mount"
  <2>1. run.op = "mount" => Nothing
    BY <1>7 DEF AtTeardown
  <2> QED BY <1>1, <1>6, <2>1 DEF Nothing, Empty
<1>20. AtTeardown'
  <2>1. Listed' \subseteq ByJournals'
    BY <1>7, <1>10, <1>15 DEF AtTeardown
  <2> QED BY <1>5, <1>7, <1>9, <1>12, <1>13, <1>14, <1>18, <1>19, <2>1 DEF AtTeardown
<1>21. ClaimedInv'
  BY <1>1, <1>9, <1>11, <1>15, StillClaimed DEF Kept
<1> QED BY <1>5, <1>11, <1>17, <1>20, <1>21, Lands DEF Kept, WorldInv

\* A backend whose records are all dealt with has nothing attached any more.
LEMMA NoneOf ==
    ASSUME JournalsInv, Kept, run.at = "detach", run.left = <<>>
    PROVE  /\ \A m \in mounts : m.by # run.of
           /\ run.of = "overlay" => Only({"magic", "mirror"})
           /\ run.of = "magic" => Only({"mirror"})
           /\ run.of = "mirror" => Ours = {}
           /\ run.op \in {"mount", "undo"} /\ run.of = "magic" => Ours = {}
           /\ run.ok => \A p \in Listed : p \notin PlacesIn(read_mount_journal(run.of))
<1>1. Shape /\ run.of \in Backends /\ AtTeardown /\ LeftInv /\ LayInv
  BY DEF JournalsInv, Shape, Runs, Kept, PassInv, AtTeardown, WorldInv
<1>2. Range(run.left) = {} /\ PlacesIn(run.left) = {}
  BY NoPlaces
<1>3. \A m \in mounts : m.by # run.of
  BY <1>1, <1>2 DEF LeftInv
<1>4. run.of = "overlay" => Only({"magic", "mirror"})
  <2>1. run.of = "overlay" => \A m \in mounts : m.by # "bind"
    BY <1>1, <1>3 DEF LayInv
  <2> QED BY <1>1, <1>3, <2>1, OwnersOf DEF Only, Backends, Ours
<1>5. run.of = "magic" => Only({"mirror"})
  BY <1>1, <1>3 DEF AtTeardown, Only, Ours
<1>6. run.of = "mirror" => Ours = {}
  BY <1>1, <1>3 DEF AtTeardown, Only, Ours
<1>7. run.op \in {"mount", "undo"} /\ run.of = "magic" => Ours = {}
  BY <1>1, <1>3 DEF AtTeardown, Nothing, MagicOnly, Only, Ours
<1>8. run.ok => \A p \in Listed : p \notin PlacesIn(read_mount_journal(run.of))
  BY <1>1, <1>2, PlacesOfRange DEF LeftInv, Of
<1> QED BY <1>3, <1>4, <1>5, <1>6, <1>7, <1>8

LEMMA RemoveJournalKept ==
    ASSUME JournalsInv, RouteInv, Kept, RemoveJournal, ~damaged'
    PROVE  Kept'
<1>1. /\ Shape /\ run.of \in Backends /\ run.at = "detach" /\ run.left = <<>>
      /\ UNCHANGED <<boot, claimed, mounts, registered, leaked>> /\ AtTeardown
      /\ LayInv /\ RefInv /\ GoneInv /\ ClaimedInv
  BY DEF JournalsInv, Shape, Runs, RemoveJournal, quiet, Kept, PassInv, WorldInv
<1>2. /\ \A m \in mounts : m.by # run.of
      /\ run.of = "overlay" => Only({"magic", "mirror"})
      /\ run.of = "magic" => Only({"mirror"})
      /\ run.of = "mirror" => Ours = {}
      /\ run.op \in {"mount", "undo"} /\ run.of = "magic" => Ours = {}
      /\ run.ok => \A p \in Listed : p \notin PlacesIn(read_mount_journal(run.of))
  BY <1>1, NoneOf
<1>3. run.op \in {"mount", "undo", "unmount"} /\ (run.op \in {"mount", "undo"} => run.of = "magic")
  BY <1>1, Routes DEF RouteInv
<1>4. Listed' = Listed
  BY <1>1 DEF Listed
<1>. PICK of \in Backends : of = run.of
  BY <1>1
\* Whether the journal is removed or not.
<1>5. ASSUME NEW ok \in BOOLEAN, AfterTeardown(ok),
             \/ ok /\ run.ok /\ journal' = [journal EXCEPT ![of] = NoJournal]
             \/ ~ok /\ UNCHANGED journal
      PROVE  Kept'
  <2>1. /\ LayInv' /\ RefInv' /\ Ours' = Ours
        /\ \A c \in Backends \ {of} : /\ (read_mount_journal(c))' = read_mount_journal(c)
                                     /\ (Of(c))' = Of(c) /\ (Empty(c))' = Empty(c)
        /\ \A rec : (There(rec))' = There(rec)
        /\ \A K : (Only(K))' = Only(K)
        /\ ok => (Of(of))' = {} /\ (Empty(of))'
        /\ ~ok => ByJournals' = ByJournals /\ (Of(of))' = Of(of) /\ (Empty(of))' = Empty(of)
    <3>1. CASE ok
      <4>1. journal' = [journal EXCEPT ![of] = NoJournal]
        BY <1>5, <3>1
      <4>2. /\ LayInv' /\ RefInv' /\ Ours' = Ours /\ (Of(of))' = {} /\ (Empty(of))'
            /\ \A c \in Backends \ {of} : /\ (read_mount_journal(c))' = read_mount_journal(c)
                                         /\ (Of(c))' = Of(c) /\ (Empty(c))' = Empty(c)
            /\ \A rec : (There(rec))' = There(rec)
            /\ \A K : (Only(K))' = Only(K)
        BY <1>1, <4>1, RemovedNames
      <4> QED BY <3>1, <4>2
    <3>2. CASE ~ok
      <4>1. UNCHANGED journal
        BY <1>5, <3>2
      <4>2. /\ LayInv' /\ RefInv' /\ Ours' = Ours /\ ByJournals' = ByJournals
            /\ \A c \in Backends : /\ (read_mount_journal(c))' = read_mount_journal(c)
                                 /\ (Of(c))' = Of(c) /\ (Empty(c))' = Empty(c)
            /\ \A rec : (There(rec))' = There(rec)
            /\ \A K : (Only(K))' = Only(K)
        BY <1>1, <4>1, Frame
      <4> QED BY <3>2, <4>2
    <3> QED BY <3>1, <3>2
  <2>2. \A b \in Backends : (Of(b))' \subseteq Of(b) /\ (Empty(b) => (Empty(b))')
    <3> SUFFICES ASSUME NEW b \in Backends PROVE (Of(b))' \subseteq Of(b) /\ (Empty(b) => (Empty(b))')
      OBVIOUS
    <3>1. CASE b # of
      BY <2>1, <3>1
    <3>2. CASE b = of
      BY <2>1, <3>2
    <3> QED BY <3>1, <3>2
  <2>3. GoneInv'
    <3>1. {"mirror", "overlay"} \subseteq Backends
      BY DEF Backends
    <3> QED BY <1>1, <1>4, <2>1, <2>2, <3>1 DEF GoneInv
  <2>4. AllNamed'
    <3>1. \A m \in Ours : m.by # "bind" => m.by \in Backends \ {of}
      BY <1>1, <1>2, OwnersOf DEF Ours
    <3> QED BY <1>1, <2>1, <3>1 DEF AllNamed, AtTeardown
  <2>5. Listed' \subseteq ByJournals'
    <3> SUFFICES ASSUME NEW p \in Listed PROVE p \in ByJournals'
      BY <1>4
    <3>1. PICK b \in Backends : p \in PlacesIn(read_mount_journal(b))
      BY <1>1 DEF AtTeardown, ByJournals
    <3>2. CASE ok
      <4>1. b # of
        BY <1>2, <1>5, <3>1, <3>2
      <4>2. p \in PlacesIn((read_mount_journal(b))')
        BY <2>1, <3>1, <4>1
      <4> QED BY <4>2 DEF ByJournals
    <3>3. CASE ~ok
      BY <1>1, <2>1, <3>3 DEF AtTeardown
    <3> QED BY <3>2, <3>3
  <2>6. ClaimedInv'
    BY <1>1, <1>4, <2>1, <2>2, StillClaimed
  <2>7. PassInv'
    <3>1. CASE run.op = "mount" /\ ok
      <4>1. run' = Start("mount", "gather", "magic", TRUE)
        BY <1>1, <1>3, <1>5, <3>1, AfterTeardownTo
      <4>2. run'.at = "gather"
        BY <4>1 DEF Start
      <4>3. Nothing'
        BY <1>1, <1>4, <2>1, <2>2, <3>1 DEF AtTeardown, Nothing
      <4> QED BY <4>2, <4>3, Lands
    <3>2. CASE run.op = "undo" \/ (run.op = "mount" /\ ~ok)
      <4>1. run' = Start("mount", "setup", "mirror", FALSE)
        BY <1>1, <1>3, <1>5, <3>2, AfterTeardownTo
      <4>2. MagicOnly
        BY <1>1, <3>2, NothingMeans DEF AtTeardown
      <4>3. MagicOnly'
        BY <2>1, <2>2, <4>2 DEF MagicOnly, Backends
      <4> QED BY <2>4, <2>5, <4>1, <4>3, NextIsMirror
    <3>3. CASE run.op = "unmount" /\ run.of = "overlay"
      <4>1. run' = Start("unmount", "read", "magic", run.all /\ ok)
        BY <1>1, <1>3, <1>5, <3>3, AfterTeardownTo
      <4>2. run'.at = "read" /\ run'.op = "unmount" /\ run'.of = "magic" /\ (run'.all => ok)
        BY <4>1 DEF Start
      <4>3. (Only({"magic", "mirror"}))' /\ (ok => (Empty("overlay"))')
        BY <1>2, <2>1, <3>3
      <4>4. AtTeardown'
        BY <2>4, <2>5, <4>2, <4>3 DEF AtTeardown
      <4> QED BY <4>2, <4>4, Lands
    <3>4. CASE run.op = "unmount" /\ run.of = "magic"
      <4>1. run' = Start("unmount", "read", "mirror", run.all /\ ok)
        BY <1>1, <1>3, <1>5, <3>4, AfterTeardownTo
      <4>2. run'.at = "read" /\ run'.op = "unmount" /\ run'.of = "mirror" /\ (run'.all => run.all /\ ok)
        BY <4>1 DEF Start
      <4>3. (Only({"mirror"}))' /\ (run.all /\ ok => (Empty("overlay"))' /\ (Empty("magic"))')
        BY <1>1, <1>2, <2>1, <2>2, <3>4 DEF AtTeardown, Backends
      <4>4. AtTeardown'
        BY <2>4, <2>5, <4>2, <4>3 DEF AtTeardown
      <4> QED BY <4>2, <4>4, Lands
    <3>5. CASE run.op = "unmount" /\ run.of = "mirror"
      <4>1. run' = Start("unmount", "idle", "magic", run.all /\ ok)
        BY <1>1, <1>3, <1>5, <3>5, AfterTeardownTo
      <4>2. Ours' = {}
        BY <1>2, <2>1, <3>5
      <4>3. ASSUME run.all /\ ok PROVE Listed' = {}
        <5>1. \A b \in Backends : (Empty(b))'
          BY <1>1, <2>1, <2>2, <3>5, <4>3 DEF AtTeardown, Backends
        <5>2. \A b \in Backends : PlacesIn((read_mount_journal(b))') = {}
          BY <5>1, PlacesOfRange DEF Empty, Of
        <5>3. ByJournals' = {}
          BY <5>2 DEF ByJournals
        <5> QED BY <2>5, <5>3
      <4> QED BY <2>4, <2>5, <4>1, <4>2, <4>3, NextIsIdle
    <3> QED BY <1>1, <1>3, <3>1, <3>2, <3>3, <3>4, <3>5 DEF Backends
  <2> QED BY <2>1, <2>3, <2>6, <2>7 DEF Kept, WorldInv
<1> QED BY <1>5 DEF RemoveJournal

-------------------------------------------------------------------------------
\* Magic Mount.

LEMMA GatherKept ==
    ASSUME JournalsInv, RouteInv, Kept, GatherFiles
    PROVE  Kept'
<1>1. /\ UNCHANGED <<boot, mounts, journal, claimed, registered, leaked>>
      /\ run.at = "gather" /\ run \in Runs /\ Shape
      /\ run.op = "mount" /\ run.of = "magic" /\ Nothing
  BY DEF GatherFiles, quiet, JournalsInv, Shape, RouteInv, Kept, PassInv
<1>2. /\ Ours' = Ours /\ Listed' = Listed /\ MagicOnly' = MagicOnly /\ AllNamed' = AllNamed
      /\ ByJournals' = ByJournals
      /\ \A b \in Backends : (Of(b))' = Of(b) /\ (Empty(b))' = Empty(b)
  BY <1>1, Frame DEF Listed
<1>3. WorldInv' /\ ClaimedInv'
  BY <1>1, <1>2, FrameWorld, StillClaimed DEF Kept
<1>4. Nothing' /\ MagicOnly' /\ AllNamed' /\ Listed' \subseteq ByJournals'
  BY <1>1, <1>2, NothingMeans DEF Nothing
<1>5. CASE Goes("work")
  <2>1. run'.at = "work"
    BY <1>1, <1>5 DEF Goes, Runs
  <2> QED BY <1>3, <1>4, <2>1, Lands DEF Kept
<1>6. CASE Over(TRUE) \/ Over(FALSE)
  <2>1. PICK ok \in BOOLEAN : Over(ok)
    BY <1>6
  <2>2. run' = Start("mount", "setup", "mirror", run.all /\ ok)
    BY <1>1, <2>1, OverTo
  <2> QED BY <1>3, <1>4, <2>2, NextIsMirror DEF Kept
<1> QED BY <1>5, <1>6 DEF GatherFiles

LEMMA MountWorkKept ==
    ASSUME JournalsInv, RouteInv, Kept, MountWork
    PROVE  Kept'
<1>1. /\ UNCHANGED <<boot, journal, claimed, registered, leaked>>
      /\ run.at = "work" /\ run \in Runs /\ Shape /\ Bounded
      /\ run.op = "mount" /\ run.of = "magic" /\ claimed /\ Nothing
      /\ LayInv /\ RefInv /\ Work \in Places
  BY JournalAssumption DEF MountWork, quiet, JournalsInv, Shape, RouteInv, Kept, PassInv, WorldInv
<1>2. Listed' = Listed /\ ClaimedInv'
  BY <1>1 DEF Listed, ClaimedInv
<1>3. CASE Over(FALSE) /\ UNCHANGED mounts
  <2>1. /\ MagicOnly' = MagicOnly /\ AllNamed' = AllNamed /\ ByJournals' = ByJournals
    BY <1>1, <1>3, Frame
  <2>2. WorldInv' /\ MagicOnly' /\ AllNamed' /\ Listed' \subseteq ByJournals'
    BY <1>1, <1>2, <1>3, <2>1, FrameWorld, NothingMeans DEF Kept
  <2>3. run' = Start("mount", "setup", "mirror", run.all /\ FALSE)
    BY <1>1, <1>3, OverTo
  <2> QED BY <1>2, <2>2, <2>3, NextIsMirror DEF Kept
<1>4. CASE Attach(Work, "magic") /\ Goes("first-save")
  <2>1. Ours = {} /\ Listed = {} /\ \A b \in Backends : Of(b) = {} /\ Empty(b)
    BY <1>1, NothingMeans
  <2>2. \A m \in mounts : m.by \notin Layers
    BY <1>1, <2>1, OwnersOf DEF Layers, Backends
  <2>3. LayInv'
    BY <1>1, <1>4, <2>1, <2>2, OneMoreLaid DEF Backends, Layers
  <2>4. /\ RefInv' /\ Ours' = Ours \cup {[at |-> Work, id |-> Fresh, by |-> "magic"]}
        /\ \A b \in Backends : (Of(b))' = Of(b) /\ (Empty(b))' = Empty(b)
    BY <1>1, <1>4, OneMoreNamed DEF Backends
  <2>5. GoneInv'
    BY <2>1, <2>4 DEF GoneInv, Backends
  <2>6. run'.at = "first-save"
    BY <1>1, <1>4 DEF Goes, Runs
  <2>7. \A m \in Ours' : m.by = "magic" /\ m.at = Work
    BY <2>1, <2>4
  <2>8. AtFirstSave'
    BY <1>2, <2>1, <2>4, <2>7 DEF AtFirstSave, MagicOnly, Only, Backends
  <2> QED BY <1>2, <2>3, <2>4, <2>5, <2>6, <2>8, Lands DEF Kept, WorldInv
<1> QED BY <1>3, <1>4 DEF MountWork

LEMMA SaveWorkKept ==
    ASSUME JournalsInv, RouteInv, Kept, SaveWork
    PROVE  Kept'
<1>1. /\ UNCHANGED <<boot, mounts, claimed, registered, leaked>>
      /\ run.at = "first-save" /\ run \in Runs /\ Shape /\ Unique
      /\ run.op = "mount" /\ run.of = "magic" /\ claimed /\ AtFirstSave
      /\ LayInv /\ RefInv /\ Work \in Places /\ run.done = <<>> /\ Attached(mounts, <<Work>>)
  BY JournalAssumption DEF SaveWork, quiet, JournalsInv, Shape, RouteInv, Kept, PassInv, WorldInv, StageInv
<1>2. Listed' = {} /\ ClaimedInv'
  BY <1>1 DEF Listed, ClaimedInv, AtFirstSave
<1>3. CASE Faulty("calls") /\ RollBack(<<[at |-> Work, reg |-> FALSE]>>) /\ UNCHANGED journal
  <2>1. PICK ds \in Seq(Attachments) : ds = <<[at |-> Work, reg |-> FALSE]>>
    BY JustWork
  <2>2. PlacesIn(ds) = {Work}
    BY <2>1, PlacesOfPaths, JustWork
  <2>3. WorldInv' /\ Ours' = Ours /\ MagicOnly' = MagicOnly
    BY <1>1, <1>2, <1>3, Frame, FrameWorld DEF Kept
  <2>4. run'.at = "roll-back" /\ run'.of = run.of /\ run'.left = Reverse(ds)
    BY <1>1, <1>3, <2>1, RouteRollsBack DEF MagicStages
  <2>5. MagicOnly' /\ \A m \in Ours' : m.by = run.of /\ m.at \in PlacesIn(ds)
    BY <1>1, <2>2, <2>3 DEF AtFirstSave, MagicOnly, Only
  <2>6. PassInv'
    BY <1>1, <1>2, <2>4, <2>5, NextIsRollBack
  <2> QED BY <1>2, <2>3, <2>6 DEF Kept
<1>4. CASE write_mount_journal("magic", <<Work>>)
           /\ run' = [run EXCEPT !.at = "walk", !.plan = MagicPlan]
  <2>1. 1 \in DOMAIN <<Work>> /\ <<Work>>[1] = Work
    OBVIOUS
  <2>2. \A m \in Seen(Work) : m.by = "magic"
    <3>1. \A m \in Seen(<<Work>>[1]) : m \in Ours
      BY <1>1, <2>1, AttachedLeads
    <3> QED BY <1>1, <2>1, <3>1 DEF AtFirstSave, MagicOnly, Only
  <2>3. <<Work>> \in Seq(Places) /\ Range(<<Work>>) = {Work} /\ "magic" \in Backends
    BY JustWork DEF Backends
  <2>4. /\ LayInv' /\ RefInv' /\ Ours' = Ours
        /\ \A c \in Backends \ {"magic"} : (Of(c))' = Of(c) /\ (Empty(c))' = Empty(c)
        /\ \A m \in Seen(Work) : Rec(m) \in (Of("magic"))'
        /\ \A K : (Only(K))' = Only(K)
    BY <1>1, <1>4, <2>2, <2>3, WrittenNames
  <2>5. MagicOnly' /\ GoneInv'
    BY <1>1, <1>2, <2>4 DEF AtFirstSave, MagicOnly, GoneInv, Backends
  <2>6. ASSUME NEW m \in Ours PROVE m.at = Work /\ Rec(m) \in (Of("magic"))'
    <3>1. m.at = Work /\ \A n \in Ours : n.by = "magic"
      BY <1>1 DEF AtFirstSave, MagicOnly, Only
    <3>2. m \in Seen(m.at)
      BY <1>1, <3>1, OwnersOf, Visible DEF Layers, Backends
    <3> QED BY <2>4, <3>1, <3>2
  <2>7. run'.at = "walk" /\ run'.plan = MagicPlan /\ run'.done = <<>>
    BY <1>1, <1>4 DEF Runs
  <2>8. Scattered(MagicPlan) /\ PlacesIn(<<>>) = {}
    BY PlansApart, NoPlaces
  <2>9. AtWalk'
    BY <1>2, <2>4, <2>5, <2>6, <2>7, <2>8 DEF AtWalk
  <2> QED BY <1>2, <2>4, <2>5, <2>7, <2>9, Lands DEF Kept, WorldInv
<1> QED BY <1>3, <1>4 DEF SaveWork

LEMMA WalkKept ==
    ASSUME JournalsInv, RouteInv, Kept, WalkOn
    PROVE  Kept'
<1> DEFINE p == Head(run.plan)
           did == Did(p, FALSE)
           rest == Tail(run.plan)
<1>1. /\ UNCHANGED <<boot, journal, claimed, registered, leaked>>
      /\ run.at = "walk" /\ run \in Runs /\ Shape /\ Bounded /\ run.plan # <<>> /\ run.plan \in Seq(Places)
      /\ run.op = "mount" /\ claimed /\ AtWalk /\ LayInv /\ RefInv
      /\ Range(run.plan) \subseteq Range(MagicPlan)
      /\ run.done \in Seq(Attachments)
  BY DEF WalkOn, quiet, JournalsInv, Shape, RouteInv, Kept, PassInv, WorldInv, StageInv, Runs
<1>2. /\ p \in Places /\ p \in Range(run.plan) /\ rest \in Seq(Places)
      /\ Range(run.plan) = {p} \cup Range(rest)
      /\ Scattered(rest) /\ \A q \in Range(rest) : Unrelated(p, q)
  BY <1>1, TailOf, ScatteredTail DEF AtWalk
<1>3. /\ \A q \in PlacesIn(run.done), r \in Range(run.plan) : Unrelated(q, r)
      /\ MagicOnly /\ Listed = {}
      /\ \A m \in Ours : m.at \in PlacesIn(run.done) \/ (m.at = Work /\ Rec(m) \in Of("magic"))
  BY <1>1 DEF AtWalk
<1>4. Listed' = {} /\ ClaimedInv'
  BY <1>1, <1>3 DEF Listed, ClaimedInv
<1>5. PlacesIn(did) = PlacesIn(run.done) \cup {p}
  BY <1>1, <1>2, PlacesNoted
<1>6. \/ Attach(p, "magic") /\ run' = [Onward EXCEPT !.done = did]
      \/ Attach(p, "magic") /\ run' = [run EXCEPT !.at = "save", !.ok = FALSE, !.done = did]
      \/ Fails("save") /\ UNCHANGED mounts
  BY DEF WalkOn
<1>7. Onward = [run EXCEPT !.plan = rest]
  BY DEF Onward
<1> HIDE DEF p, did, rest
<1>8. CASE Attach(p, "magic") /\ (run' = [Onward EXCEPT !.done = did]
             \/ run' = [run EXCEPT !.at = "save", !.ok = FALSE, !.done = did])
  <2>1. \A m \in mounts : m.by \notin Layers
    BY <1>1, <1>3, OwnersOf DEF Layers, Backends, MagicOnly, Only
  <2>2. \A m \in Ours : Apart(p, m.at)
    <3>1. p \in Range(MagicPlan)
      BY <1>1, <1>2
    <3>2. Unrelated(p, Work)
      BY <3>1, PlansApart
    <3> QED BY <1>2, <1>3, <3>2 DEF Apart, Unrelated
  <2>3. LayInv'
    BY <1>1, <1>2, <1>8, <2>1, <2>2, OneMoreLaid DEF Backends
  <2>4. /\ RefInv' /\ Ours' = Ours \cup {[at |-> p, id |-> Fresh, by |-> "magic"]}
        /\ \A b \in Backends : (Of(b))' = Of(b) /\ (Empty(b))' = Empty(b)
    BY <1>1, <1>2, <1>8, OneMoreNamed DEF Backends
  <2>5. GoneInv'
    BY <1>4, <2>4 DEF GoneInv
  <2>6. MagicOnly'
    BY <1>3, <2>4 DEF MagicOnly, Only, Backends
  <2>7. \A m \in Ours' : m.at \in PlacesIn(did) \/ (m.at = Work /\ Rec(m) \in (Of("magic"))')
    BY <1>3, <1>5, <2>4 DEF Backends
  <2>8. /\ run'.at \in {"walk", "save"} /\ run'.done = did
        /\ run'.at = "walk" => run'.plan = rest
    BY <1>1, <1>7, <1>8 DEF Runs
  <2>9. \A q \in PlacesIn(did), r \in Range(rest) : Unrelated(q, r)
    BY <1>2, <1>3, <1>5
  <2>10. AtWalk'
    BY <1>2, <1>4, <2>6, <2>7, <2>8, <2>9 DEF AtWalk
  <2> QED BY <1>4, <2>3, <2>4, <2>5, <2>8, <2>10, Lands DEF Kept, WorldInv
<1>9. CASE Fails("save") /\ UNCHANGED mounts
  <2>1. /\ Ours' = Ours /\ MagicOnly' = MagicOnly /\ \A b \in Backends : (Of(b))' = Of(b)
    BY <1>1, <1>9, Frame
  <2>2. WorldInv'
    BY <1>1, <1>4, <1>9, FrameWorld DEF Kept
  <2>3. run'.at = "save" /\ run'.done = run.done
    BY <1>1, <1>9 DEF Fails, Runs
  <2>4. AtWalk'
    BY <1>3, <1>4, <2>1, <2>3 DEF AtWalk, Backends
  <2> QED BY <1>4, <2>2, <2>3, <2>4, Lands DEF Kept
<1> QED BY <1>6, <1>8, <1>9

LEMMA SaveMountsKept ==
    ASSUME JournalsInv, RouteInv, Kept, SaveMounts
    PROVE  Kept'
<1> DEFINE committed == Did(Work, FALSE)
           qs == PathsOf(committed)
           ps == PathsOf(run.done)
<1>1. /\ UNCHANGED <<boot, mounts, claimed, registered, leaked>>
      /\ run.at \in {"walk", "save"} /\ run \in Runs /\ Shape /\ Unique
      /\ run.op = "mount" /\ run.of = "magic" /\ claimed /\ AtWalk /\ LayInv /\ RefInv
      /\ Attached(mounts, <<Work>> \o ps) /\ Work \in Places
  BY JournalAssumption DEF SaveMounts, quiet, JournalsInv, Shape, RouteInv, Kept, PassInv, WorldInv, StageInv
<1>2. /\ MagicOnly /\ Listed = {}
      /\ \A m \in Ours : m.at \in PlacesIn(run.done) \/ (m.at = Work /\ Rec(m) \in Of("magic"))
  BY <1>1 DEF AtWalk
<1>3. Listed' = {} /\ ClaimedInv'
  BY <1>1, <1>2 DEF Listed, ClaimedInv
<1>4. /\ committed \in Seq(Attachments) /\ qs \in Seq(Places)
      /\ PlacesIn(committed) = PlacesIn(run.done) \cup {Work}
      /\ Range(qs) = PlacesIn(committed)
  <2>1. committed \in Seq(Attachments)
    BY <1>1, Noted
  <2>2. qs \in Seq(Places)
    BY <2>1, PathsAre, AttachmentsAre
  <2>3. PlacesIn(committed) = PlacesIn(run.done) \cup {Work}
    BY <1>1, PlacesNoted
  <2> QED BY <2>1, <2>2, <2>3, PlacesOfPaths
<1>5. \A m \in Ours : m.at \in PlacesIn(committed)
  BY <1>2, <1>4
<1>6. \/ /\ write_mount_journal("magic", qs)
         /\ run' = [run EXCEPT !.at = "register", !.done = committed]
      \/ RollBack(committed) /\ UNCHANGED journal
  BY DEF SaveMounts
<1> HIDE DEF committed, qs
<1>7. CASE /\ write_mount_journal("magic", qs)
           /\ run' = [run EXCEPT !.at = "register", !.done = committed]
  <2>1. \A q \in Range(qs) : \A m \in Seen(q) : m.by = "magic"
    <3> SUFFICES ASSUME NEW q \in Range(qs), NEW m \in Seen(q) PROVE m.by = "magic"
      OBVIOUS
    <3>1. /\ <<Work>> \o ps \in Seq(Places) /\ Len(<<Work>> \o ps) = 1 + Len(ps) /\ Len(ps) \in Nat
          /\ \A i \in 1 .. 1 + Len(ps) : (<<Work>> \o ps)[i] = IF i <= 1 THEN <<Work>>[i] ELSE ps[i - 1]
          /\ DOMAIN ps = 1 .. Len(ps)
      <4>1. ps \in Seq(Places)
        BY <1>1, Noted
      <4> QED BY <4>1, JustWork, ConcatProperties
    <3>2. \E i \in DOMAIN (<<Work>> \o ps) : (<<Work>> \o ps)[i] = q
      <4>1. CASE q = Work
        <5>1. 1 \in DOMAIN (<<Work>> \o ps) /\ (<<Work>> \o ps)[1] = Work
          BY <3>1
        <5> QED BY <4>1, <5>1
      <4>2. CASE q \in PlacesIn(run.done)
        <5>1. PICK i \in DOMAIN ps : ps[i] = q
          BY <4>2, PlacesOfPaths DEF Range
        <5>2. i + 1 \in DOMAIN (<<Work>> \o ps) /\ (<<Work>> \o ps)[i + 1] = ps[i]
          BY <3>1
        <5> QED BY <5>1, <5>2
      <4> QED BY <1>4, <4>1, <4>2
    <3>3. m \in Ours
      BY <1>1, <3>2, AttachedLeads
    <3> QED BY <1>2, <3>3 DEF MagicOnly, Only
  <2>2. /\ LayInv' /\ RefInv' /\ Ours' = Ours
        /\ \A c \in Backends \ {"magic"} : (Of(c))' = Of(c) /\ (Empty(c))' = Empty(c)
        /\ PlacesIn((read_mount_journal("magic"))') = Range(qs)
        /\ \A q \in Range(qs) : \A m \in Seen(q) : Rec(m) \in (Of("magic"))'
        /\ \A K : (Only(K))' = Only(K)
    BY <1>1, <1>4, <1>7, <2>1, WrittenNames DEF Backends
  <2>3. MagicOnly' /\ GoneInv'
    BY <1>2, <1>3, <2>2 DEF MagicOnly, GoneInv, Backends
  <2>4. AllNamed'
    <3> SUFFICES ASSUME NEW m \in Ours PROVE Rec(m) \in (Of(m.by))'
      BY <2>2 DEF AllNamed
    <3>1. m.by = "magic" /\ \A n \in Ours : n.by = "magic"
      BY <1>2 DEF MagicOnly, Only
    <3>2. m \in Seen(m.at)
      BY <1>1, <3>1, OwnersOf, Visible DEF Layers, Backends
    <3>3. m.at \in Range(qs)
      BY <1>4, <1>5
    <3>4. Rec(m) \in (Of("magic"))'
      BY <2>2, <3>2, <3>3
    <3> QED BY <3>1, <3>4
  <2>5. run'.at = "register" /\ run'.done = committed
    BY <1>1, <1>7 DEF Runs
  <2>6. AtRegister'
    BY <1>3, <1>4, <2>2, <2>3, <2>4, <2>5 DEF AtRegister
  <2> QED BY <1>3, <2>2, <2>3, <2>5, <2>6, Lands DEF Kept, WorldInv
<1>8. CASE RollBack(committed) /\ UNCHANGED journal
  <2>1. WorldInv' /\ Ours' = Ours /\ MagicOnly' = MagicOnly
    BY <1>1, <1>3, <1>8, Frame, FrameWorld DEF Kept
  <2>2. run'.at = "roll-back" /\ run'.of = run.of /\ run'.left = Reverse(committed)
    BY <1>1, <1>4, <1>8, RouteRollsBack DEF MagicStages
  <2>3. MagicOnly' /\ \A m \in Ours' : m.by = run.of /\ m.at \in PlacesIn(committed)
    BY <1>1, <1>2, <1>5, <2>1 DEF MagicOnly, Only
  <2>4. PassInv'
    BY <1>1, <1>3, <1>4, <2>2, <2>3, NextIsRollBack
  <2> QED BY <1>3, <2>1, <2>4 DEF Kept
<1> QED BY <1>6, <1>7, <1>8

LEMMA RegisterKept ==
    ASSUME JournalsInv, RouteInv, Kept, RegisterMounts
    PROVE  Kept'
<1>1. /\ UNCHANGED <<boot, mounts, journal, claimed, leaked>>
      /\ run.at = "register" /\ run \in Runs /\ Shape
      /\ run.op = "mount" /\ run.of = "magic" /\ claimed /\ AtRegister
      /\ LayInv /\ RefInv
  BY DEF RegisterMounts, quiet, JournalsInv, Shape, RouteInv, Kept, PassInv, WorldInv
<1>2. /\ MagicOnly /\ Listed = {} /\ AllNamed
      /\ PlacesIn(run.done) \subseteq PlacesIn(read_mount_journal("magic"))
  BY <1>1 DEF AtRegister
<1>3. /\ MagicOnly' /\ AllNamed' /\ ByJournals' = ByJournals
      /\ \A b \in {"mirror", "overlay"} : AllThere(b)
  BY <1>1, <1>2, Frame DEF MagicOnly, Empty, AllThere
<1>4. PICK paths \in SUBSET Range(PathsOf(run.done)) :
        /\ registered' = registered \cup paths
        /\ Over(TRUE) \/ run' = [NoRun EXCEPT !.op = "undo", !.at = "read", !.all = run.all]
  BY DEF RegisterMounts
<1>5. Listed' \subseteq ByJournals'
  <2>1. Listed' \subseteq Listed \cup paths
    BY <1>1, <1>4 DEF Listed
  <2>2. paths \subseteq PlacesIn(read_mount_journal("magic"))
    BY <1>2, <1>4, PlacesOfPaths
  <2>3. PlacesIn(read_mount_journal("magic")) \subseteq ByJournals
    BY DEF ByJournals, Backends
  <2> QED BY <1>2, <1>3, <2>1, <2>2, <2>3
<1>6. WorldInv'
  BY <1>1, <1>3, FrameWorld DEF Kept
<1>7. ClaimedInv'
  BY <1>1 DEF ClaimedInv
<1>8. CASE Over(TRUE)
  <2>1. run' = Start("mount", "setup", "mirror", run.all /\ TRUE)
    BY <1>1, <1>8, OverTo
  <2> QED BY <1>3, <1>5, <1>6, <1>7, <2>1, NextIsMirror DEF Kept
<1>9. CASE run' = [NoRun EXCEPT !.op = "undo", !.at = "read", !.all = run.all]
  <2>1. run'.at = "read" /\ run'.op = "undo" /\ run'.of = "magic"
    BY <1>9 DEF NoRun
  <2>2. (Only({"magic", "mirror"}))'
    BY <1>3 DEF MagicOnly, Only
  <2>3. AtTeardown'
    BY <1>3, <1>5, <2>1, <2>2 DEF AtTeardown
  <2> QED BY <1>6, <1>7, <2>1, <2>3, Lands DEF Kept
<1> QED BY <1>4, <1>8, <1>9

-------------------------------------------------------------------------------
\* The mirror.

LEMMA EmptyMeans ==
    ASSUME NEW b, Empty(b)
    PROVE  Of(b) = {} /\ AllThere(b) /\ PlacesIn(read_mount_journal(b)) = {}
BY PlacesOfRange DEF Empty, AllThere, Of

LEMMA MirrorStage ==
    ASSUME JournalsInv, RouteInv, Kept, run.at \in {"setup", "finalize", "record"}
    PROVE  /\ run \in Runs /\ Shape /\ Unique /\ Bounded /\ LayInv /\ RefInv
           /\ run.op = "mount" /\ run.of = "mirror" /\ claimed /\ ClaimedInv
           /\ Only({"magic", "mirror"}) /\ Empty("mirror") /\ Empty("overlay")
           /\ \A m \in Ours : Rec(m) \in Of("magic") \/ (m.by = "mirror" /\ m.at \in PlacesIn(run.done))
           /\ Listed \subseteq ByJournals \cup (IF run.at = "record" THEN RegisteredIn(run.done) ELSE {})
           /\ run.done \in Seq(Attachments) /\ Attached(mounts, PathsOf(run.done))
           /\ \A i \in DOMAIN run.done : i \in DOMAIN Mirrors /\ run.done[i].at = Mirrors[i]
           /\ \A m \in mounts : m.by \notin Layers
<1>1. AtMirror
  BY DEF Kept, PassInv
<1>2. Shape /\ run \in Runs
  BY DEF JournalsInv, Shape
<1>3. \A m \in mounts : m.by \notin Layers
  BY <1>1, <1>2, OwnersOf DEF AtMirror, Only, Layers, Backends
<1>4. run.done \in Seq(Attachments)
  BY <1>2 DEF Runs
<1> QED BY <1>1, <1>2, <1>3, <1>4 DEF JournalsInv, StageInv, RouteInv, Kept, WorldInv, AtMirror

LEMMA MirrorRollsBack ==
    ASSUME JournalsInv, RouteInv, Kept, run.at \in {"setup", "finalize", "record"},
           NEW ds \in Seq(Attachments), RollBack(ds), PlacesIn(ds) = PlacesIn(run.done),
           UNCHANGED <<boot, mounts, journal, claimed>>,
           Listed' \subseteq ByJournals \cup RegisteredIn(ds)
    PROVE  Kept'
<1>1. /\ Shape /\ run.of = "mirror" /\ claimed
      /\ Only({"magic", "mirror"}) /\ Empty("mirror") /\ Empty("overlay")
      /\ \A m \in Ours : Rec(m) \in Of("magic") \/ (m.by = "mirror" /\ m.at \in PlacesIn(run.done))
  BY MirrorStage
<1>2. /\ Ours' = Ours /\ ByJournals' = ByJournals
      /\ \A b \in Backends : (Of(b))' = Of(b) /\ (Empty(b))' = Empty(b)
      /\ \A K : (Only(K))' = Only(K)
  BY Frame
<1>3. WorldInv'
  BY <1>1, EmptyMeans, FrameWorld DEF Kept
<1>4. ClaimedInv'
  BY <1>1 DEF ClaimedInv
<1>5. run'.at = "roll-back" /\ run'.of = run.of /\ run'.left = Reverse(ds)
  BY <1>1, RouteRollsBack DEF MirrorStages
<1>6. \A m \in Ours' : Rec(m) \in (Of(m.by))' \/ (m.by = run.of /\ m.at \in PlacesIn(ds))
  <2> SUFFICES ASSUME NEW m \in Ours, Rec(m) \in Of("magic") PROVE Rec(m) \in (Of(m.by))'
    BY <1>1, <1>2
  <2>1. m.by = "magic"
    BY NamedBy DEF Kept, WorldInv, Ours, Backends
  <2>2. Rec(m) \in (Of("magic"))'
    BY <1>2 DEF Backends
  <2> QED BY <2>1, <2>2
<1>7. (Only({"magic", "mirror"}))' /\ (Empty("mirror"))' /\ (Empty("overlay"))'
  BY <1>1, <1>2 DEF Backends
<1>8. PassInv'
  BY <1>1, <1>2, <1>5, <1>6, <1>7, NextIsRollBack
<1> QED BY <1>3, <1>4, <1>8 DEF Kept

LEMMA AttachMirrorKept ==
    ASSUME JournalsInv, RouteInv, Kept, AttachMirror
    PROVE  Kept'
<1> DEFINE n == Len(run.done) + 1
           p == Mirrors[n]
           did == Did(p, FALSE)
<1>1. UNCHANGED <<boot, journal, claimed, registered, leaked>> /\ run.at = "setup"
  BY DEF AttachMirror, quiet
<1>2. /\ run \in Runs /\ Shape /\ Bounded /\ LayInv /\ RefInv /\ claimed
      /\ Only({"magic", "mirror"}) /\ Empty("mirror") /\ Empty("overlay")
      /\ \A m \in Ours : Rec(m) \in Of("magic") \/ (m.by = "mirror" /\ m.at \in PlacesIn(run.done))
      /\ Listed \subseteq ByJournals
      /\ run.done \in Seq(Attachments)
      /\ \A i \in DOMAIN run.done : i \in DOMAIN Mirrors /\ run.done[i].at = Mirrors[i]
      /\ \A m \in mounts : m.by \notin Layers
  BY <1>1, MirrorStage
<1>3. n \in DOMAIN Mirrors /\ Mirrors \in Seq(Places) /\ DOMAIN run.done = 1 .. Len(run.done)
      /\ Len(run.done) \in Nat
  <2>1. Len(run.done) < Len(Mirrors) /\ Mirrors \in Seq(Places) /\ Len(run.done) \in Nat /\ Len(Mirrors) \in Nat
    BY <1>1, <1>2, JournalAssumption DEF JournalsInv, StageInv
  <2> QED BY <1>2, <2>1
<1>4. p \in Places /\ p \in Range(Mirrors) /\ \A q \in PlacesIn(run.done) : Unrelated(p, q)
  <2>1. \A i \in DOMAIN run.done : i # n
    BY <1>3
  <2>2. \A i \in DOMAIN run.done : Unrelated(p, Mirrors[i])
    BY <1>2, <1>3, <2>1, PlansApart DEF Scattered
  <2> QED BY <1>2, <1>3, <2>2 DEF PlacesIn, Range
<1>5. Listed' = Listed /\ ClaimedInv'
  BY <1>1, <1>2 DEF Listed, ClaimedInv
<1>6. PlacesIn(did) = PlacesIn(run.done) \cup {p}
  BY <1>2, <1>4, PlacesNoted
<1>7. \/ Attach(p, "mirror")
         /\ run' = [run EXCEPT !.done = did, !.at = IF n = Len(Mirrors) THEN "finalize" ELSE @]
      \/ RollBack(run.done) /\ UNCHANGED mounts
  BY DEF AttachMirror
<1> HIDE DEF n, p, did
<1>8. CASE Attach(p, "mirror")
           /\ run' = [run EXCEPT !.done = did, !.at = IF n = Len(Mirrors) THEN "finalize" ELSE @]
  <2>1. \A m \in Ours : Apart(p, m.at)
    <3> SUFFICES ASSUME NEW m \in Ours PROVE Unrelated(p, m.at)
      BY DEF Apart, Unrelated
    <3>1. CASE m.by = "magic"
      <4>1. m.at \in {Work} \cup Range(MagicPlan)
        BY <1>2, <3>1 DEF LayInv, Ours
      <4>2. Unrelated(m.at, p)
        BY <1>4, <4>1, PlansApart
      <4> QED BY <4>2 DEF Unrelated
    <3>2. CASE m.by # "magic"
      <4>1. Rec(m) \notin Of("magic")
        BY <1>2, <3>2, NamedBy DEF Ours, Backends
      <4> QED BY <1>2, <1>4, <4>1
    <3> QED BY <3>1, <3>2
  <2>2. LayInv'
    BY <1>2, <1>4, <1>8, <2>1, OneMoreLaid DEF Backends
  <2>3. /\ RefInv' /\ Ours' = Ours \cup {[at |-> p, id |-> Fresh, by |-> "mirror"]}
        /\ \A b \in Backends : (Of(b))' = Of(b) /\ (Empty(b))' = Empty(b)
        /\ ByJournals' = ByJournals
    BY <1>1, <1>2, <1>4, <1>8, OneMoreNamed DEF Backends
  <2>4. (Empty("mirror"))' /\ (Empty("overlay"))' /\ (Of("magic"))' = Of("magic")
    BY <1>2, <2>3 DEF Backends
  <2>5. GoneInv'
    BY <2>4, EmptyMeans DEF GoneInv, Empty
  <2>6. (Only({"magic", "mirror"}))'
    BY <1>2, <2>3 DEF Only
  <2>7. \A m \in Ours' : Rec(m) \in (Of("magic"))' \/ (m.by = "mirror" /\ m.at \in PlacesIn(did))
    BY <1>2, <1>6, <2>3, <2>4
  <2>8. run'.at \in {"setup", "finalize"} /\ run'.done = did
    BY <1>1, <1>2, <1>8 DEF Runs
  <2>9. AtMirror'
    BY <1>2, <1>5, <2>3, <2>4, <2>6, <2>7, <2>8 DEF AtMirror
  <2> QED BY <1>5, <2>2, <2>3, <2>5, <2>8, <2>9, Lands DEF Kept, WorldInv
<1>9. CASE RollBack(run.done) /\ UNCHANGED mounts
  <2>1. Listed' \subseteq ByJournals \cup RegisteredIn(run.done)
    BY <1>2, <1>5
  <2> QED BY <1>1, <1>2, <1>9, <2>1, MirrorRollsBack
<1> QED BY <1>7, <1>8, <1>9

\* All of the mirror is attached.
LEMMA AllOfMirror ==
    ASSUME JournalsInv, RouteInv, Kept, run.at \in {"finalize", "record"}
    PROVE  DOMAIN run.done = DOMAIN Mirrors /\ PlacesIn(run.done) = Range(Mirrors)
<1>1. /\ \A i \in DOMAIN run.done : i \in DOMAIN Mirrors /\ run.done[i].at = Mirrors[i]
      /\ run.done \in Seq(Attachments)
  BY MirrorStage
<1>2. Len(run.done) = Len(Mirrors) /\ Mirrors \in Seq(Places)
  BY JournalAssumption DEF JournalsInv, StageInv
<1>3. DOMAIN run.done = DOMAIN Mirrors
  BY <1>1, <1>2
<1> QED BY <1>1, <1>3 DEF PlacesIn, Range

LEMMA FinalizeKept ==
    ASSUME JournalsInv, RouteInv, Kept, FinalizeMirror
    PROVE  Kept'
<1>1. UNCHANGED <<boot, mounts, journal, claimed, leaked>> /\ run.at = "finalize"
  BY DEF FinalizeMirror, quiet
<1>2. /\ run \in Runs /\ Shape /\ claimed
      /\ Only({"magic", "mirror"}) /\ Empty("mirror") /\ Empty("overlay")
      /\ \A m \in Ours : Rec(m) \in Of("magic") \/ (m.by = "mirror" /\ m.at \in PlacesIn(run.done))
      /\ Listed \subseteq ByJournals
      /\ run.done \in Seq(Attachments)
  BY <1>1, MirrorStage
<1>3. DOMAIN run.done = DOMAIN Mirrors /\ PlacesIn(run.done) = Range(Mirrors)
      /\ \A i \in DOMAIN run.done : run.done[i].at = Mirrors[i] /\ run.done[i] \in Attachments
  BY <1>1, <1>2, AllOfMirror, MirrorStage
<1> DEFINE ds == run.done
\* Registered or not, the places are the same.
<1>4. ASSUME NEW f, NEW es, es = [i \in DOMAIN ds |-> [ds[i] EXCEPT !.reg = f[i]]],
             \A i \in DOMAIN ds : f[i] \in BOOLEAN
      PROVE  /\ es \in Seq(Attachments) /\ PlacesIn(es) = PlacesIn(ds)
             /\ RegisteredIn(es) = {Mirrors[i] : i \in {j \in DOMAIN Mirrors : f[j]}}
  <2>1. ds \in Seq(Attachments)
    BY <1>2
  <2>2. DOMAIN es = DOMAIN ds /\ es \in Seq(Attachments) /\ PathsOf(es) = PathsOf(ds)
    <3> HIDE DEF ds
    <3> QED BY <1>4, <2>1, SamePlaces
  <2>3. ASSUME NEW i \in DOMAIN ds PROVE es[i].at = Mirrors[i] /\ es[i].reg = f[i]
    <3>1. es[i] = [ds[i] EXCEPT !.reg = f[i]] /\ ds[i] \in Attachments /\ ds[i].at = Mirrors[i]
      BY <1>3, <1>4
    <3> QED BY <3>1 DEF Attachments
  <2>4. PlacesIn(es) = PlacesIn(ds)
    BY <2>2, PlacesOfPaths
  <2>5. DOMAIN es = DOMAIN Mirrors
    BY <1>3, <2>2
  <2>6. RegisteredIn(es) = {Mirrors[i] : i \in {j \in DOMAIN Mirrors : f[j]}}
    <3> HIDE DEF ds
    <3>1. \A i \in DOMAIN Mirrors : es[i].at = Mirrors[i] /\ es[i].reg = f[i]
      BY <2>2, <2>3, <2>5
    <3> QED BY <2>5, <3>1 DEF RegisteredIn
  <2> QED BY <2>2, <2>4, <2>6
<1>5. CASE /\ registered' = registered \cup Range(Mirrors)
           /\ run' = [run EXCEPT !.at = "record", !.done = [i \in DOMAIN @ |-> [@[i] EXCEPT !.reg = TRUE]]]
  <2>1. PICK f : f = [i \in DOMAIN ds |-> TRUE]
    OBVIOUS
  <2>2. PICK es : es = [i \in DOMAIN ds |-> [ds[i] EXCEPT !.reg = TRUE]]
    OBVIOUS
  <2>3. \A i \in DOMAIN ds : f[i] = TRUE
    BY <2>1
  <2>4. es = [i \in DOMAIN ds |-> [ds[i] EXCEPT !.reg = f[i]]]
    BY <2>2, <2>3
  <2>5. /\ es \in Seq(Attachments) /\ PlacesIn(es) = PlacesIn(ds)
        /\ RegisteredIn(es) = {Mirrors[i] : i \in {j \in DOMAIN Mirrors : f[j]}}
    BY <1>4, <2>3, <2>4
  <2>6. RegisteredIn(es) = Range(Mirrors)
    BY <1>3, <2>3, <2>5 DEF Range
  <2>7. run' = [run EXCEPT !.at = "record", !.done = es]
    BY <1>2, <1>5, <2>2 DEF Runs
  <2>8. run'.at = "record" /\ run'.done = es
    BY <1>2, <2>5, <2>7 DEF Runs
  <2>9. /\ Ours' = Ours /\ ByJournals' = ByJournals
        /\ (Of("magic"))' = Of("magic") /\ (Empty("mirror"))' /\ (Empty("overlay"))'
        /\ (Only({"magic", "mirror"}))'
    BY <1>1, <1>2, Frame DEF Backends
  <2>10. Listed' \subseteq ByJournals \cup RegisteredIn(es)
    BY <1>1, <1>2, <1>5, <2>6 DEF Listed
  <2>11. \A m \in Ours' : Rec(m) \in (Of("magic"))' \/ (m.by = "mirror" /\ m.at \in PlacesIn(es))
    BY <1>2, <2>5, <2>9
  <2>12. AtMirror'
    BY <2>8, <2>9, <2>10, <2>11 DEF AtMirror
  <2>13. WorldInv'
    BY <1>1, <1>2, EmptyMeans, FrameWorld DEF Kept
  <2>14. ClaimedInv'
    BY <1>1, <1>2 DEF ClaimedInv
  <2> QED BY <2>8, <2>12, <2>13, <2>14, Lands DEF Kept
<1>6. ASSUME NEW k \in DOMAIN Mirrors,
             registered' = registered \cup {Mirrors[i] : i \in {j \in DOMAIN Mirrors : j > k}},
             RollBack([i \in DOMAIN run.done |-> [run.done[i] EXCEPT !.reg = i > k]])
      PROVE  Kept'
  <2>1. PICK f : f = [i \in DOMAIN ds |-> i > k]
    OBVIOUS
  <2>2. PICK es : es = [i \in DOMAIN ds |-> [ds[i] EXCEPT !.reg = i > k]]
    OBVIOUS
  <2>3. \A i \in DOMAIN ds : f[i] = (i > k)
    BY <2>1
  <2>4. es = [i \in DOMAIN ds |-> [ds[i] EXCEPT !.reg = f[i]]]
    BY <2>2, <2>3
  <2>5. ASSUME NEW i \in DOMAIN ds PROVE f[i] \in BOOLEAN
    <3>1. f[i] = (i > k)
      BY <2>3
    <3>2. (i > k) \in BOOLEAN
      OBVIOUS
    <3> QED BY <3>1, <3>2
  <2>6. /\ es \in Seq(Attachments) /\ PlacesIn(es) = PlacesIn(ds)
        /\ RegisteredIn(es) = {Mirrors[i] : i \in {j \in DOMAIN Mirrors : f[j]}}
    BY <1>4, <2>4, <2>5
  <2>7. {j \in DOMAIN Mirrors : f[j]} = {j \in DOMAIN Mirrors : j > k}
    BY <1>3, <2>3
  <2>8. Listed' \subseteq ByJournals \cup RegisteredIn(es)
    BY <1>1, <1>2, <1>6, <2>6, <2>7 DEF Listed
  <2>9. RollBack(es)
    BY <1>6, <2>2
  <2> QED BY <1>1, <2>6, <2>8, <2>9, MirrorRollsBack
<1> QED BY <1>5, <1>6 DEF FinalizeMirror

LEMMA RecordKept ==
    ASSUME JournalsInv, RouteInv, Kept, RecordMirror
    PROVE  Kept'
<1>1. UNCHANGED <<boot, mounts, claimed, registered, leaked>> /\ run.at = "record"
  BY DEF RecordMirror, quiet
<1>2. /\ run \in Runs /\ Shape /\ Unique /\ claimed /\ LayInv /\ RefInv
      /\ Only({"magic", "mirror"}) /\ Empty("mirror") /\ Empty("overlay")
      /\ \A m \in Ours : Rec(m) \in Of("magic") \/ (m.by = "mirror" /\ m.at \in PlacesIn(run.done))
      /\ Listed \subseteq ByJournals \cup RegisteredIn(run.done)
      /\ run.done \in Seq(Attachments) /\ Attached(mounts, PathsOf(run.done))
      /\ \A m \in mounts : m.by \notin Layers
  BY <1>1, MirrorStage
<1>3. PlacesIn(run.done) = Range(Mirrors) /\ RegisteredIn(run.done) \subseteq PlacesIn(run.done)
  BY <1>1, AllOfMirror DEF RegisteredIn, PlacesIn
<1>4. Listed' = Listed /\ ClaimedInv'
  BY <1>1, <1>2 DEF Listed, ClaimedInv
<1>5. CASE write_mount_journal("mirror", Mirrors) /\ Goes("sync")
  <2>1. \A p \in Range(Mirrors) : \A m \in Seen(p) : m.by = "mirror"
    <3> SUFFICES ASSUME NEW p \in Range(Mirrors), NEW m \in Seen(p), m.by # "mirror" PROVE FALSE
      OBVIOUS
    <3>1. PICK i \in DOMAIN PathsOf(run.done) : PathsOf(run.done)[i] = p
      BY <1>3, PlacesOfPaths DEF Range
    <3>2. m \in Ours /\ m \in mounts /\ m.at = p
      BY <1>2, <3>1, AttachedLeads DEF Seen
    <3>3. m.by = "magic"
      BY <1>2, <3>2 DEF Only
    <3>4. p \in {Work} \cup Range(MagicPlan)
      BY <1>2, <3>2, <3>3 DEF LayInv
    <3>5. Unrelated(p, p)
      BY <3>4, PlansApart
    <3> QED BY <3>5 DEF Unrelated
  <2>2. Mirrors \in Seq(Places) /\ \A i, j \in DOMAIN Mirrors : i < j => Apart(Mirrors[j], Mirrors[i])
    <3>1. \A i, j \in DOMAIN Mirrors : i < j => Unrelated(Mirrors[i], Mirrors[j])
      BY JournalAssumption, PlansApart DEF Scattered
    <3> QED BY <3>1, JournalAssumption DEF Apart, Unrelated
  <2>3. /\ LayInv' /\ RefInv' /\ Ours' = Ours
        /\ \A c \in Backends \ {"mirror"} : /\ (read_mount_journal(c))' = read_mount_journal(c)
                                            /\ (Of(c))' = Of(c) /\ (Empty(c))' = Empty(c)
        /\ PlacesIn((read_mount_journal("mirror"))') = Range(Mirrors)
        /\ (AllThere("mirror"))'
        /\ \A p \in Range(Mirrors) : \A m \in Seen(p) : Rec(m) \in (Of("mirror"))'
        /\ \A K : (Only(K))' = Only(K)
    BY <1>1, <1>2, <1>5, <2>1, <2>2, WrittenNames DEF Backends
  <2>4. (Empty("overlay"))' /\ (Only({"magic", "mirror"}))' /\ (Of("magic"))' = Of("magic")
    BY <1>2, <2>3 DEF Backends
  <2>5. GoneInv'
    BY <2>3, <2>4 DEF GoneInv, AllThere, Empty
  <2>6. AllNamed'
    <3> SUFFICES ASSUME NEW m \in Ours PROVE Rec(m) \in (Of(m.by))'
      BY <2>3 DEF AllNamed
    <3>1. CASE Rec(m) \in Of("magic")
      <4>1. m.by = "magic"
        BY <1>2, <3>1, NamedBy DEF Ours, Backends
      <4> QED BY <2>4, <3>1, <4>1
    <3>2. CASE m.by = "mirror" /\ m.at \in PlacesIn(run.done)
      <4>1. m \in Seen(m.at)
        BY <1>2, Visible
      <4>2. Rec(m) \in (Of("mirror"))'
        BY <1>3, <2>3, <3>2, <4>1
      <4> QED BY <3>2, <4>2
    <3> QED BY <1>2, <3>1, <3>2
  <2>7. Listed' \subseteq ByJournals'
    <3> SUFFICES ASSUME NEW p \in Listed PROVE p \in ByJournals'
      BY <1>4
    <3>1. CASE p \in RegisteredIn(run.done)
      BY <1>3, <2>3, <3>1 DEF ByJournals, Backends
    <3>2. CASE p \in ByJournals
      <4>1. PICK b \in Backends : p \in PlacesIn(read_mount_journal(b))
        BY <3>2 DEF ByJournals
      <4>2. b # "mirror"
        BY <1>2, <4>1, EmptyMeans
      <4>3. p \in PlacesIn((read_mount_journal(b))')
        BY <2>3, <4>1, <4>2
      <4> QED BY <4>3 DEF ByJournals
    <3> QED BY <1>2, <3>1, <3>2
  <2>8. run'.at = "sync"
    BY <1>2, <1>5 DEF Goes, Runs
  <2>9. AtSync'
    BY <2>3, <2>4, <2>6, <2>7 DEF AtSync
  <2> QED BY <1>4, <2>3, <2>5, <2>8, <2>9, Lands DEF Kept, WorldInv
<1>6. CASE RollBack(run.done) /\ UNCHANGED journal
  BY <1>1, <1>2, <1>4, <1>6, MirrorRollsBack
<1> QED BY <1>5, <1>6 DEF RecordMirror

LEMMA SyncKept ==
    ASSUME JournalsInv, RouteInv, Kept, SyncContent
    PROVE  Kept'
<1>1. /\ UNCHANGED <<boot, mounts, journal, claimed, registered, leaked>>
      /\ run.at = "sync" /\ run \in Runs /\ Shape /\ run.op = "mount" /\ run.of = "mirror" /\ AtSync
      /\ claimed /\ LayInv
  BY DEF SyncContent, quiet, JournalsInv, Shape, RouteInv, Kept, PassInv, WorldInv
<1>2. /\ Ours' = Ours /\ Listed' = Listed /\ AllNamed' = AllNamed
      /\ ByJournals' = ByJournals
      /\ \A b \in Backends : (Of(b))' = Of(b) /\ (Empty(b))' = Empty(b) /\ (AllThere(b))' = AllThere(b)
  BY <1>1, Frame DEF Listed
<1>3. WorldInv' /\ ClaimedInv'
  BY <1>1, <1>2, FrameWorld, StillClaimed DEF Kept
<1>4. /\ Only({"magic", "mirror"}) /\ (Empty("overlay"))' /\ (AllThere("mirror"))'
      /\ AllNamed /\ AllNamed' /\ Listed \subseteq ByJournals
  BY <1>1, <1>2 DEF AtSync, Backends
<1>5. CASE run' = [run EXCEPT !.at = "leaf", !.of = "overlay", !.plan = OverlayPlan, !.done = <<>>]
  <2>1. PICK none : none = <<>> /\ none \in Seq(Attachments)
    BY EmptyPaths
  <2>2. run' = [run EXCEPT !.at = "leaf", !.of = "overlay", !.plan = OverlayPlan, !.done = none]
    BY <1>5, <2>1
  <2>3. run'.at = "leaf" /\ run'.plan = OverlayPlan /\ run'.done = none
    BY <1>1, <2>2 DEF Runs
  <2>4. PlacesIn(none) = {} /\ RegisteredIn(none) = {} /\ InOrder(none) /\ Scattered(OverlayPlan)
    BY <2>1, NoPlaces, PlansApart
  <2>5. \A m \in mounts' : m.by \notin Layers
    BY <1>1, <1>4, OwnersOf DEF Only, Layers, Backends
  <2>6. \A m \in Ours' : Rec(m) \in (Of(m.by))'
    <3> SUFFICES ASSUME NEW m \in Ours PROVE Rec(m) \in (Of(m.by))'
      BY <1>2
    <3>1. m.by # "bind" /\ m.by \in Backends
      BY <1>4 DEF Only, Backends
    <3>2. Rec(m) \in Of(m.by)
      BY <1>4, <3>1 DEF AllNamed
    <3> QED BY <1>2, <3>1, <3>2
  <2>7. (Layered(none))'
    BY <2>4, <2>5 DEF Layered
  <2>8. AtLeaf'
    BY <1>2, <1>4, <2>1, <2>3, <2>4, <2>5, <2>6, <2>7 DEF AtLeaf
  <2> QED BY <1>3, <2>3, <2>8, Lands DEF Kept
<1>6. CASE Over(FALSE)
  <2>1. run' = Start("mount", "idle", "magic", run.all /\ FALSE)
    BY <1>1, <1>6, OverTo
  <2> QED BY <1>2, <1>3, <1>4, <2>1, NextIsIdle DEF Kept
<1> QED BY <1>5, <1>6 DEF SyncContent

-------------------------------------------------------------------------------
\* The overlays.

\* The ones a journal is written of lie where the registered ones do, in the same order.
LEMMA PlacesRegistered ==
    ASSUME NEW ds \in Seq(Attachments)
    PROVE  /\ PlacesIn(Registered(ds)) = RegisteredIn(ds)
           /\ InOrder(ds) => InOrder(Registered(ds))
<1> DEFINE N == Len(ds)
           Upto(n) == {ds[i].at : i \in {j \in 1 .. n : ds[j].reg}}
<1>1. PICK a : Gathers(a, ds)
  BY RegisteredInTurn
<1>0. /\ a[0] = <<>> /\ a[N] = Registered(ds)
      /\ \A n \in 1 .. N : a[n] = IF ds[n].reg THEN Append(a[n - 1], ds[n]) ELSE a[n - 1]
      /\ \A n \in 0 .. N : a[n] \in Seq(Attachments)
  BY <1>1 DEF Gathers
<1>2. N \in Nat /\ DOMAIN ds = 1 .. N
  OBVIOUS
<1> DEFINE G == {n \in 0 .. N : PlacesIn(a[n]) = Upto(n) /\ (InOrder(ds) => InOrder(a[n]))}
<1>3. 0 \in G
  <2>1. Upto(0) = {}
    OBVIOUS
  <2> QED BY <1>0, <1>2, <2>1, NoPlaces
<1>4. ASSUME NEW n \in 0 .. N, n \in G, n < N PROVE n + 1 \in G
  <2> DEFINE d == ds[n + 1]
  <2>1. n + 1 \in 1 .. N /\ (n + 1) - 1 = n
    BY <1>2, <1>4
  <2>2. d \in Attachments /\ a[n] \in Seq(Attachments) /\ a[n + 1] = IF d.reg THEN Append(a[n], d) ELSE a[n]
    BY <1>0, <1>2, <2>1
  <2>3. PlacesIn(a[n]) = Upto(n) /\ (InOrder(ds) => InOrder(a[n]))
    BY <1>4
  <2>4. CASE d.reg
    <3>1. Upto(n + 1) = Upto(n) \cup {d.at}
      <4>1. \A i : i \in 1 .. n + 1 <=> i \in 1 .. n \/ i = n + 1
        BY <1>2, <1>4
      <4> QED BY <2>4, <4>1
    <3>2. ASSUME InOrder(ds) PROVE \A p \in PlacesIn(a[n]) : Apart(d.at, p)
      <4> SUFFICES ASSUME NEW p \in Upto(n) PROVE Apart(d.at, p)
        BY <2>3
      <4>1. PICK i \in 1 .. n : ds[i].at = p
        OBVIOUS
      <4>2. i \in DOMAIN ds /\ n + 1 \in DOMAIN ds /\ i < n + 1
        BY <1>2, <1>4, <4>1
      <4> QED BY <3>2, <4>1, <4>2 DEF InOrder
    <3> HIDE DEF Upto, d
    <3>3. PlacesIn(a[n + 1]) = Upto(n + 1)
      BY <2>2, <2>3, <2>4, <3>1, PlacesAppended
    <3>4. InOrder(ds) => InOrder(a[n + 1])
      BY <2>2, <2>3, <2>4, <3>2, PlacesAppended
    <3> QED BY <2>1, <3>3, <3>4
  <2>5. CASE ~d.reg
    <3>1. Upto(n + 1) = Upto(n)
      <4>1. \A i : i \in 1 .. n + 1 <=> i \in 1 .. n \/ i = n + 1
        BY <1>2, <1>4
      <4> QED BY <2>5, <4>1
    <3> HIDE DEF Upto
    <3> QED BY <2>1, <2>2, <2>3, <2>5, <3>1
  <2> QED BY <2>4, <2>5
<1> HIDE DEF G
<1>5. N \in G
  <2>1. \A n \in 0 .. N : n \in G
    BY <1>2, <1>3, <1>4, UpTo
  <2> QED BY <1>2, <2>1
<1>6. RegisteredIn(ds) = Upto(N)
  BY <1>2 DEF RegisteredIn
<1> QED BY <1>0, <1>5, <1>6 DEF G

LEMMA LeafStage ==
    ASSUME JournalsInv, RouteInv, Kept, run.at \in {"leaf", "child"}
    PROVE  /\ run \in Runs /\ Shape /\ Unique /\ Bounded /\ LayInv /\ RefInv
           /\ run.op = "mount" /\ run.of = "overlay" /\ claimed /\ ClaimedInv
           /\ Empty("overlay") /\ AllThere("mirror")
           /\ \A m \in Ours : m.by \in Layers \/ Rec(m) \in Of(m.by)
           /\ \A m \in mounts : m.by \in Layers => (m.by = "overlay" <=> m.at \in RegisteredIn(run.done))
           /\ Listed \subseteq ByJournals \cup RegisteredIn(run.done)
           /\ InOrder(run.done) /\ Layered(run.done) /\ Scattered(run.plan)
           /\ \A p \in PlacesIn(run.done), q \in Coming : Unrelated(p, q)
           /\ run.at = "child" =>
                 /\ \E n \in mounts : n.by = "overlay" /\ n.at = Head(run.plan)
                 /\ \A q \in run.kids : Head(run.plan) \in Above[q]
                 /\ \A q \in run.kids, p \in PlacesIn(run.done) : Apart(q, p)
                 /\ run.plan # <<>>
           /\ run.done \in Seq(Attachments) /\ Attached(mounts, PathsOf(run.done))
           /\ run.plan \in Seq(Places) /\ run.kids \in SUBSET Places
<1>1. AtLeaf
  BY DEF Kept, PassInv
<1>2. Shape /\ run \in Runs
  BY DEF JournalsInv, Shape
<1>3. run.done \in Seq(Attachments) /\ run.plan \in Seq(Places) /\ run.kids \in SUBSET Places
  BY <1>2 DEF Runs
<1>4. run.op = "mount" /\ run.of = "overlay" /\ claimed /\ Attached(mounts, PathsOf(run.done))
      /\ (run.at = "child" => run.plan # <<>>)
  BY DEF RouteInv, JournalsInv, StageInv
<1>5. Unique /\ Bounded /\ LayInv /\ RefInv /\ ClaimedInv
  BY DEF JournalsInv, Kept, WorldInv
<1> QED BY <1>1, <1>2, <1>3, <1>4, <1>5 DEF AtLeaf

\* All that may be rolled back is what was noted.
LEMMA LeafRollsBack ==
    ASSUME JournalsInv, RouteInv, Kept, run.at \in {"leaf", "child"}, RollBack(run.done),
           UNCHANGED <<boot, mounts, journal, claimed, registered, leaked>>
    PROVE  Kept'
<1>1. /\ Shape /\ run.of = "overlay" /\ claimed /\ Empty("overlay") /\ AllThere("mirror")
      /\ \A m \in Ours : m.by \in Layers \/ Rec(m) \in Of(m.by)
      /\ Listed \subseteq ByJournals \cup RegisteredIn(run.done)
      /\ InOrder(run.done) /\ Layered(run.done) /\ run.done \in Seq(Attachments)
  BY LeafStage
<1>2. /\ Ours' = Ours /\ ByJournals' = ByJournals /\ Listed' = Listed
      /\ \A b \in Backends : (Of(b))' = Of(b) /\ (Empty(b))' = Empty(b) /\ (AllThere(b))' = AllThere(b)
  BY Frame DEF Listed
<1>3. WorldInv'
  BY <1>2, FrameWorld DEF Kept
<1>4. ClaimedInv'
  BY <1>1 DEF ClaimedInv
<1>5. run'.at = "roll-back" /\ run'.of = run.of /\ run'.left = Reverse(run.done)
  BY <1>1, RouteRollsBack DEF LeafStages
<1>6. \A m \in Ours' : \/ m.by = "bind" \/ Rec(m) \in (Of(m.by))'
                       \/ m.by = run.of /\ m.at \in PlacesIn(run.done)
  <2> SUFFICES ASSUME NEW m \in Ours, m.by # "bind", m.by \notin Layers PROVE Rec(m) \in (Of(m.by))'
    BY <1>1, <1>2 DEF Layered, Layers, Ours
  <2>1. m.by \in Backends
    BY <1>1, OwnersOf DEF Ours
  <2> QED BY <1>1, <1>2, <2>1
<1>7. (Empty("overlay"))' /\ (AllThere("mirror"))'
  BY <1>1, <1>2 DEF Backends
<1>8. \A p \in PlacesIn(run.done) : \E m \in mounts' : m.at = p /\ m.by \in Layers
  BY <1>1 DEF Layered
<1>9. PassInv'
  BY <1>1, <1>2, <1>5, <1>6, <1>7, <1>8, NextIsRollBack
<1> QED BY <1>3, <1>4, <1>9 DEF Kept

\* One overlay or bind more, noted, apart from those before it.
LEMMA OneLayerMore ==
    ASSUME JournalsInv, RouteInv, Kept, run.at \in {"leaf", "child"}, NEW p \in Places,
           NEW who \in Layers, Attach(p, who), UNCHANGED <<boot, journal, claimed>>,
           \A q \in PlacesIn(run.done) : Apart(p, q),
           who = "bind" => \E n \in mounts : n.by = "overlay" /\ n.at \in Above[p],
           NEW reg \in BOOLEAN, NEW did, did = Did(p, reg)
    PROVE  /\ WorldInv' /\ ClaimedInv' /\ (Empty("overlay"))' /\ (AllThere("mirror"))'
           /\ \A m \in Ours' : m.by \in Layers \/ Rec(m) \in (Of(m.by))'
           /\ ByJournals' = ByJournals
           /\ did \in Seq(Attachments) /\ InOrder(did) /\ (Layered(did))'
           /\ PlacesIn(did) = PlacesIn(run.done) \cup {p}
           /\ RegisteredIn(did) = RegisteredIn(run.done) \cup (IF reg THEN {p} ELSE {})
           /\ (reg <=> who = "overlay") =>
                 \A m \in mounts' : m.by \in Layers => (m.by = "overlay" <=> m.at \in RegisteredIn(did))
           /\ \E n \in mounts' : n.at = p /\ n.by = who
           /\ mounts \subseteq mounts'
<1>1. /\ Shape /\ Unique /\ Bounded /\ LayInv /\ RefInv /\ claimed /\ Empty("overlay") /\ AllThere("mirror")
      /\ \A m \in Ours : m.by \in Layers \/ Rec(m) \in Of(m.by)
      /\ \A m \in mounts : m.by \in Layers => (m.by = "overlay" <=> m.at \in RegisteredIn(run.done))
      /\ InOrder(run.done) /\ Layered(run.done)
  BY LeafStage
<1>2. who \in Backends \cup {"bind"} /\ who \in Layers /\ who # "magic" /\ who # "mirror"
  BY DEF Layers, Backends
<1>3. \A m \in Ours : m.by \in Layers => Apart(p, m.at)
  BY <1>1 DEF Layered, Ours
<1>4. LayInv'
  BY <1>1, <1>2, <1>3, OneMoreLaid
<1>5. /\ RefInv' /\ Ours' = Ours \cup {[at |-> p, id |-> Fresh, by |-> who]}
      /\ \A b \in Backends : /\ (Of(b))' = Of(b) /\ (Empty(b))' = Empty(b)
                             /\ AllThere(b) => (AllThere(b))'
      /\ ByJournals' = ByJournals
  BY <1>1, <1>2, OneMoreNamed
<1>6. (Empty("overlay"))' /\ (AllThere("mirror"))'
  BY <1>1, <1>5 DEF Backends
<1>7. WorldInv'
  BY <1>4, <1>5, <1>6 DEF WorldInv, GoneInv, AllThere, Empty
<1>8. ClaimedInv'
  BY <1>1 DEF ClaimedInv
<1>9. \A m \in Ours' : m.by \in Layers \/ Rec(m) \in (Of(m.by))'
  <2> SUFFICES ASSUME NEW m \in Ours, m.by \notin Layers PROVE Rec(m) \in (Of(m.by))'
    BY <1>2, <1>5
  <2>1. m.by \in Backends
    BY <1>1, OwnersOf DEF Ours, Layers
  <2> QED BY <1>1, <1>5, <2>1
<1>10. /\ did \in Seq(Attachments) /\ InOrder(did)
       /\ PlacesIn(did) = PlacesIn(run.done) \cup {p}
       /\ RegisteredIn(did) = RegisteredIn(run.done) \cup (IF reg THEN {p} ELSE {})
  <2>1. Did(p, reg) \in Seq(Attachments)
    BY <1>1, Noted
  <2>2. InOrder(Did(p, reg)) /\ PlacesIn(Did(p, reg)) = PlacesIn(run.done) \cup {p}
    BY <1>1, PlacesNoted
  <2>3. RegisteredIn(Did(p, reg)) = RegisteredIn(run.done) \cup (IF reg THEN {p} ELSE {})
    <3>1. CASE reg
      <4>1. reg = TRUE
        BY <3>1
      <4>2. RegisteredIn(Did(p, TRUE)) = RegisteredIn(run.done) \cup {p}
        BY <1>1, PlacesNoted
      <4> QED BY <4>1, <4>2
    <3>2. CASE ~reg
      <4>1. reg = FALSE
        BY <3>2
      <4>2. RegisteredIn(Did(p, FALSE)) = RegisteredIn(run.done)
        BY <1>1, PlacesNoted
      <4> QED BY <4>1, <4>2
    <3> QED BY <3>1, <3>2
  <2> QED BY <2>1, <2>2, <2>3
<1>11. PICK x : mounts' = mounts \cup {x} /\ x.at = p /\ x.by = who
  <2>1. PICK x : x = [at |-> p, id |-> Fresh, by |-> who]
    OBVIOUS
  <2>2. x.at = p /\ x.by = who
    BY <2>1
  <2> QED BY <2>1, <2>2 DEF Attach
<1>12. (Layered(did))'
  BY <1>1, <1>2, <1>10, <1>11 DEF Layered
<1>13. ASSUME reg <=> who = "overlay", NEW m \in mounts', m.by \in Layers
       PROVE  m.by = "overlay" <=> m.at \in RegisteredIn(did)
  <2>1. CASE m = x
    <3>1. p \notin RegisteredIn(run.done)
      <4>1. RegisteredIn(run.done) \subseteq PlacesIn(run.done)
        BY DEF RegisteredIn, PlacesIn
      <4> QED BY <4>1 DEF Apart
    <3> QED BY <1>10, <1>11, <1>13, <2>1, <3>1
  <2>2. CASE m # x
    <3>1. m \in mounts /\ m.at \in PlacesIn(run.done)
      BY <1>1, <1>11, <1>13, <2>2 DEF Layered
    <3>2. m.at # p
      BY <3>1 DEF Apart
    <3> QED BY <1>1, <1>10, <1>13, <3>1, <3>2
  <2> QED BY <2>1, <2>2
<1>14. (\E n \in mounts' : n.at = p /\ n.by = who) /\ mounts \subseteq mounts'
  BY <1>11
<1> QED BY <1>5, <1>6, <1>7, <1>8, <1>9, <1>10, <1>12, <1>13, <1>14

\* A layer that was noted as it should be leads on to the next sub-mount of the leaf.
LEMMA LayerKept ==
    ASSUME JournalsInv, RouteInv, Kept, run.at \in {"leaf", "child"}, NEW p \in Places,
           NEW who \in Layers, Attach(p, who), UNCHANGED <<boot, journal, claimed, leaked>>,
           \A q \in PlacesIn(run.done) : Apart(p, q),
           who = "bind" => \E n \in mounts : n.by = "overlay" /\ n.at \in Above[p],
           NEW reg \in BOOLEAN, reg <=> who = "overlay", NEW did, did = Did(p, reg),
           registered' \subseteq registered \cup (IF reg THEN {p} ELSE {}),
           run'.at = "child", run'.done = did, run'.plan = run.plan, run.plan # <<>>,
           \A q \in PlacesIn(run.done) \cup {p}, r \in Range(Tail(run.plan)) : Unrelated(q, r),
           \E n \in mounts' : n.by = "overlay" /\ n.at = Head(run.plan),
           \A q \in run'.kids : Head(run.plan) \in Above[q],
           \A q \in run'.kids, r \in PlacesIn(run.done) \cup {p} : Apart(q, r)
    PROVE  Kept'
<1>1. /\ WorldInv' /\ ClaimedInv' /\ (Empty("overlay"))' /\ (AllThere("mirror"))'
      /\ \A m \in Ours' : m.by \in Layers \/ Rec(m) \in (Of(m.by))'
      /\ ByJournals' = ByJournals
      /\ did \in Seq(Attachments) /\ InOrder(did) /\ (Layered(did))'
      /\ PlacesIn(did) = PlacesIn(run.done) \cup {p}
      /\ RegisteredIn(did) = RegisteredIn(run.done) \cup (IF reg THEN {p} ELSE {})
      /\ \A m \in mounts' : m.by \in Layers => (m.by = "overlay" <=> m.at \in RegisteredIn(did))
  BY OneLayerMore
<1>2. Listed \subseteq ByJournals \cup RegisteredIn(run.done) /\ Scattered(run.plan)
  BY LeafStage
<1>3. Listed' \subseteq ByJournals' \cup RegisteredIn(did)
  <2>1. Listed' \subseteq Listed \cup (IF reg THEN {p} ELSE {})
    BY DEF Listed
  <2> QED BY <1>1, <1>2, <2>1
<1>4. Coming' = Range(Tail(run.plan))
  BY DEF Coming
<1>5. \A q \in PlacesIn(did), r \in Coming' : Unrelated(q, r)
  BY <1>1, <1>4
<1>6. \A q \in run'.kids, r \in PlacesIn(did) : Apart(q, r)
  BY <1>1
<1>8. AtLeaf'
  BY <1>1, <1>2, <1>3, <1>5, <1>6 DEF AtLeaf, Layered
<1> QED BY <1>1, <1>8, Lands DEF Kept

\* One that could not be registered is rolled back with the others.
LEMMA LayerRollsBack ==
    ASSUME JournalsInv, RouteInv, Kept, run.at \in {"leaf", "child"}, NEW p \in Places,
           Attach(p, "overlay"), UNCHANGED <<boot, journal, claimed, registered, leaked>>,
           \A q \in PlacesIn(run.done) : Apart(p, q), RollBack(Did(p, FALSE))
    PROVE  Kept'
<1>1. PICK did : did = Did(p, FALSE)
  OBVIOUS
<1>2. /\ WorldInv' /\ ClaimedInv' /\ (Empty("overlay"))' /\ (AllThere("mirror"))'
      /\ \A m \in Ours' : m.by \in Layers \/ Rec(m) \in (Of(m.by))'
      /\ ByJournals' = ByJournals
      /\ did \in Seq(Attachments) /\ InOrder(did) /\ (Layered(did))'
      /\ RegisteredIn(did) = RegisteredIn(run.done) \cup (IF FALSE THEN {p} ELSE {})
  <2>1. "overlay" \in Layers /\ "overlay" # "bind" /\ FALSE \in BOOLEAN
    BY DEF Layers
  <2> HIDE DEF Layers
  <2> QED BY <1>1, <2>1, OneLayerMore
<1>3. Shape /\ run.of = "overlay" /\ Listed \subseteq ByJournals \cup RegisteredIn(run.done)
  BY LeafStage
<1>4. Listed' \subseteq ByJournals' \cup RegisteredIn(did)
  BY <1>2, <1>3 DEF Listed
<1>5. RollBack(did)
  BY <1>1
<1>6. run'.at = "roll-back" /\ run'.of = run.of /\ run'.left = Reverse(did)
  BY <1>2, <1>3, <1>5, RouteRollsBack DEF LeafStages
<1>7. \A m \in Ours' : \/ m.by = "bind" \/ Rec(m) \in (Of(m.by))'
                       \/ m.by = run.of /\ m.at \in PlacesIn(did)
  BY <1>2, <1>3 DEF Layered, Layers, Ours
<1>8. \A q \in PlacesIn(did) : \E m \in mounts' : m.at = q /\ m.by \in Layers
  BY <1>2 DEF Layered
<1>9. PassInv'
  BY <1>2, <1>3, <1>4, <1>6, <1>7, <1>8, NextIsRollBack
<1> QED BY <1>2, <1>9 DEF Kept

\* What lies below a place is apart from all the place is apart from.
LEMMA Below ==
    ASSUME NEW h \in Places, NEW q \in Places, h \in Above[q], NEW r \in Places
    PROVE  /\ Apart(q, h)
           /\ Unrelated(h, r) \/ Unrelated(r, h) => Unrelated(q, r) /\ Apart(q, r)
<1>1. h \notin Above[h] /\ Above[h] \subseteq Places /\ q \notin Above[q]
  BY TreeAssumption, JournalAssumption
<1>2. q \in Above[h] => Above[q] \subseteq Above[h]
  BY TreeAssumption
<1>3. Apart(q, h)
  BY <1>1, <1>2 DEF Apart
<1>4. ASSUME Unrelated(h, r) \/ Unrelated(r, h) PROVE Unrelated(q, r) /\ Apart(q, r)
  <2>1. h # r /\ h \notin Above[r] /\ r \notin Above[h]
    BY <1>4 DEF Unrelated
  <2>2. q # r
    BY <2>1
  <2>3. q \notin Above[r]
    <3>1. q \in Above[r] => Above[q] \subseteq Above[r]
      BY TreeAssumption
    <3> QED BY <2>1, <3>1
  <2>4. r \notin Above[q]
    <3>1. r \in Above[q] => r = h \/ r \in Above[h] \/ h \in Above[r]
      BY TreeAssumption
    <3> QED BY <2>1, <3>1
  <2> QED BY <2>2, <2>3, <2>4 DEF Unrelated, Apart
<1> QED BY <1>3, <1>4

LEMMA MountLeafKept ==
    ASSUME JournalsInv, RouteInv, Kept, MountLeaf
    PROVE  Kept'
<1> DEFINE p == Head(run.plan)
<1>1. UNCHANGED <<boot, journal, claimed, leaked>> /\ run.at = "leaf" /\ run.plan # <<>>
  BY DEF MountLeaf, quiet
<1>2. /\ run \in Runs /\ Shape /\ Scattered(run.plan) /\ run.plan \in Seq(Places)
      /\ \A q \in PlacesIn(run.done), r \in Coming : Unrelated(q, r)
      /\ run.done \in Seq(Attachments)
  BY <1>1, LeafStage
<1>3. p \in Places /\ p \in Range(run.plan) /\ Coming = Range(run.plan)
  BY <1>1, <1>2, TailOf DEF Coming
<1>4. /\ Range(run.plan) = {p} \cup Range(Tail(run.plan))
      /\ \A r \in Range(Tail(run.plan)) : Unrelated(p, r)
  BY <1>1, <1>2, ScatteredTail
<1>5. \A q \in PlacesIn(run.done) : Unrelated(q, p) /\ Apart(p, q) /\ q \in Places
  <2>1. \A q \in PlacesIn(run.done) : q \in Places
    <3>1. \A i \in DOMAIN run.done : run.done[i] \in Attachments
      BY <1>2
    <3> QED BY <3>1 DEF PlacesIn, Attachments
  <2> QED BY <1>2, <1>3, <2>1 DEF Unrelated, Apart
<1>6. \A q \in PlacesIn(run.done) \cup {p}, r \in Range(Tail(run.plan)) : Unrelated(q, r)
  BY <1>2, <1>3, <1>4
<1>7. \/ \E kids \in {child_mounts(p), {}} : AttachOverlay(p, [run EXCEPT !.at = "child", !.kids = kids])
      \/ RollBack(run.done) /\ UNCHANGED <<mounts, registered>>
  BY DEF MountLeaf
<1>8. Head(run.plan) = p
  OBVIOUS
<1> HIDE DEF p
<1>9. ASSUME NEW kids \in {child_mounts(p), {}},
             AttachOverlay(p, [run EXCEPT !.at = "child", !.kids = kids])
      PROVE  Kept'
  <2>1. PICK did : did = Did(p, TRUE)
    OBVIOUS
  <2>2. Attach(p, "overlay")
    BY <1>9 DEF AttachOverlay
  <2>3. \/ /\ registered' = registered \cup {p}
           /\ run' = [[run EXCEPT !.at = "child", !.kids = kids] EXCEPT !.done = did]
        \/ RollBack(Did(p, FALSE)) /\ UNCHANGED registered
    BY <1>9, <2>1 DEF AttachOverlay
  <2>4. CASE /\ registered' = registered \cup {p}
             /\ run' = [[run EXCEPT !.at = "child", !.kids = kids] EXCEPT !.done = did]
    <3>1. run'.at = "child" /\ run'.done = did /\ run'.plan = run.plan /\ run'.kids = kids
      BY <1>2, <2>4 DEF Runs
    <3>2. \A q \in kids : q \in Places /\ p \in Above[q]
      BY <1>9 DEF child_mounts
    <3>3. \A q \in kids, r \in PlacesIn(run.done) \cup {p} : Apart(q, r)
      BY <1>3, <1>5, <3>2, Below
    <3>4. "overlay" \in Layers /\ TRUE \in BOOLEAN /\ "overlay" # "bind"
      BY DEF Layers
    <3>5. \E n \in mounts' : n.by = "overlay" /\ n.at = p
      <4>1. PICK n : n = [at |-> p, id |-> Fresh, by |-> "overlay"]
        OBVIOUS
      <4>2. n \in mounts'
        BY <2>2, <4>1 DEF Attach
      <4> QED BY <4>1, <4>2
    <3>6. registered' \subseteq registered \cup (IF TRUE THEN {p} ELSE {})
      BY <2>4
    <3>7. PICK reg \in BOOLEAN : reg = TRUE
      OBVIOUS
    <3>8. did = Did(p, reg) /\ registered' \subseteq registered \cup (IF reg THEN {p} ELSE {})
          /\ (reg <=> "overlay" = "overlay")
      BY <2>1, <3>6, <3>7
    <3>9. \A q \in run'.kids : Head(run.plan) \in Above[q]
      BY <1>8, <3>1, <3>2
    <3>10. \A q \in run'.kids, r \in PlacesIn(run.done) \cup {p} : Apart(q, r)
      BY <3>1, <3>3
    <3>11. \A q \in PlacesIn(run.done) : Apart(p, q)
      BY <1>5
    <3>12. \E n \in mounts' : n.by = "overlay" /\ n.at = Head(run.plan)
      BY <1>8, <3>5
    <3> QED BY <1>1, <1>3, <1>6, <2>2, <3>1, <3>4, <3>8, <3>9, <3>10, <3>11, <3>12, LayerKept
  <2>5. CASE RollBack(Did(p, FALSE)) /\ UNCHANGED registered
    BY <1>1, <1>3, <1>5, <2>2, <2>5, LayerRollsBack
  <2> QED BY <2>3, <2>4, <2>5
<1>10. CASE RollBack(run.done) /\ UNCHANGED <<mounts, registered>>
  BY <1>1, <1>10, LeafRollsBack
<1> QED BY <1>7, <1>9, <1>10

LEMMA MountChildKept ==
    ASSUME JournalsInv, RouteInv, Kept, MountChild
    PROVE  Kept'
<1> DEFINE h == Head(run.plan)
<1>1. UNCHANGED <<boot, journal, claimed, leaked>> /\ run.at = "child"
  BY DEF MountChild, quiet
<1>2. /\ run \in Runs /\ Shape /\ run.plan \in Seq(Places) /\ run.plan # <<>>
      /\ \A p \in PlacesIn(run.done), r \in Coming : Unrelated(p, r)
      /\ \E n \in mounts : n.by = "overlay" /\ n.at = h
      /\ \A q \in run.kids : h \in Above[q]
      /\ \A q \in run.kids, p \in PlacesIn(run.done) : Apart(q, p)
      /\ run.done \in Seq(Attachments) /\ run.kids \in SUBSET Places
      /\ Scattered(run.plan)
  BY <1>1, LeafStage
<1>3. h \in Places /\ Coming = Range(Tail(run.plan)) /\ (\A r \in Coming : Unrelated(h, r) /\ r \in Places)
  <2>1. Tail(run.plan) \in Seq(Places)
    BY <1>2, TailOf
  <2>2. Range(Tail(run.plan)) \subseteq Places
    BY <2>1 DEF Range
  <2> QED BY <1>1, <1>2, <2>2, TailOf, ScatteredTail DEF Coming
<1>4. PICK q \in run.kids :
        /\ Above[q] \cap run.kids = {}
        /\ LET next == [run EXCEPT !.kids = @ \ {q}]
           IN  \/ run' = next /\ Smooth /\ UNCHANGED <<mounts, registered>>
               \/ /\ Attach(q, "bind") /\ run' = [next EXCEPT !.done = Did(q, FALSE)]
                  /\ Smooth /\ UNCHANGED registered
               \/ AttachOverlay(q, next)
               \/ Faulty("calls") /\ RollBack(run.done) /\ UNCHANGED <<mounts, registered>>
  BY DEF MountChild
<1>5. PICK kids \in SUBSET Places : kids = run.kids \ {q}
  BY <1>2
<1>6. PICK next : next = [run EXCEPT !.kids = kids]
  OBVIOUS
<1>7. next = [run EXCEPT !.kids = @ \ {q}]
  BY <1>2, <1>5, <1>6 DEF Runs
<1>8. /\ next \in Runs /\ next.at = "child" /\ next.plan = run.plan /\ next.kids = kids
      /\ next.done = run.done /\ next.of = run.of
  BY <1>1, <1>2, <1>6 DEF Runs
<1>9. q \in Places /\ h \in Above[q] /\ \A p \in PlacesIn(run.done) : Apart(q, p)
  BY <1>2
<1>10. \A p \in PlacesIn(run.done) \cup {q}, r \in Range(Tail(run.plan)) : Unrelated(p, r)
  <2>1. \A r \in Coming : Unrelated(q, r)
    BY <1>3, <1>9, Below
  <2> QED BY <1>2, <1>3, <2>1
<1>11. /\ \A k \in kids : h \in Above[k]
       /\ \A k \in kids, p \in PlacesIn(run.done) \cup {q} : Apart(k, p)
  BY <1>2, <1>4, <1>5 DEF Apart
<1>12. h = Head(run.plan)
  OBVIOUS
<1> HIDE DEF h
<1>13. CASE run' = next /\ UNCHANGED <<mounts, registered>>
  <2>1. /\ Ours' = Ours /\ ByJournals' = ByJournals /\ Listed' = Listed
        /\ \A b \in Backends : (Of(b))' = Of(b) /\ (Empty(b))' = Empty(b) /\ (AllThere(b))' = AllThere(b)
    BY <1>1, <1>13, Frame DEF Listed
  <2>2. WorldInv' /\ ClaimedInv'
    BY <1>1, <1>13, <2>1, FrameWorld, StillClaimed DEF Kept
  <2>3. AtLeaf
    BY <1>1 DEF Kept, PassInv
  <2>4. \A m \in Ours' : m.by \in Layers \/ Rec(m) \in (Of(m.by))'
    <3> SUFFICES ASSUME NEW m \in Ours, m.by \notin Layers PROVE Rec(m) \in (Of(m.by))'
      BY <2>1
    <3>1. m.by \in Backends
      BY <1>2, OwnersOf DEF Ours, Layers
    <3> QED BY <2>1, <2>3, <3>1 DEF AtLeaf
  <2>5. (Empty("overlay"))' /\ (AllThere("mirror"))'
    BY <2>1, <2>3 DEF AtLeaf, Backends
  <2>6. Coming' = Coming
    BY <1>1, <1>8, <1>13 DEF Coming
  <2>7. PICK ds : ds = run.done
    OBVIOUS
  <2>8. /\ (Layered(ds))' /\ InOrder(ds) /\ run'.done = ds /\ run'.at = "child"
        /\ run'.plan = run.plan /\ run'.kids = kids /\ Scattered(run.plan)
        /\ \A m \in mounts' : m.by \in Layers => (m.by = "overlay" <=> m.at \in RegisteredIn(ds))
        /\ Listed' \subseteq ByJournals' \cup RegisteredIn(ds)
    BY <1>1, <1>8, <1>13, <2>1, <2>3, <2>7 DEF AtLeaf, Layered
  <2>9. /\ \A p \in PlacesIn(ds), r \in Coming' : Unrelated(p, r)
        /\ \E n \in mounts' : n.by = "overlay" /\ n.at = Head(run.plan)
        /\ \A k \in kids : Head(run.plan) \in Above[k]
        /\ \A k \in kids, p \in PlacesIn(ds) : Apart(k, p)
    BY <1>2, <1>11, <1>12, <1>13, <2>6, <2>7
  <2>10. AtLeaf'
    BY <2>4, <2>5, <2>8, <2>9 DEF AtLeaf
  <2> QED BY <1>8, <1>13, <2>2, <2>8, <2>10, Lands DEF Kept
<1>14. CASE Attach(q, "bind") /\ run' = [next EXCEPT !.done = Did(q, FALSE)] /\ UNCHANGED registered
  <2>1. PICK reg \in BOOLEAN : reg = FALSE
    OBVIOUS
  <2>2. PICK did : did = Did(q, reg)
    OBVIOUS
  <2>3. run' = [next EXCEPT !.done = did]
    BY <1>14, <2>1, <2>2
  <2>4. run'.at = "child" /\ run'.done = did /\ run'.plan = run.plan /\ run'.kids = kids
    BY <1>8, <2>3 DEF Runs
  <2>5. "bind" \in Layers /\ (reg <=> "bind" = "overlay")
    BY <2>1 DEF Layers
  <2>6. registered' \subseteq registered \cup (IF reg THEN {q} ELSE {})
    BY <1>14
  <2>7. \E n \in mounts : n.by = "overlay" /\ n.at \in Above[q]
    BY <1>2, <1>9
  <2>8. \E n \in mounts' : n.by = "overlay" /\ n.at = Head(run.plan)
    BY <1>2, <1>12, <1>14 DEF Attach
  <2>9. /\ \A k \in run'.kids : Head(run.plan) \in Above[k]
        /\ \A k \in run'.kids, p \in PlacesIn(run.done) \cup {q} : Apart(k, p)
    BY <1>11, <1>12, <2>4
  <2> QED BY <1>1, <1>2, <1>9, <1>10, <1>14, <2>2, <2>4, <2>5, <2>6, <2>7, <2>8, <2>9, LayerKept
<1>15. CASE AttachOverlay(q, next)
  <2>1. PICK reg \in BOOLEAN : reg = TRUE
    OBVIOUS
  <2>2. PICK did : did = Did(q, reg)
    OBVIOUS
  <2>3. Attach(q, "overlay")
    BY <1>15 DEF AttachOverlay
  <2>4. \/ registered' = registered \cup {q} /\ run' = [next EXCEPT !.done = did]
        \/ RollBack(Did(q, FALSE)) /\ UNCHANGED registered
    BY <1>15, <2>1, <2>2 DEF AttachOverlay
  <2>5. CASE registered' = registered \cup {q} /\ run' = [next EXCEPT !.done = did]
    <3>1. run'.at = "child" /\ run'.done = did /\ run'.plan = run.plan /\ run'.kids = kids
      BY <1>8, <2>5 DEF Runs
    <3>2. "overlay" \in Layers /\ "overlay" # "bind" /\ (reg <=> "overlay" = "overlay")
      BY <2>1 DEF Layers
    <3>3. registered' \subseteq registered \cup (IF reg THEN {q} ELSE {})
      BY <2>1, <2>5
    <3>4. \E n \in mounts' : n.by = "overlay" /\ n.at = Head(run.plan)
      BY <1>2, <1>12, <2>3 DEF Attach
    <3>5. /\ \A k \in run'.kids : Head(run.plan) \in Above[k]
          /\ \A k \in run'.kids, p \in PlacesIn(run.done) \cup {q} : Apart(k, p)
      BY <1>11, <1>12, <3>1
    <3> QED BY <1>1, <1>2, <1>9, <1>10, <2>2, <2>3, <3>1, <3>2, <3>3, <3>4, <3>5, LayerKept
  <2>6. CASE RollBack(Did(q, FALSE)) /\ UNCHANGED registered
    BY <1>1, <1>9, <2>3, <2>6, LayerRollsBack
  <2> QED BY <2>4, <2>5, <2>6
<1>16. CASE RollBack(run.done) /\ UNCHANGED <<mounts, registered>>
  BY <1>1, <1>16, LeafRollsBack
<1> QED BY <1>4, <1>7, <1>13, <1>14, <1>15, <1>16

LEMMA LeafDoneKept ==
    ASSUME JournalsInv, RouteInv, Kept, LeafDone
    PROVE  Kept'
<1>1. UNCHANGED <<boot, mounts, registered, journal, claimed, leaked>> /\ run.at = "child"
  BY DEF LeafDone, quiet
<1>2. /\ run \in Runs /\ Shape /\ Scattered(run.plan) /\ run.plan \in Seq(Places) /\ run.plan # <<>>
      /\ Coming = Range(Tail(run.plan)) /\ AtLeaf
  BY <1>1, LeafStage DEF Coming, Kept, PassInv
<1>3. CASE run' = [Onward EXCEPT !.at = "leaf"]
  <2>1. PICK rest : rest = Tail(run.plan)
    OBVIOUS
  <2>2. run' = [[run EXCEPT !.plan = rest] EXCEPT !.at = "leaf"]
    BY <1>3, <2>1 DEF Onward
  <2>3. run'.at = "leaf" /\ run'.plan = rest /\ run'.done = run.done
    BY <1>2, <2>2 DEF Runs
  <2>4. Coming' = Coming /\ Scattered(rest)
    BY <1>2, <2>1, <2>3, ScatteredTail DEF Coming
  <2>5. /\ Ours' = Ours /\ ByJournals' = ByJournals /\ Listed' = Listed
        /\ \A b \in Backends : (Of(b))' = Of(b) /\ (Empty(b))' = Empty(b) /\ (AllThere(b))' = AllThere(b)
    BY <1>1, Frame DEF Listed
  <2>6. WorldInv' /\ ClaimedInv'
    BY <1>1, <2>5, FrameWorld, StillClaimed DEF Kept
  <2>7. \A m \in Ours' : m.by \in Layers \/ Rec(m) \in (Of(m.by))'
    <3> SUFFICES ASSUME NEW m \in Ours, m.by \notin Layers PROVE Rec(m) \in (Of(m.by))'
      BY <2>5
    <3>1. m.by \in Backends
      BY <1>2, OwnersOf DEF Ours, Layers
    <3> QED BY <1>2, <2>5, <3>1 DEF AtLeaf
  <2>8. (Empty("overlay"))' /\ (AllThere("mirror"))'
    BY <1>2, <2>5 DEF AtLeaf, Backends
  <2>9. PICK ds : ds = run.done
    OBVIOUS
  <2>10. /\ (Layered(ds))' /\ InOrder(ds) /\ run'.done = ds
         /\ \A m \in mounts' : m.by \in Layers => (m.by = "overlay" <=> m.at \in RegisteredIn(ds))
         /\ Listed' \subseteq ByJournals' \cup RegisteredIn(ds)
         /\ \A p \in PlacesIn(ds), r \in Coming' : Unrelated(p, r)
    BY <1>1, <1>2, <2>3, <2>4, <2>5, <2>9 DEF AtLeaf, Layered
  <2>11. AtLeaf'
    BY <2>3, <2>4, <2>7, <2>8, <2>10 DEF AtLeaf
  <2> QED BY <2>3, <2>6, <2>11, Lands DEF Kept
<1>4. CASE RollBack(run.done)
  BY <1>1, <1>4, LeafRollsBack
<1> QED BY <1>3, <1>4 DEF LeafDone

LEMMA SaveOverlaysKept ==
    ASSUME JournalsInv, RouteInv, Kept, SaveOverlays
    PROVE  Kept'
<1> DEFINE regs == Registered(run.done)
           qs == PathsOf(regs)
<1>1. UNCHANGED <<boot, mounts, registered, claimed, leaked>> /\ run.at = "leaf"
  BY DEF SaveOverlays, quiet
<1>2. /\ run \in Runs /\ Shape /\ Unique /\ LayInv /\ RefInv
      /\ run.op = "mount" /\ run.of = "overlay" /\ claimed
      /\ Empty("overlay") /\ AllThere("mirror")
      /\ \A m \in Ours : m.by \in Layers \/ Rec(m) \in Of(m.by)
      /\ \A m \in mounts : m.by \in Layers => (m.by = "overlay" <=> m.at \in RegisteredIn(run.done))
      /\ Listed \subseteq ByJournals \cup RegisteredIn(run.done)
      /\ InOrder(run.done) /\ Layered(run.done) /\ run.done \in Seq(Attachments)
  BY <1>1, LeafStage
<1>3. regs \in Seq(Attachments) /\ PlacesIn(regs) = RegisteredIn(run.done) /\ InOrder(regs)
  BY <1>2, SomeRegistered, PlacesRegistered
<1>4. qs \in Seq(Places) /\ Range(qs) = RegisteredIn(run.done) /\ DOMAIN qs = DOMAIN regs
      /\ \A i \in DOMAIN regs : qs[i] = regs[i].at
  BY <1>3, PathsAre, AttachmentsAre, PlacesOfPaths DEF PathsOf
<1>5. Listed' = Listed /\ ClaimedInv'
  BY <1>1, <1>2 DEF Listed, ClaimedInv
<1>6. \/ write_mount_journal("overlay", qs) /\ Over(TRUE)
      \/ RollBack(run.done) /\ UNCHANGED journal
  BY DEF SaveOverlays
<1> HIDE DEF qs, regs
<1>7. CASE write_mount_journal("overlay", qs) /\ Over(TRUE)
  <2>1. \A p \in Range(qs) : \A m \in Seen(p) : m.by = "overlay"
    <3> SUFFICES ASSUME NEW p \in Range(qs), NEW m \in Seen(p) PROVE m.by = "overlay"
      OBVIOUS
    <3>1. m \in mounts /\ m.at = p /\ \A x \in mounts : x.id > m.id => x.at # p
      BY DEF Seen
    <3>2. RegisteredIn(run.done) \subseteq PlacesIn(run.done)
      BY DEF RegisteredIn, PlacesIn
    <3>3. PICK x \in mounts : x.at = p /\ x.by \in Layers
      BY <1>2, <1>4, <3>2 DEF Layered
    <3>4. m.by \in Layers
      <4>1. CASE m.id = x.id
        BY <1>2, <3>1, <3>3, <4>1 DEF Unique
      <4>2. CASE m.id # x.id
        <5>1. m.id > x.id
          BY <1>2, <3>1, <3>3, <4>2, OwnersOf
        <5> QED BY <1>2, <3>1, <3>3, <5>1 DEF LayInv
      <4> QED BY <4>1, <4>2
    <3> QED BY <1>2, <1>4, <3>1, <3>4
  <2>2. \A i, j \in DOMAIN qs : i < j => Apart(qs[j], qs[i])
    BY <1>3, <1>4 DEF InOrder
  <2>3. /\ LayInv' /\ RefInv' /\ Ours' = Ours
        /\ \A c \in Backends \ {"overlay"} : /\ (read_mount_journal(c))' = read_mount_journal(c)
                                             /\ (Of(c))' = Of(c) /\ (Empty(c))' = Empty(c)
                                             /\ (AllThere(c))' = AllThere(c)
        /\ PlacesIn((read_mount_journal("overlay"))') = Range(qs)
        /\ (AllThere("overlay"))'
        /\ \A p \in Range(qs) : \A m \in Seen(p) : Rec(m) \in (Of("overlay"))'
    BY <1>1, <1>2, <1>4, <1>7, <2>1, <2>2, WrittenNames DEF Backends
  <2>4. (AllThere("mirror"))'
    BY <1>2, <2>3 DEF Backends
  <2>5. GoneInv'
    BY <2>3, <2>4 DEF GoneInv, AllThere
  <2>6. AllNamed'
    <3> SUFFICES ASSUME NEW m \in Ours, m.by # "bind" PROVE Rec(m) \in (Of(m.by))'
      BY <2>3 DEF AllNamed
    <3>1. CASE m.by = "overlay"
      <4>1. m \in Seen(m.at)
        BY <1>2, <3>1, Visible DEF Layers
      <4>2. m.at \in Range(qs)
        BY <1>2, <1>4, <3>1 DEF Ours, Layers
      <4>3. Rec(m) \in (Of("overlay"))'
        BY <2>3, <4>1, <4>2
      <4> QED BY <3>1, <4>3
    <3>2. CASE m.by # "overlay"
      <4>1. m.by \in Backends \ {"overlay"} /\ m.by \notin Layers
        BY <1>2, <3>2, OwnersOf DEF Ours, Layers
      <4> QED BY <1>2, <2>3, <4>1
    <3> QED BY <3>1, <3>2
  <2>7. Listed' \subseteq ByJournals'
    <3> SUFFICES ASSUME NEW p \in Listed PROVE p \in ByJournals'
      BY <1>5
    <3>1. CASE p \in RegisteredIn(run.done)
      BY <1>4, <2>3, <3>1 DEF ByJournals, Backends
    <3>2. CASE p \in ByJournals
      <4>1. PICK b \in Backends : p \in PlacesIn(read_mount_journal(b))
        BY <3>2 DEF ByJournals
      <4>2. b # "overlay"
        BY <1>2, <4>1, EmptyMeans
      <4>3. p \in PlacesIn((read_mount_journal(b))')
        BY <2>3, <4>1, <4>2
      <4> QED BY <4>3 DEF ByJournals
    <3> QED BY <1>2, <3>1, <3>2
  <2>8. run' = Start("mount", "idle", "magic", run.all /\ TRUE)
    BY <1>2, <1>7, OverTo
  <2>9. PassInv'
    BY <2>6, <2>7, <2>8, NextIsIdle
  <2> QED BY <1>5, <2>3, <2>5, <2>9 DEF Kept, WorldInv
<1>8. CASE RollBack(run.done) /\ UNCHANGED journal
  BY <1>1, <1>8, LeafRollsBack
<1> QED BY <1>6, <1>7, <1>8

-------------------------------------------------------------------------------
\* Rolling back, being killed, and starting over.

LEMMA RollBackKept ==
    ASSUME JournalsInv, RouteInv, Kept, RollBackOne, ~damaged'
    PROVE  Kept'
<1> DEFINE d == Head(run.left)
           left == Tail(run.left)
<1>1. /\ UNCHANGED <<boot, journal, claimed>> /\ run.at = "roll-back" /\ run.left # <<>>
      /\ Shape /\ Unique /\ run \in Runs /\ run.left \in Seq(Attachments)
      /\ run.op = "mount" /\ claimed /\ LayInv /\ RefInv /\ AtRollBack /\ run.of \in Backends
  BY DEF RollBackOne, quiet, JournalsInv, Shape, Runs, RouteInv, Kept, PassInv, WorldInv
<1>2. /\ PlacesIn(run.left) = {d.at} \cup PlacesIn(left)
      /\ RegisteredIn(run.left) \subseteq {d.at} \cup RegisteredIn(left)
      /\ InTurn(run.left) => InTurn(left) /\ \A p \in PlacesIn(left) : Apart(d.at, p)
  BY <1>1, PlacesOfTail
<1>3. /\ Detach(d.at)
      /\ \/ registered' = registered \ {d.at} /\ UNCHANGED leaked
         \/ UNCHANGED registered /\ leaked' = leaked \cup {d.at}
      /\ run' = [run EXCEPT !.left = left]
  BY DEF RollBackOne, Rest
<1> HIDE DEF d, left
<1>4. run'.at = "roll-back" /\ run'.of = run.of /\ run'.left = left
  BY <1>1, <1>3 DEF Runs
<1>5. Listed' \subseteq Listed \ {d.at}
  BY <1>3 DEF Listed
<1>6. LayInv' /\ RefInv' /\ Ours' = {m \in Ours : m \in mounts'} /\ mounts' \subseteq mounts
  BY <1>1, <1>3, DetachedLaid
<1>7. \A b : /\ (read_mount_journal(b))' = read_mount_journal(b)
             /\ (Of(b))' = Of(b) /\ (Empty(b))' = Empty(b)
  BY <1>1 DEF read_mount_journal, Of, Empty
<1>8. ByJournals' = ByJournals
  BY <1>7 DEF ByJournals
\* No mount of the backend's that can be seen is left at the place.
<1>9. ASSUME NEW m \in Ours', m.by = run.of PROVE m.at # d.at
  <2>1. m \in Ours /\ m \in mounts'
    BY <1>6
  <2>2. m.by \in Layers \/ \A n \in mounts : n.by \notin Layers
    <3>1. CASE run.of = "overlay"
      BY <1>9, <3>1 DEF Layers
    <3>2. CASE run.of # "overlay"
      <4>1. Only({"magic", "mirror"})
        BY <1>1, <3>2 DEF AtRollBack, MagicOnly, Only, Backends
      <4> QED BY <1>1, <4>1, OwnersOf DEF Only, Layers, Backends
    <3> QED BY <3>1, <3>2
  <2>3. m \in Seen(m.at)
    BY <1>1, <2>1, <2>2, Visible
  <2> QED BY <1>3, <2>1, <2>3, OneDetached
\* An overlay takes only overlays along, and what was put back upon it.
<1>10. ASSUME run.of = "overlay", NEW m \in mounts, m \notin mounts'
       PROVE  m.by \in Layers /\ (m.at = d.at \/ d.at \in Above[m.at])
  <2>1. PICK s \in Seen(d.at) : m = s \/ m \in Upon(s)
    BY <1>3, <1>10, OneDetached
  <2>2. s \in mounts /\ s.at = d.at /\ \A x \in mounts : x.id > s.id => x.at # d.at
    BY DEF Seen
  <2>3. PICK y \in mounts : y.at = d.at /\ y.by \in Layers
    BY <1>1, <1>2, <1>10 DEF AtRollBack
  <2>4. s.by \in Layers
    <3>1. CASE s.id = y.id
      BY <1>1, <2>2, <2>3, <3>1 DEF Unique
    <3>2. CASE s.id # y.id
      <4>1. s.id > y.id
        BY <1>1, <2>2, <2>3, <3>2, OwnersOf
      <4> QED BY <1>1, <2>2, <2>3, <4>1 DEF LayInv
    <3> QED BY <3>1, <3>2
  <2>5. CASE m = s
    BY <2>2, <2>4, <2>5
  <2>6. CASE m \in Upon(s)
    <3>1. m.id > s.id /\ d.at \in Above[m.at]
      BY <2>2, <2>6 DEF Upon
    <3> QED BY <1>1, <2>2, <2>4, <3>1 DEF LayInv
  <2> QED BY <2>1, <2>5, <2>6
<1>11. run.of = "overlay" => (AllThere("mirror"))'
  <2> SUFFICES ASSUME run.of = "overlay", NEW rec \in Of("mirror") PROVE There(rec)'
    BY <1>7 DEF AllThere
  <2>1. PICK m \in mounts : Rec(m) = rec
    BY <1>1 DEF AtRollBack, AllThere, There
  <2>2. m.by = "mirror"
    BY <1>1, <2>1, NamedBy DEF Backends
  <2>3. m \in mounts'
    BY <1>10, <2>2 DEF Layers
  <2> QED BY <2>1, <2>3 DEF There
<1>12. run.of = "overlay" =>
          /\ (Empty("overlay"))' /\ InTurn(left)
          /\ \A p \in PlacesIn(left) : \E m \in mounts' : m.at = p /\ m.by \in Layers
  <2> SUFFICES ASSUME run.of = "overlay"
               PROVE  /\ (Empty("overlay"))' /\ InTurn(left)
                      /\ \A p \in PlacesIn(left) : \E m \in mounts' : m.at = p /\ m.by \in Layers
    OBVIOUS
  <2>1. (Empty("overlay"))' /\ InTurn(left) /\ \A p \in PlacesIn(left) : Apart(d.at, p)
    BY <1>1, <1>2, <1>7 DEF AtRollBack
  <2>2. ASSUME NEW p \in PlacesIn(left) PROVE \E m \in mounts' : m.at = p /\ m.by \in Layers
    <3>1. PICK m \in mounts : m.at = p /\ m.by \in Layers
      BY <1>1, <1>2 DEF AtRollBack
    <3>2. m \in mounts'
      BY <1>10, <2>1, <3>1 DEF Apart
    <3> QED BY <3>1, <3>2
  <2> QED BY <2>1, <2>2
<1>13. \A K : Only(K) => (Only(K))'
  BY <1>6 DEF Only
<1>14. run.of = "magic" => MagicOnly'
  BY <1>1, <1>7, <1>13 DEF AtRollBack, MagicOnly
<1>15. run.of = "mirror" => (Only({"magic", "mirror"}))' /\ (Empty("mirror"))' /\ (Empty("overlay"))'
  BY <1>1, <1>7, <1>13 DEF AtRollBack
<1>16. \A m \in Ours' : m.by = "bind" \/ Rec(m) \in (Of(m.by))' \/ (m.by = run.of /\ m.at \in PlacesIn(left))
  <2> SUFFICES ASSUME NEW m \in Ours', m.by # "bind", Rec(m) \notin Of(m.by)
               PROVE  m.by = run.of /\ m.at \in PlacesIn(left)
    BY <1>7
  <2>1. m \in Ours
    BY <1>6
  <2>2. m.by = run.of /\ m.at \in PlacesIn(run.left)
    BY <1>1, <2>1 DEF AtRollBack
  <2> QED BY <1>2, <1>9, <2>2
<1>17. Listed' \subseteq ByJournals' \cup RegisteredIn(left)
  <2>1. Listed \subseteq ByJournals \cup RegisteredIn(run.left)
    BY <1>1 DEF AtRollBack
  <2> QED BY <1>2, <1>5, <1>8, <2>1
<1>18. AtRollBack'
  BY <1>4, <1>11, <1>12, <1>14, <1>15, <1>16, <1>17 DEF AtRollBack
<1>19. GoneInv'
  <2>1. CASE run.of = "overlay"
    BY <1>11, <1>12, <2>1 DEF GoneInv, AllThere, Empty
  <2>2. CASE run.of # "overlay"
    <3>1. (Empty("mirror"))' /\ (Empty("overlay"))'
      BY <1>1, <1>14, <1>15, <2>2 DEF MagicOnly, Backends
    <3> QED BY <3>1 DEF GoneInv, Empty
  <2> QED BY <2>1, <2>2
<1>20. ClaimedInv'
  BY <1>1 DEF ClaimedInv
<1> QED BY <1>4, <1>6, <1>18, <1>19, <1>20, Lands DEF Kept, WorldInv

LEMMA RolledBackKept ==
    ASSUME JournalsInv, RouteInv, Kept, RolledBack
    PROVE  Kept'
<1>1. /\ UNCHANGED <<boot, mounts, registered, journal, claimed, leaked>>
      /\ run.at = "roll-back" /\ run.left = <<>> /\ Over(FALSE)
      /\ Shape /\ run.op = "mount" /\ AtRollBack /\ run.of \in Backends
  BY DEF RolledBack, quiet, JournalsInv, Shape, Runs, RouteInv, Kept, PassInv
<1>2. PlacesIn(run.left) = {} /\ RegisteredIn(run.left) = {}
  BY <1>1, NoPlaces
<1>3. AllNamed /\ Listed \subseteq ByJournals
  BY <1>1, <1>2 DEF AtRollBack, AllNamed
<1>4. /\ AllNamed' = AllNamed /\ ByJournals' = ByJournals /\ Ours' = Ours /\ Listed' = Listed
      /\ MagicOnly' = MagicOnly /\ \A b \in Backends : (Of(b))' = Of(b)
  BY <1>1, Frame DEF Listed
<1>5. WorldInv' /\ ClaimedInv'
  BY <1>1, <1>4, FrameWorld, StillClaimed DEF Kept
<1>6. CASE run.of = "magic"
  <2>1. run' = Start("mount", "setup", "mirror", run.all /\ FALSE)
    BY <1>1, <1>6, OverTo
  <2>2. MagicOnly'
    BY <1>1, <1>4, <1>6 DEF AtRollBack
  <2> QED BY <1>3, <1>4, <1>5, <2>1, <2>2, NextIsMirror DEF Kept
<1>7. CASE run.of # "magic"
  <2>1. run' = Start("mount", "idle", "magic", run.all /\ FALSE)
    BY <1>1, <1>7, OverTo
  <2> QED BY <1>3, <1>4, <1>5, <2>1, NextIsIdle DEF Kept
<1> QED BY <1>6, <1>7

\* Where a pass can be killed without harm, everything is named.
LEMMA KilledNamed ==
    ASSUME JournalsInv, RouteInv, Kept, run.at # "idle", ~Exposed
    PROVE  AllNamed /\ Listed \subseteq ByJournals
<1>1. Shape /\ run.at \in Points /\ PassInv /\ LayInv /\ RefInv
  BY DEF JournalsInv, Shape, Runs, Kept, WorldInv
<1>2. PlacesIn(<<>>) = {} /\ RegisteredIn(<<>>) = {}
  BY NoPlaces
<1>3. CASE run.at \in {"read", "detach"}
  BY <1>1, <1>3 DEF PassInv, AtTeardown
<1>4. CASE run.at \in {"gather", "work"}
  BY <1>1, <1>4, NothingMeans DEF PassInv
<1>5. run.at \notin {"first-save", "roll-back"}
  BY DEF RouteInv, Exposed
<1>6. CASE run.at \in {"walk", "save"}
  <2>1. run.done = <<>> /\ AtWalk
    BY <1>1, <1>6 DEF RouteInv, Exposed, PassInv
  <2>2. \A m \in Ours : Rec(m) \in Of("magic") /\ m.by = "magic"
    BY <1>2, <2>1 DEF AtWalk, MagicOnly, Only
  <2> QED BY <2>1, <2>2 DEF AllNamed, AtWalk
<1>7. CASE run.at = "register"
  BY <1>1, <1>7 DEF PassInv, AtRegister
<1>8. CASE run.at \in {"setup", "finalize", "record"}
  <2>1. run.done = <<>> /\ AtMirror
    BY <1>1, <1>8 DEF RouteInv, Exposed, PassInv
  <2>2. \A m \in Ours : Rec(m) \in Of("magic")
    BY <1>2, <2>1 DEF AtMirror
  <2>3. \A m \in Ours : m.by = "magic"
    BY <1>1, <2>2, NamedBy DEF Ours, Backends
  <2>4. Listed \subseteq ByJournals
    BY <1>2, <2>1 DEF AtMirror
  <2> QED BY <2>2, <2>3, <2>4 DEF AllNamed
<1>9. CASE run.at = "sync"
  BY <1>1, <1>9 DEF PassInv, AtSync
<1>10. CASE run.at \in {"leaf", "child"}
  <2>1. run.done = <<>> /\ AtLeaf
    BY <1>1, <1>10 DEF RouteInv, Exposed, PassInv
  <2>2. \A m \in mounts : m.by \notin Layers
    BY <1>2, <2>1 DEF AtLeaf, Layered
  <2>3. \A m \in Ours : Rec(m) \in Of(m.by)
    BY <2>1, <2>2 DEF AtLeaf, Ours
  <2>4. Listed \subseteq ByJournals
    BY <1>2, <2>1 DEF AtLeaf
  <2> QED BY <2>3, <2>4 DEF AllNamed
<1> QED BY <1>1, <1>3, <1>4, <1>5, <1>6, <1>7, <1>8, <1>9, <1>10 DEF Points

LEMMA KillKept ==
    ASSUME JournalsInv, RouteInv, Kept, Kill, ~damaged'
    PROVE  Kept'
<1>1. /\ UNCHANGED <<boot, mounts, registered, journal, claimed, leaked>>
      /\ run.at # "idle" /\ ~Exposed
  BY DEF Kill, quiet, Idle
<1>2. AllNamed /\ Listed \subseteq ByJournals
  BY <1>1, KilledNamed
<1>3. /\ AllNamed' = AllNamed /\ ByJournals' = ByJournals /\ Ours' = Ours /\ Listed' = Listed
      /\ \A b \in Backends : (Of(b))' = Of(b)
  BY <1>1, Frame DEF Listed
<1>4. WorldInv' /\ ClaimedInv'
  BY <1>1, <1>3, FrameWorld, StillClaimed DEF Kept
<1>5. run' = Start(run.op, "idle", "magic", FALSE)
  BY DEF Kill, NoRun, Start
<1> QED BY <1>2, <1>3, <1>4, <1>5, NextIsIdle DEF Kept

\* A device that has just come up: nothing of Kagami's, and no journal of this boot.
Clean ==
    /\ \A m \in mounts : m.by = "stock"
    /\ \A b \in Backends : read_mount_journal(b) = <<>>
    /\ registered = {} /\ run = NoRun

LEMMA CleanKept == Clean => Kept /\ RouteInv
<1> SUFFICES ASSUME Clean PROVE Kept /\ RouteInv
  OBVIOUS
<1>1. Ours = {} /\ Listed = {}
  BY DEF Clean, Ours, Listed
<1>2. \A b \in Backends : Of(b) = {} /\ Empty(b)
  BY NoPlaces DEF Clean, Of, Empty
<1>3. Nothing
  BY <1>1, <1>2 DEF Nothing
<1>4. LayInv
  BY <1>1 DEF Clean, LayInv, Layers
<1>5. RefInv
  <2>1. {"mirror", "overlay"} \subseteq Backends
    BY DEF Backends
  <2> QED BY <1>2, <2>1, NoPlaces DEF RefInv, Clean
<1>6. GoneInv
  BY <1>1 DEF GoneInv
<1>7. run.at = "idle" /\ run.op = "none"
  BY DEF Clean, NoRun
<1>8. PassInv
  BY <1>3, <1>7, NothingMeans DEF PassInv, AtIdle
<1>9. RouteInv
  BY <1>7 DEF RouteInv
<1> QED BY <1>3, <1>4, <1>5, <1>6, <1>8, <1>9 DEF Kept, WorldInv, ClaimedInv

LEMMA InitKept == Init => RouteInv /\ KeptInv
<1> SUFFICES ASSUME Init PROVE RouteInv /\ KeptInv
  OBVIOUS
<1>1. \A m \in mounts : m.by = "stock"
  BY DEF Init, StockMounts
<1>2. \A b \in Backends : read_mount_journal(b) = <<>>
  BY DEF Init, read_mount_journal, NoJournal
<1>3. Clean
  BY <1>1, <1>2 DEF Clean, Init
<1> QED BY <1>3, CleanKept DEF KeptInv

LEMMA RebootKept ==
    ASSUME JournalsInv, Reboot
    PROVE  Kept'
<1>1. Shape /\ JournalInv
  BY DEF JournalsInv
<1>2. boot' = boot + 1 /\ boot \in Nat
  BY <1>1, JournalAssumption DEF Shape, Reboot
<1>3. \A b \in Backends : journal'[b].boot # boot'
  <2>1. \A b \in Backends : journal[b].boot \in Nat /\ journal[b].boot <= boot
    BY <1>1 DEF Shape, JournalInv
  <2> QED BY <1>2, <2>1 DEF Reboot
<1>4. \A b \in Backends : (read_mount_journal(b))' = <<>>
  BY <1>3 DEF read_mount_journal
<1>5. \A m \in mounts' : m.by = "stock"
  BY DEF Reboot, StockMounts
<1>6. Clean'
  BY <1>4, <1>5 DEF Clean, Reboot, NoRun
<1>7. Clean' => Kept'
  BY CleanKept, PTL
<1> QED BY <1>6, <1>7

\* Damage is not undone but by a reboot.
LEMMA StillSound ==
    ASSUME Shape, [Next]_vars, ~damaged', ~Reboot
    PROVE  ~damaged
<1>1. CASE UNCHANGED vars
  BY <1>1 DEF vars
<1>2. CASE BeginUnmount \/ BeginMount \/ ReadJournal \/ TearDownRecord \/ RemoveJournal
  BY <1>2 DEF BeginUnmount, BeginMount, ReadJournal, TearDownRecord, SkipRecord, DetachRecord, RemoveJournal
<1>3. CASE GatherFiles \/ MountWork \/ SaveWork \/ WalkOn \/ SaveMounts \/ RegisterMounts
  BY <1>3 DEF GatherFiles, MountWork, SaveWork, WalkOn, SaveMounts, RegisterMounts
<1>4. CASE AttachMirror \/ FinalizeMirror \/ RecordMirror \/ SyncContent
  BY <1>4 DEF AttachMirror, FinalizeMirror, RecordMirror, SyncContent
<1>5. CASE MountLeaf \/ MountChild \/ LeafDone \/ SaveOverlays
  BY <1>5 DEF MountLeaf, MountChild, LeafDone, SaveOverlays
<1>6. CASE RollBackOne \/ RolledBack \/ Kill \/ Interfere
  BY <1>6 DEF RollBackOne, RolledBack, Kill, Interfere
<1> QED BY <1>1, <1>2, <1>3, <1>4, <1>5, <1>6 DEF Next, Kagami

LEMMA StutterKept ==
    ASSUME Kept, UNCHANGED vars
    PROVE  Kept'
<1>1. UNCHANGED <<boot, mounts, registered, journal, claimed, run, leaked>>
  BY DEF vars
<1>2. /\ AllNamed' = AllNamed /\ ByJournals' = ByJournals /\ Ours' = Ours /\ Listed' = Listed
      /\ MagicOnly' = MagicOnly /\ (\A K : (Only(K))' = Only(K))
      /\ \A b \in Backends : (Of(b))' = Of(b) /\ (Empty(b))' = Empty(b) /\ (AllThere(b))' = AllThere(b)
  BY <1>1, Frame DEF Listed
<1>3. WorldInv' /\ ClaimedInv'
  BY <1>1, <1>2, FrameWorld, StillClaimed DEF Kept
<1>4. Nothing' = Nothing
  BY <1>2 DEF Nothing
<1>5. PassInv
  BY DEF Kept
<1>6. /\ PlacesIn(run.done)' = PlacesIn(run.done) /\ PlacesIn(run.left)' = PlacesIn(run.left)
      /\ RegisteredIn(run.done)' = RegisteredIn(run.done)
      /\ RegisteredIn(run.left)' = RegisteredIn(run.left)
      /\ Layered(run.done)' = Layered(run.done) /\ Coming' = Coming
      /\ InOrder(run.done)' = InOrder(run.done) /\ InTurn(run.left)' = InTurn(run.left)
  BY <1>1 DEF PlacesIn, RegisteredIn, Layered, Coming, InOrder, InTurn
<1>7. \A b : (Of(b))' = Of(b) /\ (Empty(b))' = Empty(b) /\ (AllThere(b))' = AllThere(b)
  BY <1>1 DEF Of, read_mount_journal, Empty, AllThere, There
<1>8. \A rec : (There(rec))' = There(rec)
  BY <1>1, Frame
<1>9. (AtIdle => AtIdle') /\ (Nothing => Nothing')
  BY <1>1, <1>2, <1>4 DEF AtIdle
<1>10. LeftInv => LeftInv'
  <2>1. PICK of : of = run.of
    OBVIOUS
  <2>2. run'.of = of
    BY <1>1, <2>1
  <2> QED BY <1>1, <1>2, <1>6, <1>7, <2>1, <2>2 DEF LeftInv
<1>11. AtTeardown => AtTeardown'
  BY <1>1, <1>2, <1>4, <1>7, <1>10 DEF AtTeardown
<1>12. AtFirstSave => AtFirstSave'
  BY <1>1, <1>2, <1>7 DEF AtFirstSave
<1>13. AtWalk => AtWalk'
  BY <1>1, <1>2, <1>6, <1>7 DEF AtWalk
<1>14. AtRegister => AtRegister'
  <2>1. PlacesIn(read_mount_journal("magic"))' = PlacesIn(read_mount_journal("magic"))
    BY <1>1 DEF PlacesIn, read_mount_journal
  <2> QED BY <1>1, <1>2, <1>6, <2>1 DEF AtRegister
<1>15. AtMirror => AtMirror'
  BY <1>1, <1>2, <1>6, <1>7 DEF AtMirror
<1>16. AtSync => AtSync'
  BY <1>1, <1>2, <1>7 DEF AtSync
<1>17. AtLeaf => AtLeaf'
  BY <1>1, <1>2, <1>6, <1>7 DEF AtLeaf
<1>18. AtRollBack => AtRollBack'
  BY <1>1, <1>2, <1>6, <1>7 DEF AtRollBack
<1>19. PassInv'
  BY <1>1, <1>5, <1>9, <1>11, <1>12, <1>13, <1>14, <1>15, <1>16, <1>17, <1>18 DEF PassInv
<1> QED BY <1>3, <1>19 DEF Kept

LEMMA KeptStep ==
    ASSUME FoundInv, [Next]_vars
    PROVE  RouteInv' /\ KeptInv'
<1>1. RouteInv'
  BY RouteKept DEF FoundInv
<1>2. SUFFICES ASSUME ~damaged' PROVE Kept'
  BY <1>1 DEF KeptInv
<1>3. CASE Reboot
  BY <1>3, RebootKept DEF FoundInv
<1>4. CASE ~Reboot
  <2>1. JournalsInv /\ RouteInv /\ Kept
    BY <1>2, <1>4, StillSound DEF FoundInv, KeptInv, JournalsInv
  <2>2. CASE UNCHANGED vars
    BY <2>1, <2>2, StutterKept
  <2>3. CASE BeginUnmount \/ BeginMount \/ ReadJournal \/ TearDownRecord \/ RemoveJournal
    BY <1>2, <2>1, <2>3, BeginKept, ReadKept, TearDownKept, RemoveJournalKept
  <2>4. CASE GatherFiles \/ MountWork \/ SaveWork \/ WalkOn \/ SaveMounts \/ RegisterMounts
    BY <2>1, <2>4, GatherKept, MountWorkKept, SaveWorkKept, WalkKept, SaveMountsKept, RegisterKept
  <2>5. CASE AttachMirror \/ FinalizeMirror \/ RecordMirror \/ SyncContent
    BY <2>1, <2>5, AttachMirrorKept, FinalizeKept, RecordKept, SyncKept
  <2>6. CASE MountLeaf \/ MountChild \/ LeafDone \/ SaveOverlays
    BY <2>1, <2>6, MountLeafKept, MountChildKept, LeafDoneKept, SaveOverlaysKept
  <2>7. CASE RollBackOne \/ RolledBack \/ Kill
    BY <1>2, <2>1, <2>7, RollBackKept, RolledBackKept, KillKept
  <2>8. CASE Interfere
    BY <1>2, <2>8 DEF Interfere
  <2> QED BY <1>4, <2>2, <2>3, <2>4, <2>5, <2>6, <2>7, <2>8 DEF Next, Kagami
<1> QED BY <1>3, <1>4

\* The strengthened invariant: what is attached can be found again, at every stage of a
\* pass, as long as nothing was done that leaves the code without a way to find it.
THEOREM FoundAgain == Spec => []FoundInv
<1>1. Init => FoundInv
  BY InitInv, InitKept DEF FoundInv
<1>2. FoundInv /\ [Next]_vars => FoundInv'
  <2>1. FoundInv /\ [Next]_vars => JournalsInv'
    BY StepInv DEF FoundInv
  <2> QED BY <2>1, KeptStep DEF FoundInv
<1> QED BY <1>1, <1>2, PTL DEF Spec

\* Between passes all that Kagami attached is named by a journal of this boot, or was put
\* back upon an overlay that is: the next unmount_all finds it, whatever calls failed,
\* whatever the roll-backs did and wherever a pass was killed without leaving damage.
THEOREM EverythingFound == Spec => []Accounted
<1>1. FoundInv => Accounted
  <2> SUFFICES ASSUME FoundInv, run.at = "idle", ~damaged, NEW m \in Ours
               PROVE  \/ \E rec \in UNION {Range(read_mount_journal(b)) : b \in Backends} :
                            rec.at = m.at /\ rec.id = m.id
                      \/ /\ m.by = "bind"
                         /\ \E n \in Ours : n.by = "overlay" /\ m \in Upon(n)
    BY DEF Accounted, Idle
  <2>1. Shape /\ LayInv /\ AllNamed
    BY DEF FoundInv, JournalsInv, KeptInv, Kept, WorldInv, PassInv, AtIdle
  <2>2. CASE m.by = "bind"
    <3>1. PICK n \in mounts : n.by = "overlay" /\ m \in Upon(n)
      BY <2>1, <2>2 DEF LayInv, Ours
    <3>2. n \in Ours
      BY <3>1 DEF Ours
    <3> QED BY <2>2, <3>1, <3>2
  <2>3. CASE m.by # "bind"
    <3>1. m.by \in Backends /\ Rec(m) \in Of(m.by)
      BY <2>1, <2>3, OwnersOf DEF AllNamed, Ours
    <3>2. Rec(m) \in UNION {Range(read_mount_journal(b)) : b \in Backends}
      BY <3>1 DEF Of
    <3>3. Rec(m).at = m.at /\ Rec(m).id = m.id
      BY DEF Rec
    <3> QED BY <3>2, <3>3
  <2> QED BY <2>2, <2>3
<1> QED BY <1>1, FoundAgain, PTL

\* An unmount_all that reports success has detached all of Kagami's, and taken every one of
\* its paths off KernelSU's list but those it failed to take off.
THEOREM EverythingDown == Spec => []TornDown
<1>1. FoundInv => TornDown
  <2> SUFFICES ASSUME FoundInv, run.at = "idle", run.op = "unmount", run.all, ~damaged
               PROVE  Ours = {} /\ registered \subseteq leaked
    BY DEF TornDown, Idle
  <2>1. Ours = {} /\ Listed = {}
    BY DEF FoundInv, KeptInv, Kept, PassInv, AtIdle
  <2> QED BY <2>1 DEF Listed
<1> QED BY <1>1, FoundAgain, PTL

===============================================================================
