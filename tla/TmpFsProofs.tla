----------------------------- MODULE TmpFsProofs -----------------------------
(***************************************************************************)
(* What every operation of TmpFs keeps: in the table of full paths, no     *)
(* node is without the directories above it.  Stated for every table and   *)
(* every path, whatever the limits are.                                    *)
(***************************************************************************)
EXTENDS TmpFs, SequenceTheorems, TLAPS

\* Paths are sequences over S, and every proper prefix is a directory.
Tree(S, t) ==
    /\ DOMAIN t \subseteq Seq(S)
    /\ \A p \in DOMAIN t : \A n \in 1 .. Len(p) - 1 : isDirExist(t, SubSeq(p, 1, n))

-----------------------------------------------------------------------------
(* Prefixes of paths.                                                      *)

\* A non-empty prefix of a path is a non-empty path.
LEMMA PrefixIsPath ==
    ASSUME NEW S, NEW p \in Seq(S), NEW n \in 1 .. Len(p)
    PROVE  /\ SubSeq(p, 1, n) \in Seq(S)
           /\ Len(SubSeq(p, 1, n)) = n
           /\ SubSeq(p, 1, n) # <<>>
           /\ \A i \in 1 .. n : SubSeq(p, 1, n)[i] = p[i]
<1>1. \A i \in 1 .. n : p[i] \in S
  BY ElementOfSeq
<1> QED
  BY <1>1, SubSeqProperties

\* The prefix of a prefix is a prefix.
LEMMA PrefixOfPrefix ==
    ASSUME NEW S, NEW p \in Seq(S), NEW n \in 1 .. Len(p), NEW m \in 1 .. n
    PROVE  SubSeq(SubSeq(p, 1, n), 1, m) = SubSeq(p, 1, m)
<1> DEFINE a == SubSeq(p, 1, n)
<1>1. a \in Seq(S) /\ Len(a) = n /\ \A i \in 1 .. n : a[i] = p[i]
  BY PrefixIsPath
<1>2. /\ SubSeq(a, 1, m) \in Seq(S) /\ Len(SubSeq(a, 1, m)) = m
      /\ \A i \in 1 .. m : SubSeq(a, 1, m)[i] = a[i]
  BY <1>1, PrefixIsPath
<1>3. m \in 1 .. Len(p)
  OBVIOUS
<1>4. /\ SubSeq(p, 1, m) \in Seq(S) /\ Len(SubSeq(p, 1, m)) = m
      /\ \A i \in 1 .. m : SubSeq(p, 1, m)[i] = p[i]
  BY <1>3, PrefixIsPath
<1>5. \A i \in 1 .. m : SubSeq(a, 1, m)[i] = SubSeq(p, 1, m)[i]
  BY <1>1, <1>2, <1>4
<1> QED
  BY <1>2, <1>4, <1>5, SeqEqual

\* What lies below a prefix, or begins with it, lies below it.
LEMMA BelowPrefix ==
    ASSUME NEW S, NEW p \in Seq(S), NEW d \in Seq(S), d # <<>>,
           NEW n \in 1 .. Len(p) - 1,
           SubSeq(p, 1, n) = d \/ Below(SubSeq(p, 1, n), d)
    PROVE  Below(p, d)
<1>1. Len(SubSeq(p, 1, n)) = n
  BY PrefixIsPath
<1>2. Len(d) \in Nat /\ Len(d) # 0
  BY EmptySeq, LenProperties
<1>3. CASE SubSeq(p, 1, n) = d
  BY <1>1, <1>3 DEF Below
<1>4. CASE Below(SubSeq(p, 1, n), d)
  <2>1. Len(SubSeq(p, 1, n)) > Len(d)
    BY <1>4, Zenon DEF Below
  <2>2. SubSeq(SubSeq(p, 1, n), 1, Len(d)) = d
    BY <1>4, Zenon DEF Below
  <2>3. n \in 1 .. Len(p) /\ Len(p) \in Nat /\ n < Len(p)
    BY LenProperties
  <2>4. n > Len(d)
    BY <1>1, <2>1, Zenon
  <2>5. Len(d) \in 1 .. n /\ Len(p) > Len(d)
    BY <1>2, <2>3, <2>4
  <2>6. SubSeq(SubSeq(p, 1, n), 1, Len(d)) = SubSeq(p, 1, Len(d))
    BY <2>3, <2>5, PrefixOfPrefix
  <2> QED
    BY <2>2, <2>5, <2>6, Zenon DEF Below
<1> QED
  BY <1>3, <1>4

-----------------------------------------------------------------------------
(* The changes operations make to a table.                                 *)

\* In a tree every proper prefix of a path is a node, and a directory.
LEMMA PrefixInTree ==
    ASSUME NEW S, NEW t, Tree(S, t), NEW p \in DOMAIN t, NEW n \in 1 .. Len(p) - 1
    PROVE  /\ SubSeq(p, 1, n) \in DOMAIN t
           /\ t[SubSeq(p, 1, n)].type = "DIR"
<1>1. p \in Seq(S) /\ n \in 1 .. Len(p)
  BY LenProperties DEF Tree
<1>2. SubSeq(p, 1, n) # <<>>
  BY <1>1, PrefixIsPath
<1> QED
  BY <1>2, Zenon DEF Tree, isDirExist

\* A directory whose parent is in the tree has its ancestors in the tree.
LEMMA ParentGivesPrefixes ==
    ASSUME NEW S, NEW t, Tree(S, t), NEW p \in Seq(S), parentExists(t, p),
           NEW n \in 1 .. Len(p) - 1
    PROVE  /\ SubSeq(p, 1, n) \in DOMAIN t
           /\ t[SubSeq(p, 1, n)].type = "DIR"
<1> DEFINE k == Len(p) - 1
<1>1. Len(p) \in Nat /\ k \in 1 .. Len(p) /\ n \in 1 .. k /\ n \in 1 .. Len(p)
  BY LenProperties
<1>2. SubSeq(p, 1, k) # <<>> /\ Len(SubSeq(p, 1, k)) = k
  BY <1>1, PrefixIsPath, Zenon
<1>3. SubSeq(p, 1, k) \in DOMAIN t /\ t[SubSeq(p, 1, k)].type = "DIR"
  BY <1>2 DEF parentExists, parentOf, isDirExist
<1>4. CASE n = k
  BY <1>3, <1>4
<1>5. CASE n # k
  <2>0. n \in 1 .. k - 1
    BY <1>1, <1>5
  <2>1. n \in 1 .. Len(SubSeq(p, 1, k)) - 1
    BY <1>2, <2>0, Zenon
  <2>2. SubSeq(SubSeq(p, 1, k), 1, n) = SubSeq(p, 1, n)
    BY <1>1, PrefixOfPrefix
  <2>3. /\ SubSeq(SubSeq(p, 1, k), 1, n) \in DOMAIN t
        /\ t[SubSeq(SubSeq(p, 1, k), 1, n)].type = "DIR"
    BY <1>3, <2>1, PrefixInTree, Zenon
  <2> QED
    BY <2>2, <2>3, Zenon
<1> QED
  BY <1>4, <1>5

\* A table is a tree when the prefixes of its paths are directories in it.
LEMMA TreeIntro ==
    ASSUME NEW S, NEW t, DOMAIN t \subseteq Seq(S),
           \A p \in DOMAIN t : \A n \in 1 .. Len(p) - 1 :
               SubSeq(p, 1, n) \in DOMAIN t /\ t[SubSeq(p, 1, n)].type = "DIR"
    PROVE  Tree(S, t)
BY DEF Tree, isDirExist

\* putContent, createDirectory and copyFile make a node in a directory.
LEMMA PutNew ==
    ASSUME NEW S, NEW t, Tree(S, t), NEW p \in Seq(S), NEW node,
           p \notin DOMAIN t, parentExists(t, p)
    PROVE  Tree(S, Put(t, p, node))
<1> DEFINE u == Put(t, p, node)
<1>1. DOMAIN u = DOMAIN t \cup {p} /\ \A q \in DOMAIN t : u[q] = t[q]
  BY DEF Put
<1>2. DOMAIN u \subseteq Seq(S)
  BY <1>1 DEF Tree
<1>3. ASSUME NEW q \in DOMAIN u, NEW n \in 1 .. Len(q) - 1
      PROVE  SubSeq(q, 1, n) \in DOMAIN t /\ t[SubSeq(q, 1, n)].type = "DIR"
  <2>1. CASE q = p
    BY <2>1, <1>3, ParentGivesPrefixes
  <2>2. CASE q # p
    <3>1. q \in DOMAIN t
      BY <1>1, <2>2
    <3> QED
      BY <3>1, PrefixInTree
  <2> QED
    BY <2>1, <2>2
<1>4. \A q \in DOMAIN u : \A n \in 1 .. Len(q) - 1 :
          SubSeq(q, 1, n) \in DOMAIN u /\ u[SubSeq(q, 1, n)].type = "DIR"
  <2> HIDE DEF u
  <2> QED
    BY <1>1, <1>3
<1> HIDE DEF u
<1>5. Tree(S, u)
  BY <1>2, <1>4, TreeIntro
<1> QED
  BY <1>5 DEF u

\* putContent and editFile replace what a file holds.
LEMMA PutOver ==
    ASSUME NEW S, NEW t, Tree(S, t), NEW p, NEW node, isFileExist(t, p)
    PROVE  Tree(S, Put(t, p, node))
<1> DEFINE u == Put(t, p, node)
<1>1. DOMAIN u = DOMAIN t /\ \A q \in DOMAIN t : q # p => u[q] = t[q]
  BY DEF Put, isFileExist
<1>2. DOMAIN u \subseteq Seq(S)
  BY <1>1 DEF Tree
<1>3. t[p].type # "DIR"
  BY DEF isFileExist
<1>4. \A q \in DOMAIN u : \A n \in 1 .. Len(q) - 1 :
          SubSeq(q, 1, n) \in DOMAIN u /\ u[SubSeq(q, 1, n)].type = "DIR"
  <2> HIDE DEF u
  <2> TAKE q \in DOMAIN u
  <2> TAKE n \in 1 .. Len(q) - 1
  <2>1. q \in DOMAIN t
    BY <1>1
  <2>2. SubSeq(q, 1, n) \in DOMAIN t /\ t[SubSeq(q, 1, n)].type = "DIR"
    BY <2>1, PrefixInTree
  <2>3. SubSeq(q, 1, n) # p
    BY <1>3, <2>2, Zenon
  <2> QED
    BY <1>1, <2>2, <2>3, Zenon
<1> HIDE DEF u
<1>5. Tree(S, u)
  BY <1>2, <1>4, TreeIntro
<1> QED
  BY <1>5 DEF u

\* deleteFile removes a node nothing lies below.
LEMMA DropFile ==
    ASSUME NEW S, NEW t, Tree(S, t), NEW p, isFileExist(t, p)
    PROVE  Tree(S, Drop(t, {p}))
<1> DEFINE u == Drop(t, {p})
<1>1. DOMAIN u = DOMAIN t \ {p} /\ \A q \in DOMAIN u : u[q] = t[q]
  BY DEF Drop
<1>2. DOMAIN u \subseteq Seq(S)
  BY <1>1 DEF Tree
<1>3. t[p].type # "DIR"
  BY DEF isFileExist
<1>4. \A q \in DOMAIN u : \A n \in 1 .. Len(q) - 1 :
          SubSeq(q, 1, n) \in DOMAIN u /\ u[SubSeq(q, 1, n)].type = "DIR"
  <2> HIDE DEF u
  <2> TAKE q \in DOMAIN u
  <2> TAKE n \in 1 .. Len(q) - 1
  <2>1. q \in DOMAIN t
    BY <1>1
  <2>2. SubSeq(q, 1, n) \in DOMAIN t /\ t[SubSeq(q, 1, n)].type = "DIR"
    BY <2>1, PrefixInTree
  <2>3. SubSeq(q, 1, n) # p
    BY <1>3, <2>2, Zenon
  <2> QED
    BY <1>1, <2>2, <2>3, Zenon
<1> HIDE DEF u
<1>5. Tree(S, u)
  BY <1>2, <1>4, TreeIntro
<1> QED
  BY <1>5 DEF u

\* deleteDirectory removes a node and everything below it.
LEMMA DropTree ==
    ASSUME NEW S, NEW t, Tree(S, t), NEW d \in Seq(S), d # <<>>
    PROVE  Tree(S, Drop(t, {q \in DOMAIN t : q = d \/ Below(q, d)}))
<1> DEFINE u == Drop(t, {q \in DOMAIN t : q = d \/ Below(q, d)})
<1>1. /\ DOMAIN u = {q \in DOMAIN t : q # d /\ ~Below(q, d)}
      /\ \A q \in DOMAIN u : u[q] = t[q]
  BY DEF Drop
<1>2. DOMAIN u \subseteq Seq(S)
  BY <1>1, Zenon DEF Tree
<1> HIDE DEF u
<1>3. ASSUME NEW q \in DOMAIN u, NEW n \in 1 .. Len(q) - 1
      PROVE  SubSeq(q, 1, n) \in DOMAIN u /\ u[SubSeq(q, 1, n)].type = "DIR"
  <2>1. q \in DOMAIN t /\ q \in Seq(S) /\ ~Below(q, d)
    BY <1>1, <1>2
  <2>2. SubSeq(q, 1, n) \in DOMAIN t /\ t[SubSeq(q, 1, n)].type = "DIR"
    BY <2>1, PrefixInTree
  <2>3. SubSeq(q, 1, n) # d /\ ~Below(SubSeq(q, 1, n), d)
    BY <2>1, BelowPrefix
  <2> QED
    BY <1>1, <2>2, <2>3, Zenon
<1>4. Tree(S, u)
  BY <1>2, <1>3, TreeIntro
<1> QED
  BY <1>4 DEF u

-----------------------------------------------------------------------------
(* Renaming.                                                               *)

\* The new path of a node below the one that is renamed.
Moved(p, old, new) == new \o SubSeq(p, Len(old) + 1, Len(p))

\* It is the directory's new path, and then what followed the old one.
LEMMA MovedPath ==
    ASSUME NEW S, NEW p \in Seq(S), NEW old \in Seq(S), NEW new \in Seq(S), Below(p, old)
    PROVE  /\ Moved(p, old, new) \in Seq(S)
           /\ Len(Moved(p, old, new)) = Len(new) + Len(p) - Len(old)
           /\ \A i \in 1 .. Len(new) : Moved(p, old, new)[i] = new[i]
           /\ \A i \in Len(new) + 1 .. Len(Moved(p, old, new)) :
                 Moved(p, old, new)[i] = p[i - Len(new) + Len(old)]
<1> DEFINE a == Len(old)
           rest == SubSeq(p, a + 1, Len(p))
           q == Moved(p, old, new)
<1>0. q = new \o rest
  BY DEF Moved
<1>1. a \in Nat /\ Len(p) \in Nat /\ Len(new) \in Nat /\ Len(p) > a
  BY LenProperties DEF Below
<1>2. \A i \in a + 1 .. Len(p) : p[i] \in S
  BY <1>1, ElementOfSeq
<1>3. /\ rest \in Seq(S)
      /\ Len(rest) = Len(p) - a
      /\ \A i \in 1 .. Len(p) - a : rest[i] = p[a + i]
  <2> HIDE DEF a
  <2>1. /\ rest \in Seq(S)
        /\ Len(rest) = IF a + 1 <= Len(p) THEN Len(p) - (a + 1) + 1 ELSE 0
        /\ \A i \in 1 .. Len(p) - (a + 1) + 1 : rest[i] = p[(a + 1) + i - 1]
    BY <1>1, <1>2, SubSeqProperties
  <2> HIDE DEF rest
  <2> QED
    BY <1>1, <2>1
<1> HIDE DEF rest
<1>4. /\ q \in Seq(S) /\ Len(q) = Len(new) + Len(rest)
      /\ \A i \in 1 .. Len(new) + Len(rest) :
            q[i] = IF i <= Len(new) THEN new[i] ELSE rest[i - Len(new)]
  <2>1. /\ new \o rest \in Seq(S) /\ Len(new \o rest) = Len(new) + Len(rest)
        /\ \A i \in 1 .. Len(new) + Len(rest) :
              (new \o rest)[i] = IF i <= Len(new) THEN new[i] ELSE rest[i - Len(new)]
    BY <1>3, ConcatProperties, Zenon
  <2> QED
    BY <1>0, <2>1, Zenon
<1> HIDE DEF a, q
<1>5. Len(q) = Len(new) + Len(p) - a
  BY <1>1, <1>3, <1>4
<1>6. ASSUME NEW i \in 1 .. Len(new) PROVE q[i] = new[i]
  <2>1. i \in 1 .. Len(new) + Len(rest) /\ i <= Len(new)
    BY <1>1, <1>3
  <2> QED
    BY <1>4, <2>1
<1>7. ASSUME NEW i \in Len(new) + 1 .. Len(q) PROVE q[i] = p[i - Len(new) + a]
  <2> DEFINE j == i - Len(new)
  <2>1. j \in 1 .. Len(p) - a /\ i \in 1 .. Len(new) + Len(rest) /\ ~(i <= Len(new))
    BY <1>1, <1>3, <1>5
  <2>2. q[i] = rest[j]
    BY <1>4, <2>1
  <2>3. rest[j] = p[a + j]
    BY <1>3, <2>1
  <2>4. a + j = i - Len(new) + a
    BY <1>1, <2>1
  <2> QED
    BY <2>2, <2>3, <2>4
<1> QED
  BY <1>4, <1>5, <1>6, <1>7, Zenon DEF a, q

\* The prefixes of the new path: those of the directory's new path, that
\* path, and the new paths of what lay between.
LEMMA MovedPrefix ==
    ASSUME NEW S, NEW p \in Seq(S), NEW old \in Seq(S), NEW new \in Seq(S),
           old # <<>>, new # <<>>, Below(p, old),
           NEW q, q = Moved(p, old, new),
           NEW n \in 1 .. Len(q) - 1
    PROVE  \/ n \in 1 .. Len(new) - 1 /\ SubSeq(q, 1, n) = SubSeq(new, 1, n)
           \/ SubSeq(q, 1, n) = new
           \/ \E m \in 1 .. Len(p) - 1 :
                 /\ Below(SubSeq(p, 1, m), old)
                 /\ SubSeq(q, 1, n) = Moved(SubSeq(p, 1, m), old, new)
<1>1. /\ q \in Seq(S)
      /\ Len(q) = Len(new) + Len(p) - Len(old)
      /\ \A i \in 1 .. Len(new) : q[i] = new[i]
      /\ \A i \in Len(new) + 1 .. Len(q) : q[i] = p[i - Len(new) + Len(old)]
  BY MovedPath
<1>2. /\ Len(p) \in Nat /\ Len(old) \in Nat /\ Len(new) \in Nat /\ Len(q) \in Nat
      /\ Len(old) # 0 /\ Len(new) # 0
  BY <1>1, LenProperties, EmptySeq
<1>3. n \in 1 .. Len(q)
  BY <1>2
<1>4. /\ SubSeq(q, 1, n) \in Seq(S) /\ Len(SubSeq(q, 1, n)) = n
      /\ \A i \in 1 .. n : SubSeq(q, 1, n)[i] = q[i]
  BY <1>1, <1>3, PrefixIsPath
<1>5. Len(p) > Len(old) /\ SubSeq(p, 1, Len(old)) = old
  BY DEF Below
<1>6. CASE n < Len(new)
  <2>1. n \in 1 .. Len(new) - 1 /\ n \in 1 .. Len(new)
    BY <1>2, <1>6
  <2>2. /\ SubSeq(new, 1, n) \in Seq(S) /\ Len(SubSeq(new, 1, n)) = n
        /\ \A i \in 1 .. n : SubSeq(new, 1, n)[i] = new[i]
    BY <2>1, PrefixIsPath
  <2>3. ASSUME NEW i \in 1 .. n PROVE SubSeq(q, 1, n)[i] = SubSeq(new, 1, n)[i]
    <3>1. i \in 1 .. Len(new)
      BY <1>2, <2>1
    <3> QED
      BY <1>1, <1>4, <2>2, <3>1, Zenon
  <2>4. SubSeq(q, 1, n) = SubSeq(new, 1, n)
    BY <1>4, <2>2, <2>3, SeqEqual
  <2> QED
    BY <2>1, <2>4
<1>7. CASE n = Len(new)
  <2>1. \A i \in 1 .. n : SubSeq(q, 1, n)[i] = new[i]
    BY <1>1, <1>4, <1>7, Zenon
  <2>2. SubSeq(q, 1, n) = new
    BY <1>4, <1>7, <2>1, SeqEqual
  <2> QED
    BY <2>2
<1>8. CASE n > Len(new)
  <2> DEFINE m == n - Len(new) + Len(old)
             a == SubSeq(p, 1, m)
             b == Moved(a, old, new)
  <2>1. m \in 1 .. Len(p) - 1 /\ m \in 1 .. Len(p) /\ m > Len(old) /\ Len(old) \in 1 .. m
    BY <1>1, <1>2, <1>3, <1>8
  <2>2. a \in Seq(S) /\ Len(a) = m /\ \A i \in 1 .. m : a[i] = p[i]
    BY <2>1, PrefixIsPath
  <2>3. SubSeq(a, 1, Len(old)) = old
    <3>1. SubSeq(a, 1, Len(old)) = SubSeq(p, 1, Len(old))
      BY <2>1, PrefixOfPrefix
    <3> QED
      BY <1>5, <3>1, Zenon
  <2>4. Below(a, old)
    <3> HIDE DEF a, m
    <3> QED
      BY <2>1, <2>2, <2>3 DEF Below
  <2>5. /\ b \in Seq(S)
        /\ Len(b) = Len(new) + Len(a) - Len(old)
        /\ \A i \in 1 .. Len(new) : b[i] = new[i]
        /\ \A i \in Len(new) + 1 .. Len(b) : b[i] = a[i - Len(new) + Len(old)]
    <3> HIDE DEF a
    <3> QED
      BY <2>2, <2>4, MovedPath, SMTT(30)
  <2> HIDE DEF b, a
  <2>6. Len(b) = n
    BY <1>2, <1>3, <2>2, <2>5
  <2>7. ASSUME NEW i \in 1 .. n PROVE q[i] = b[i]
    <3>1. CASE i <= Len(new)
      <4>1. i \in 1 .. Len(new)
        BY <1>2, <1>3, <3>1
      <4> QED
        BY <1>1, <2>5, <4>1, Zenon
    <3>2. CASE i > Len(new)
      <4> DEFINE k == i - Len(new) + Len(old)
      <4>1. i \in Len(new) + 1 .. Len(q) /\ i \in Len(new) + 1 .. Len(b) /\ k \in 1 .. m
        BY <1>2, <1>3, <2>6, <3>2
      <4>2. q[i] = p[k] /\ b[i] = a[k] /\ a[k] = p[k]
        BY <1>1, <2>2, <2>5, <4>1, Zenon
      <4> QED
        BY <4>2
    <3> QED
      BY <1>2, <1>3, <3>1, <3>2
  <2>8. \A i \in 1 .. n : SubSeq(q, 1, n)[i] = b[i]
    BY <1>4, <2>7, Zenon
  <2>9. SubSeq(q, 1, n) = b
    BY <1>4, <2>5, <2>6, <2>8, SeqEqual
  <2> QED
    BY <2>1, <2>4, <2>9, Zenon DEF a, b
<1>9. n < Len(new) \/ n = Len(new) \/ n > Len(new)
  BY <1>2, <1>3
<1> QED
  BY <1>6, <1>7, <1>8, <1>9, Zenon

\* What rename may assume when it has passed its checks, and what is moved is
\* not moved below itself.
MayMove(S, t, old, new) ==
    /\ Tree(S, t)
    /\ old \in DOMAIN t /\ old # <<>>
    /\ new \in Seq(S) /\ new # <<>> /\ new \notin DOMAIN t
    /\ parentExists(t, new)
    /\ ~Below(new, old)

\* The three kinds of nodes: the one that is renamed, those below it when it
\* is a directory, and the others, which keep their paths.
LEMMA RenamedKinds ==
    ASSUME NEW S, NEW t, NEW old, NEW new, MayMove(S, t, old, new), NEW p \in DOMAIN t
    PROVE  \/ p = old /\ Renamed(t, old, new, p) = new
           \/ /\ p # old /\ t[old].type = "DIR" /\ Below(p, old)
              /\ Renamed(t, old, new, p) = Moved(p, old, new)
           \/ /\ p # old /\ ~(t[old].type = "DIR" /\ Below(p, old))
              /\ Renamed(t, old, new, p) = p
BY DEF MayMove, Renamed, Moved

\* A moved path begins with the directory's new path and is longer.
LEMMA MovedIsBelow ==
    ASSUME NEW S, NEW p \in Seq(S), NEW old \in Seq(S), NEW new \in Seq(S),
           old # <<>>, new # <<>>, Below(p, old)
    PROVE  /\ Len(new) \in 1 .. Len(Moved(p, old, new)) - 1
           /\ SubSeq(Moved(p, old, new), 1, Len(new)) = new
<1> DEFINE q == Moved(p, old, new)
<1>1. /\ q \in Seq(S) /\ Len(q) = Len(new) + Len(p) - Len(old)
      /\ \A i \in 1 .. Len(new) : q[i] = new[i]
  BY MovedPath
<1>2. /\ Len(p) \in Nat /\ Len(old) \in Nat /\ Len(new) \in Nat /\ Len(new) # 0
      /\ Len(p) > Len(old)
  BY LenProperties, EmptySeq DEF Below
<1> HIDE DEF q
<1>3. Len(new) \in 1 .. Len(q) - 1 /\ Len(new) \in 1 .. Len(q)
  BY <1>1, <1>2
<1>4. /\ SubSeq(q, 1, Len(new)) \in Seq(S) /\ Len(SubSeq(q, 1, Len(new))) = Len(new)
      /\ \A i \in 1 .. Len(new) : SubSeq(q, 1, Len(new))[i] = q[i]
  BY <1>1, <1>3, PrefixIsPath
<1>5. \A i \in 1 .. Len(new) : SubSeq(q, 1, Len(new))[i] = new[i]
  BY <1>1, <1>4, Zenon
<1>6. SubSeq(q, 1, Len(new)) = new
  BY <1>4, <1>5, SeqEqual
<1> QED
  BY <1>3, <1>6 DEF q

\* Two nodes below the directory do not get the same path.
LEMMA MovedInjective ==
    ASSUME NEW S, NEW p \in Seq(S), NEW r \in Seq(S), NEW old \in Seq(S),
           NEW new \in Seq(S), old # <<>>, Below(p, old), Below(r, old)
    PROVE  Moved(p, old, new) = Moved(r, old, new) => p = r
<1> DEFINE q == Moved(p, old, new)
           x == Moved(r, old, new)
<1>1. /\ Len(q) = Len(new) + Len(p) - Len(old)
      /\ \A i \in Len(new) + 1 .. Len(q) : q[i] = p[i - Len(new) + Len(old)]
  BY MovedPath
<1>2. /\ Len(x) = Len(new) + Len(r) - Len(old)
      /\ \A i \in Len(new) + 1 .. Len(x) : x[i] = r[i - Len(new) + Len(old)]
  BY MovedPath
<1> HIDE DEF q, x
<1> SUFFICES ASSUME q = x PROVE p = r
  BY DEF q, x
<1>3. /\ Len(q) = Len(new) + Len(r) - Len(old)
      /\ \A i \in Len(new) + 1 .. Len(q) : q[i] = r[i - Len(new) + Len(old)]
  BY <1>2, Zenon
<1>4. /\ Len(p) \in Nat /\ Len(r) \in Nat /\ Len(old) \in Nat /\ Len(new) \in Nat
      /\ Len(old) # 0
  BY LenProperties, EmptySeq
<1>5. Len(p) = Len(r)
  BY <1>1, <1>3, <1>4
<1>6. Len(p) > Len(old) /\ SubSeq(p, 1, Len(old)) = old /\ SubSeq(r, 1, Len(old)) = old
  BY DEF Below
<1>7. Len(old) \in 1 .. Len(p)
  BY <1>4, <1>6
<1>8. /\ \A i \in 1 .. Len(old) : SubSeq(p, 1, Len(old))[i] = p[i]
      /\ \A i \in 1 .. Len(old) : SubSeq(r, 1, Len(old))[i] = r[i]
  BY <1>5, <1>7, PrefixIsPath
<1>9. ASSUME NEW i \in 1 .. Len(p) PROVE p[i] = r[i]
  <2>1. CASE i <= Len(old)
    <3>1. i \in 1 .. Len(old)
      BY <1>4, <2>1
    <3> QED
      BY <1>6, <1>8, <3>1, Zenon
  <2>2. CASE i > Len(old)
    <3> DEFINE k == i - Len(old) + Len(new)
    <3>1. k \in Len(new) + 1 .. Len(q) /\ k - Len(new) + Len(old) = i
      BY <1>1, <1>4, <2>2
    <3> HIDE DEF k
    <3>2. q[k] = p[k - Len(new) + Len(old)] /\ q[k] = r[k - Len(new) + Len(old)]
      BY <1>1, <1>3, <3>1, Zenon
    <3> QED
      BY <3>1, <3>2, Zenon
  <2> QED
    BY <1>4, <2>1, <2>2
<1> QED
  BY <1>5, <1>9, SeqEqual

\* No two nodes end at the same path: an old node at the new path of a moved
\* one would lie below new, and new would be in the table.
LEMMA RenamedInjective ==
    ASSUME NEW S, NEW t, NEW old, NEW new, MayMove(S, t, old, new),
           NEW p \in DOMAIN t, NEW r \in DOMAIN t,
           Renamed(t, old, new, p) = Renamed(t, old, new, r)
    PROVE  p = r
<1>1. /\ Tree(S, t) /\ p \in Seq(S) /\ r \in Seq(S) /\ old \in Seq(S) /\ new \in Seq(S)
      /\ old # <<>> /\ new # <<>> /\ new \notin DOMAIN t
  BY DEF MayMove, Tree
<1>2. ASSUME NEW a \in DOMAIN t, Below(a, old)
      PROVE  Moved(a, old, new) \notin DOMAIN t /\ Moved(a, old, new) # new
  <2>1. a \in Seq(S)
    BY <1>1 DEF Tree
  <2>2. /\ Len(new) \in 1 .. Len(Moved(a, old, new)) - 1
        /\ SubSeq(Moved(a, old, new), 1, Len(new)) = new
    BY <1>1, <1>2, <2>1, MovedIsBelow
  <2>3. Moved(a, old, new) \notin DOMAIN t
    <3>1. SUFFICES ASSUME Moved(a, old, new) \in DOMAIN t PROVE FALSE
      OBVIOUS
    <3>2. SubSeq(Moved(a, old, new), 1, Len(new)) \in DOMAIN t
      BY <1>1, <2>2, <3>1, PrefixInTree
    <3> QED
      BY <1>1, <2>2, <3>2, Zenon
  <2>4. Moved(a, old, new) # new
    <3>1. Len(new) \in Nat
      BY <1>1, LenProperties
    <3>2. Len(new) \notin 1 .. Len(new) - 1
      BY <3>1
    <3> QED
      BY <2>2, <3>2, Zenon
  <2> QED
    BY <2>3, <2>4
<1>3. ASSUME NEW a \in DOMAIN t
      PROVE  \/ a = old /\ Renamed(t, old, new, a) = new
             \/ a # old /\ Below(a, old) /\ Renamed(t, old, new, a) = Moved(a, old, new)
             \/ a # old /\ Renamed(t, old, new, a) = a
  BY RenamedKinds
<1>4. Below(p, old) /\ Below(r, old) /\ Moved(p, old, new) = Moved(r, old, new) => p = r
  BY <1>1, MovedInjective, Zenon
<1> QED
  BY <1>1, <1>2, <1>3, <1>4, Zenon

\* rename keeps the tree, and gives every node its new path.
LEMMA RenameTree ==
    ASSUME NEW S, NEW t, NEW old, NEW new, MayMove(S, t, old, new),
           NEW u, u = [q \in {Renamed(t, old, new, p) : p \in DOMAIN t} |->
                          t[CHOOSE p \in DOMAIN t : Renamed(t, old, new, p) = q]]
    PROVE  /\ Tree(S, u)
           /\ \A p \in DOMAIN t : u[Renamed(t, old, new, p)] = t[p]
<1> DEFINE R(p) == Renamed(t, old, new, p)
<1>1. /\ Tree(S, t) /\ DOMAIN t \subseteq Seq(S) /\ old \in DOMAIN t /\ new \in Seq(S)
      /\ old # <<>> /\ new # <<>> /\ old \in Seq(S)
      /\ parentExists(t, new) /\ ~Below(new, old)
  BY DEF MayMove, Tree
<1>2. DOMAIN u = {R(p) : p \in DOMAIN t}
  OBVIOUS
<1>3. ASSUME NEW p \in DOMAIN t PROVE u[R(p)] = t[p]
  <2>1. \A r \in DOMAIN t : R(r) = R(p) => r = p
    BY RenamedInjective
  <2>2. (CHOOSE r \in DOMAIN t : R(r) = R(p)) = p
    <3> HIDE DEF R
    <3> QED
      BY <2>1
  <2>3. u[R(p)] = t[CHOOSE r \in DOMAIN t : R(r) = R(p)]
    OBVIOUS
  <2> QED
    BY <2>2, <2>3
<1>4. ASSUME NEW p \in DOMAIN t
      PROVE  \/ p = old /\ R(p) = new
             \/ p # old /\ t[old].type = "DIR" /\ Below(p, old) /\ R(p) = Moved(p, old, new)
             \/ p # old /\ ~(t[old].type = "DIR" /\ Below(p, old)) /\ R(p) = p
  BY RenamedKinds
<1> HIDE DEF R
<1>5. DOMAIN u \subseteq Seq(S)
  <2>1. ASSUME NEW p \in DOMAIN t PROVE R(p) \in Seq(S)
    <3>1. p \in Seq(S)
      BY <1>1
    <3>2. Below(p, old) => Moved(p, old, new) \in Seq(S)
      BY <1>1, <3>1, MovedPath
    <3> QED
      BY <1>1, <1>4, <3>1, <3>2, Zenon
  <2> QED
    BY <1>2, <2>1, Zenon
<1>6. ASSUME NEW n \in 1 .. Len(new) - 1
      PROVE  \E a \in DOMAIN t : R(a) = SubSeq(new, 1, n) /\ t[a].type = "DIR"
  <2>1. SubSeq(new, 1, n) \in DOMAIN t /\ t[SubSeq(new, 1, n)].type = "DIR"
    BY <1>1, ParentGivesPrefixes
  <2>2. SubSeq(new, 1, n) # old /\ ~Below(SubSeq(new, 1, n), old)
    BY <1>1, BelowPrefix
  <2> QED
    BY <1>4, <2>1, <2>2, Zenon
<1>7. ASSUME NEW p \in DOMAIN t, NEW n \in 1 .. Len(R(p)) - 1
      PROVE  \E a \in DOMAIN t : R(a) = SubSeq(R(p), 1, n) /\ t[a].type = "DIR"
  <2>0. p \in Seq(S)
    BY <1>1
  <2>1. CASE p = old /\ R(p) = new
    BY <1>6, <1>7, <2>1, Zenon
  <2>2. CASE t[old].type = "DIR" /\ Below(p, old) /\ R(p) = Moved(p, old, new)
    <3>1. \/ n \in 1 .. Len(new) - 1 /\ SubSeq(R(p), 1, n) = SubSeq(new, 1, n)
          \/ SubSeq(R(p), 1, n) = new
          \/ \E m \in 1 .. Len(p) - 1 :
                /\ Below(SubSeq(p, 1, m), old)
                /\ SubSeq(R(p), 1, n) = Moved(SubSeq(p, 1, m), old, new)
      BY <1>1, <1>7, <2>0, <2>2, MovedPrefix, SMTT(30)
    <3>2. CASE n \in 1 .. Len(new) - 1 /\ SubSeq(R(p), 1, n) = SubSeq(new, 1, n)
      BY <1>6, <3>2, Zenon
    <3>3. CASE SubSeq(R(p), 1, n) = new
      <4>1. R(old) = new
        BY <1>1, <1>4, Zenon
      <4> QED
        BY <1>1, <2>2, <3>3, <4>1, Zenon
    <3>4. ASSUME NEW m \in 1 .. Len(p) - 1, Below(SubSeq(p, 1, m), old),
                 SubSeq(R(p), 1, n) = Moved(SubSeq(p, 1, m), old, new)
          PROVE  \E a \in DOMAIN t : R(a) = SubSeq(R(p), 1, n) /\ t[a].type = "DIR"
      <4>1. SubSeq(p, 1, m) \in DOMAIN t /\ t[SubSeq(p, 1, m)].type = "DIR"
        BY <1>1, PrefixInTree
      <4>2. SubSeq(p, 1, m) # old
        <5>1. Len(old) \in Nat /\ ~(Len(old) > Len(old))
          BY <1>1, LenProperties
        <5> QED
          BY <3>4, <5>1, Zenon DEF Below
      <4> QED
        BY <1>4, <2>2, <3>4, <4>1, <4>2, Zenon
    <3> QED
      BY <3>1, <3>2, <3>3, <3>4, Zenon
  <2>3. CASE p # old /\ ~(t[old].type = "DIR" /\ Below(p, old)) /\ R(p) = p
    <3>1. n \in 1 .. Len(p) - 1
      BY <1>7, <2>3, Zenon
    <3>2. SubSeq(p, 1, n) \in DOMAIN t /\ t[SubSeq(p, 1, n)].type = "DIR"
      BY <1>1, <3>1, PrefixInTree
    <3>3. SubSeq(p, 1, n) = old \/ Below(SubSeq(p, 1, n), old) => Below(p, old)
      BY <1>1, <2>0, <3>1, BelowPrefix
    <3> QED
      BY <1>4, <2>3, <3>2, <3>3, Zenon
  <2> QED
    BY <1>4, <2>1, <2>2, <2>3, Zenon
<1>8. ASSUME NEW q \in DOMAIN u, NEW n \in 1 .. Len(q) - 1
      PROVE  SubSeq(q, 1, n) \in DOMAIN u /\ u[SubSeq(q, 1, n)].type = "DIR"
  <2>1. PICK p \in DOMAIN t : q = R(p)
    BY <1>2, <1>8, Zenon
  <2>2. PICK a \in DOMAIN t : R(a) = SubSeq(q, 1, n) /\ t[a].type = "DIR"
    BY <1>7, <1>8, <2>1, Zenon
  <2>3. u[R(a)] = t[a] /\ R(a) \in DOMAIN u
    BY <1>2, <1>3, Zenon
  <2> QED
    BY <2>2, <2>3, Zenon
<1>9. Tree(S, u)
  BY <1>5, <1>8, Zenon DEF Tree, isDirExist
<1> QED
  BY <1>3, <1>9 DEF R

-----------------------------------------------------------------------------
(* The operations.                                                         *)

\* A file is written, or made where its directory is.
LEMMA PutContentKeepsTree ==
    ASSUME NEW S, NEW t, Tree(S, t), NEW p \in Seq(S), NEW content, NEW append
    PROVE  Tree(S, putContent(t, p, content, append).t)
BY PutNew, PutOver DEF putContent, MayCreate, Done, Refused

\* createFile and touch make files only through putContent.
LEMMA CreateFileKeepsTree ==
    ASSUME NEW S, NEW t, Tree(S, t), NEW p \in Seq(S), NEW content
    PROVE  Tree(S, createFile(t, p, content).t) /\ Tree(S, touch(t, p).t)
BY PutContentKeepsTree, Zenon DEF createFile, touch, Done, Refused

\* editFile writes to a file that is there.
LEMMA EditFileKeepsTree ==
    ASSUME NEW S, NEW t, Tree(S, t), NEW p, NEW offset, NEW content
    PROVE  Tree(S, editFile(t, p, offset, content).t)
<1>1. ASSUME isFileExist(t, p), NEW node PROVE Tree(S, Put(t, p, node))
  BY <1>1, PutOver
<1> QED
  BY <1>1 DEF editFile, Done, Refused

\* A directory is made where its own directory is.
LEMMA CreateDirectoryKeepsTree ==
    ASSUME NEW S, NEW t, Tree(S, t), NEW p \in Seq(S)
    PROVE  Tree(S, createDirectory(t, p).t)
BY PutNew DEF createDirectory, MayCreate, Done, Refused

\* Nothing lies below a file.
LEMMA DeleteFileKeepsTree ==
    ASSUME NEW S, NEW t, Tree(S, t), NEW p
    PROVE  Tree(S, deleteFile(t, p).t)
BY DropFile DEF deleteFile, Done, Refused

\* What lies below a directory goes with it.
LEMMA DeleteDirectoryKeepsTree ==
    ASSUME NEW S, NEW t, Tree(S, t), NEW p \in Seq(S)
    PROVE  Tree(S, deleteDirectory(t, p).t)
BY DropTree DEF deleteDirectory, Done, Refused

\* What lies below a directory moves with it.
LEMMA RenameKeepsTree ==
    ASSUME NEW S, NEW t, Tree(S, t), NEW old, NEW new \in Seq(S), ~Below(new, old)
    PROVE  Tree(S, rename(t, old, new).t)
<1> DEFINE u == [q \in {Renamed(t, old, new, p) : p \in DOMAIN t} |->
                    t[CHOOSE p \in DOMAIN t : Renamed(t, old, new, p) = q]]
<1>1. \/ rename(t, old, new).t = u /\ MayMove(S, t, old, new)
      \/ rename(t, old, new).t = t
  BY DEF rename, Done, Refused, MayMove
<1>2. MayMove(S, t, old, new) => Tree(S, u)
  BY RenameTree
<1> QED
  BY <1>1, <1>2, Zenon

\* A copy is made where its directory is.
LEMMA CopyFileKeepsTree ==
    ASSUME NEW S, NEW t, Tree(S, t), NEW src, NEW dst \in Seq(S)
    PROVE  Tree(S, copyFile(t, src, dst).t)
BY PutNew DEF copyFile, MayCreate, Done, Refused

=============================================================================
