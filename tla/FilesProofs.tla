---------------------------- MODULE FilesProofs ----------------------------
(* What the file commands promise, for any paths, any contents and any number *)
(* of commands, game-server writes, failures and crashes.                     *)
(*                                                                            *)
(* The first half is about paths and trees: Under is an order, Rebase moves   *)
(* what is below a path and back, and making, putting, removing and renaming  *)
(* leave a tree.  The inductive invariant, FilesInv, says that the volume is  *)
(* a tree, that what a task has open is a file, and of every command nobody   *)
(* disturbed how far it has taken the volume it found (Stage) and that it has *)
(* touched nothing else (Confined).                                           *)
EXTENDS Files, TLAPS

-----------------------------------------------------------------------------
\* Paths

\* Everything is under the paths that lead to it.
LEMMA UnderIsOrder ==
    ASSUME NEW p \in Seq(Names), NEW q \in Seq(Names), NEW r \in Seq(Names)
    PROVE  /\ Under(p, p)
           /\ Under(r, q) /\ Under(q, p) => Under(r, p)
           /\ Under(p, q) /\ Under(q, p) => p = q
           /\ Under(r, p) /\ Under(r, q) => Under(p, q) \/ Under(q, p)
BY SMT DEF Under

\* What leads to a path is a path.
LEMMA LeadingIsPath ==
    ASSUME NEW p \in Paths, NEW q \in Seq(Names), Under(p, q)
    PROVE  q \in Paths
<1>1. Len(q) \in 0..Len(p) /\ p \in Seq(Names) BY SMT, PathsAssumption DEF Under
<1>2. SubSeq(p, 1, Len(q)) = q BY SMT, <1>1 DEF Under
<1> QED BY <1>1, <1>2, PathsAssumption

\* m is what r, below p, becomes when p becomes q.
Moved(m, r, p, q) ==
    /\ m \in Seq(Names)
    /\ Len(m) = Len(q) + (Len(r) - Len(p))
    /\ \A i \in 1..Len(q) : m[i] = q[i]
    /\ \A i \in (Len(p) + 1)..Len(r) : m[(i + Len(q)) - Len(p)] = r[i]

\* Rebase keeps what is below and replaces what leads to it.
LEMMA RebaseMoves ==
    ASSUME NEW p \in Seq(Names), NEW q \in Seq(Names), NEW r \in Seq(Names), Under(r, p)
    PROVE  Moved(Rebase(r, p, q), r, p, q)
<1> DEFINE rest == SubSeq(r, Len(p) + 1, Len(r))
<1>1. /\ rest \in Seq(Names) /\ Len(rest) = Len(r) - Len(p)
      /\ \A i \in 1..(Len(r) - Len(p)) : rest[i] = r[Len(p) + i]
  BY SMT DEF Under
<1> HIDE DEF rest
<1>2. Rebase(r, p, q) = q \o rest BY DEF Rebase, rest
<1>0. rest \in Seq(Names) BY <1>1
<1>3. /\ q \o rest \in Seq(Names) /\ Len(q \o rest) = Len(q) + Len(rest)
      /\ \A i \in 1..Len(q) : (q \o rest)[i] = q[i]
      /\ \A i \in 1..Len(rest) : (q \o rest)[Len(q) + i] = rest[i]
  BY SMT, <1>0
<1>4. Len(p) \in Nat /\ Len(q) \in Nat /\ Len(r) \in Nat /\ Len(p) <= Len(r) BY SMT DEF Under
<1>5. ASSUME NEW i \in (Len(p) + 1)..Len(r) PROVE (q \o rest)[(i + Len(q)) - Len(p)] = r[i]
  <2> DEFINE j == i - Len(p)
  <2>1. /\ j \in 1..Len(rest) /\ j \in 1..(Len(r) - Len(p))
        /\ Len(q) + j = (i + Len(q)) - Len(p) /\ Len(p) + j = i
    BY SMT, <1>1, <1>4
  <2>2. (q \o rest)[Len(q) + j] = rest[j] /\ rest[j] = r[Len(p) + j] BY <1>1, <1>3, <2>1
  <2> QED BY <2>1, <2>2
<1>6. Moved(q \o rest, r, p, q) BY <1>1, <1>3, <1>5 DEF Moved
<1> QED BY <1>2, <1>6

\* What is moved is below the new name, moving it back undoes it, and moving
\* it to where it is changes nothing.
LEMMA RebaseUnder ==
    ASSUME NEW p \in Seq(Names), NEW q \in Seq(Names), NEW r \in Seq(Names), Under(r, p)
    PROVE  /\ Under(Rebase(r, p, q), q)
           /\ Rebase(Rebase(r, p, q), q, p) = r
           /\ Rebase(r, p, p) = r
           /\ Rebase(p, p, q) = q
           /\ r # p => Rebase(r, p, q) # q
<1>1. Under(Rebase(r, p, q), q)
  <2>1. /\ Rebase(r, p, q) \in Seq(Names) /\ Len(Rebase(r, p, q)) = Len(q) + (Len(r) - Len(p))
        /\ \A i \in 1..Len(q) : Rebase(r, p, q)[i] = q[i]
    BY ZenonT(30), RebaseMoves DEF Moved
  <2>2. Len(q) <= Len(q) + (Len(r) - Len(p)) BY SMT DEF Under
  <2> QED BY Zenon, <2>1, <2>2 DEF Under
<1>2. Rebase(Rebase(r, p, q), q, p) = r
  <2>0. PICK m : m = Rebase(r, p, q) OBVIOUS
  <2>9. PICK b : b = Rebase(m, q, p) OBVIOUS
  <2>1. Moved(m, r, p, q) /\ Under(m, q) BY <1>1, <2>0, RebaseMoves
  <2>8. m \in Seq(Names) BY <2>1 DEF Moved
  <2>2. Moved(b, m, q, p) BY <2>1, <2>8, <2>9, RebaseMoves
  <2>3. Len(b) = Len(r) /\ Len(r) \in Nat /\ Len(p) \in Nat /\ Len(q) \in Nat /\ Len(p) <= Len(r)
    BY SMT, <2>1, <2>2 DEF Under, Moved
  <2>4. ASSUME NEW i \in 1..Len(r) PROVE b[i] = r[i]
    <3>1. CASE i <= Len(p) BY SMT, <2>2, <2>3, <3>1 DEF Under, Moved
    <3>2. CASE i > Len(p)
      <4>0. i \in (Len(p) + 1)..Len(r) BY SMT, <2>3, <3>2
      <4>1. m[(i + Len(q)) - Len(p)] = r[i] BY Zenon, <2>1, <4>0 DEF Moved
      <4> DEFINE j == (i + Len(q)) - Len(p)
      <4>2. j \in (Len(q) + 1)..Len(m) /\ (j + Len(p)) - Len(q) = i BY SMT, <2>1, <2>3, <3>2 DEF Moved
      <4>3. b[(j + Len(p)) - Len(q)] = m[j] BY ZenonT(30), <2>2, <4>2 DEF Moved
      <4> QED BY <4>1, <4>2, <4>3
    <3> QED BY SMT, <2>3, <3>1, <3>2
  <2>5. b = r BY SMTT(30), <2>2, <2>3, <2>4 DEF Moved
  <2> QED BY <2>0, <2>5, <2>9
<1>3. Rebase(r, p, p) = r
  <2>0. PICK m : m = Rebase(r, p, p) OBVIOUS
  <2>1. Moved(m, r, p, p) BY <2>0, RebaseMoves
  <2>2. Len(m) = Len(r) /\ \A i \in 1..Len(r) : m[i] = r[i] BY SMTT(30), <2>1 DEF Under, Moved
  <2>3. m = r BY SMTT(30), <2>1, <2>2 DEF Moved
  <2> QED BY <2>0, <2>3
<1>4. Under(p, p) BY UnderIsOrder
<1>5. Rebase(p, p, q) = q
  <2>0. PICK m : m = Rebase(p, p, q) OBVIOUS
  <2>1. Moved(m, p, p, q) BY <1>4, <2>0, RebaseMoves
  <2>2. Len(m) = Len(q) BY SMT, <2>1 DEF Moved
  <2>3. m = q BY SMT, <2>1, <2>2 DEF Moved
  <2> QED BY <2>0, <2>3
<1>6. r # p => Rebase(r, p, q) # q
  <2> SUFFICES ASSUME Rebase(r, p, q) = q PROVE r = p OBVIOUS
  <2>1. Len(r) = Len(p) 
    <3>1. Len(Rebase(r, p, q)) = Len(q) + (Len(r) - Len(p)) BY Zenon, RebaseMoves DEF Moved
    <3> QED BY SMT, <3>1 DEF Under
  <2> QED BY SMT, <2>1 DEF Under
<1> QED BY <1>1, <1>2, <1>3, <1>5, <1>6

\* What leads to a path is moved with it.
LEMMA RebaseLeading ==
    ASSUME NEW p \in Seq(Names), NEW q \in Seq(Names), NEW r \in Seq(Names), NEW s \in Seq(Names),
           Under(r, s), Under(s, p)
    PROVE  Under(Rebase(r, p, q), Rebase(s, p, q))
<1>1. Under(r, p) BY UnderIsOrder
<1>0. PICK m, n : m = Rebase(r, p, q) /\ n = Rebase(s, p, q) OBVIOUS
<1>2. Moved(m, r, p, q) BY <1>0, <1>1, RebaseMoves
<1>3. Moved(n, s, p, q) BY <1>0, RebaseMoves
<1>4. /\ Len(p) \in Nat /\ Len(q) \in Nat /\ Len(r) \in Nat /\ Len(s) \in Nat
      /\ Len(p) <= Len(s) /\ Len(s) <= Len(r)
  BY SMT DEF Under
<1>5. Len(n) <= Len(m) BY SMT, <1>2, <1>3, <1>4 DEF Moved
<1>6. ASSUME NEW i \in 1..Len(n) PROVE m[i] = n[i]
  <2>1. CASE i <= Len(q) BY SMT, <1>2, <1>3, <1>4, <2>1 DEF Moved
  <2>2. CASE i > Len(q)
    <3> DEFINE j == (i + Len(p)) - Len(q)
    <3>1. /\ j \in (Len(p) + 1)..Len(s) /\ j \in (Len(p) + 1)..Len(r)
          /\ (j + Len(q)) - Len(p) = i /\ j \in 1..Len(s)
      BY SMT, <1>3, <1>4, <2>2 DEF Moved
    <3>2. m[(j + Len(q)) - Len(p)] = r[j] /\ n[(j + Len(q)) - Len(p)] = s[j] BY <1>2, <1>3, <3>1 DEF Moved
    <3>3. r[j] = s[j] BY <3>1 DEF Under
    <3> QED BY <3>1, <3>2, <3>3
  <2> QED BY SMT, <1>3, <1>4, <2>1, <2>2 DEF Moved
<1>7. Under(m, n) BY <1>5, <1>6 DEF Under
<1> QED BY <1>0, <1>7

-----------------------------------------------------------------------------
\* Trees

\* Nothing, a directory or a file.
NodeOK(x) == x \in {Absent, Dir} \/ x = File(x.blocks)

\* A volume: whatever exists is in a directory.
IsTree(v) ==
    /\ v = [p \in Paths |-> v[p]]
    /\ \A p \in Paths : NodeOK(v[p]) /\ (v[p] # Absent => ParentIsDir(v, p))

\* The three kinds of node are told apart.
LEMMA Nodes ==
    /\ Absent # Dir /\ Absent.kind = "absent" /\ Dir.kind = "dir"
    /\ Absent.blocks = <<>> /\ Dir.blocks = <<>>
    /\ \A b : File(b).kind = "file" /\ File(b).blocks = b /\ File(b) # Absent /\ File(b) # Dir
BY SMT DEF Absent, Dir, File

\* What exists and is no directory is a file.
LEMMA NodeKinds ==
    ASSUME NEW x, NodeOK(x)
    PROVE  x.kind = "file" <=> (x # Absent /\ x # Dir)
BY Zenon, Nodes DEF NodeOK

\* Files, directories and nothing are nodes.
LEMMA FileIsNode ==
    ASSUME NEW b
    PROVE  NodeOK(File(b)) /\ NodeOK(Absent) /\ NodeOK(Dir)
BY Zenon, Nodes DEF NodeOK

\* The order on paths, for the paths there are.
LEMMA PathOrder ==
    ASSUME NEW p \in Paths, NEW q \in Paths, NEW r \in Paths
    PROVE  /\ Under(p, p)
           /\ Under(r, q) /\ Under(q, p) => Under(r, p)
           /\ Under(p, q) /\ Under(q, p) => p = q
           /\ Under(r, p) /\ Under(r, q) => Under(p, q) \/ Under(q, p)
<1>1. p \in Seq(Names) /\ q \in Seq(Names) /\ r \in Seq(Names) BY Zenon, PathsAssumption
<1> QED BY Zenon, <1>1, UnderIsOrder

\* Below an empty directory, and below a file, there is nothing.
LEMMA NothingBelow ==
    ASSUME NEW v, IsTree(v), NEW p \in Paths, v[p] # Dir \/ Entries(v, p) = {},
           NEW r \in Paths, Under(r, p), r # p
    PROVE  v[r] = Absent
<1> SUFFICES ASSUME v[r] # Absent PROVE FALSE OBVIOUS
<1>1. ParentIsDir(v, r) BY Zenon DEF IsTree
<1>2. v[p] = Dir BY Zenon, <1>1 DEF ParentIsDir, Parents, UpTo
<1> DEFINE e == SubSeq(r, 1, Len(p) + 1)
<1>3. r \in Seq(Names) /\ p \in Seq(Names) BY Zenon, PathsAssumption
<1>4. Len(p) + 1 \in 0..Len(r)
  <2>1. Len(p) # Len(r) BY SMT, <1>3 DEF Under
  <2> QED BY SMT, <1>3, <2>1 DEF Under
<1>5. e \in Paths BY Zenon, <1>4, PathsAssumption
<1>6. Len(e) = Len(p) + 1 /\ Under(e, p) /\ Under(r, e) BY SMT, <1>3, <1>4 DEF Under
<1> HIDE DEF e
<1>7. v[e] # Absent
  <2>1. CASE e = r BY <2>1
  <2>2. CASE e # r
    <3>1. v[e] = Dir BY Zenon, <1>1, <1>5, <1>6, <2>2 DEF ParentIsDir, Parents, UpTo
    <3> QED BY Zenon, <3>1, Nodes
  <2> QED BY <2>1, <2>2
<1>8. e \in Entries(v, p) BY Zenon, <1>5, <1>6, <1>7 DEF Entries, Below
<1> QED BY Zenon, <1>2, <1>8

\* Making directories, with all that lead to them.
LEMMA MadeTree ==
    ASSUME NEW v, IsTree(v), NEW D, \A q \in D : Parents(q) \subseteq D
    PROVE  IsTree(Made(v, D))
<1> DEFINE w == Made(v, D)
<1>1. w = [q \in Paths |-> w[q]] /\ \A q \in Paths : w[q] = IF q \in D THEN Dir ELSE v[q]
  BY Zenon DEF Made
<1> HIDE DEF w
<1>2. ASSUME NEW q \in Paths PROVE NodeOK(w[q])
  BY Zenon, <1>1, FileIsNode DEF IsTree
<1>3. ASSUME NEW q \in Paths, w[q] # Absent PROVE ParentIsDir(w, q)
  <2> SUFFICES ASSUME NEW r \in Parents(q) PROVE w[r] = Dir BY Zenon DEF ParentIsDir
  <2>0. r \in Paths BY Zenon DEF Parents, UpTo
  <2>1. CASE q \in D BY Zenon, <1>1, <2>0, <2>1
  <2>2. CASE q \notin D
    <3>1. v[r] = Dir BY Zenon, <1>1, <1>3, <2>2 DEF IsTree, ParentIsDir
    <3> QED BY Zenon, <1>1, <2>0, <3>1
  <2> QED BY <2>1, <2>2
<1>4. IsTree(w) BY Zenon, <1>1, <1>2, <1>3 DEF IsTree
<1> QED BY <1>4 DEF w

\* The volume v with the node x at p.
Put(v, p, x) == [q \in Paths |-> IF q = p THEN x ELSE v[q]]

\* Putting a file where there is none or another: its directory is there, so
\* the volume stays a tree.
LEMMA PutTree ==
    ASSUME NEW v, IsTree(v), NEW p, p \in Paths => ParentIsDir(v, p) /\ v[p] # Dir, NEW b
    PROVE  IsTree(Put(v, p, File(b)))
<1> DEFINE w == Put(v, p, File(b))
<1>1. w = [q \in Paths |-> w[q]] /\ \A q \in Paths : w[q] = IF q = p THEN File(b) ELSE v[q]
  BY Zenon DEF Put
<1> HIDE DEF w
<1>2. ASSUME NEW q \in Paths PROVE NodeOK(w[q])
  BY Zenon, <1>1, FileIsNode DEF IsTree
<1>3. ASSUME NEW q \in Paths, w[q] # Absent PROVE ParentIsDir(w, q)
  <2> SUFFICES ASSUME NEW r \in Parents(q) PROVE w[r] = Dir BY Zenon DEF ParentIsDir
  <2>0. r \in Paths BY Zenon DEF Parents, UpTo
  <2>1. v[r] = Dir BY Zenon, <1>1, <1>3 DEF IsTree, ParentIsDir
  <2> QED BY Zenon, <1>1, <2>0, <2>1
<1>4. IsTree(w) BY Zenon, <1>1, <1>2, <1>3 DEF IsTree
<1> QED BY <1>4 DEF w

\* Removing what has nothing below it.
LEMMA DropTree ==
    ASSUME NEW v, IsTree(v), NEW p \in Paths,
           \A r \in Paths : Under(r, p) /\ r # p => v[r] = Absent
    PROVE  IsTree(Put(v, p, Absent))
<1> DEFINE w == Put(v, p, Absent)
<1>1. w = [q \in Paths |-> w[q]] /\ \A q \in Paths : w[q] = IF q = p THEN Absent ELSE v[q]
  BY Zenon DEF Put
<1> HIDE DEF w
<1>2. ASSUME NEW q \in Paths PROVE NodeOK(w[q])
  BY Zenon, <1>1, FileIsNode DEF IsTree
<1>3. ASSUME NEW q \in Paths, w[q] # Absent PROVE ParentIsDir(w, q)
  <2> SUFFICES ASSUME NEW r \in Parents(q) PROVE w[r] = Dir BY Zenon DEF ParentIsDir
  <2>0. r \in Paths /\ Under(q, r) /\ r # q BY Zenon DEF Parents, UpTo
  <2>1. v[q] # Absent /\ w[q] = v[q] BY Zenon, <1>1, <1>3
  <2>2. v[r] = Dir BY Zenon, <2>1 DEF IsTree, ParentIsDir
  <2>3. r # p BY Zenon, <2>0, <2>1
  <2> QED BY Zenon, <1>1, <2>0, <2>2, <2>3
<1>4. IsTree(w) BY Zenon, <1>1, <1>2, <1>3 DEF IsTree
<1> QED BY <1>4 DEF w

\* rename(2): the conditions under which v can have p moved to q.
CanRename(v, p, q) ==
    /\ v[p] # Absent /\ ParentIsDir(v, q)
    /\ p = q \/ ~Under(q, p)
    /\ \/ v[q] = Absent \/ p = q
       \/ v[p].kind = "file" /\ v[q].kind = "file"
       \/ v[p] = Dir /\ v[q] = Dir /\ Entries(v, q) = {}
    /\ \A r \in Below(p) : v[r] # Absent => Rebase(r, p, q) \in Paths

\* Moving, for the paths there are.
LEMMA PathRebase ==
    ASSUME NEW p \in Paths, NEW q \in Paths, NEW r \in Paths, Under(r, p)
    PROVE  /\ Rebase(r, p, q) \in Seq(Names)
           /\ Under(Rebase(r, p, q), q)
           /\ Rebase(Rebase(r, p, q), q, p) = r
           /\ Rebase(r, p, p) = r
           /\ Rebase(p, p, q) = q
           /\ r # p => Rebase(r, p, q) # q
<1>1. p \in Seq(Names) /\ q \in Seq(Names) /\ r \in Seq(Names) BY Zenon, PathsAssumption
<1>2. Rebase(r, p, q) \in Seq(Names) BY Zenon, <1>1, RebaseMoves DEF Moved
<1> QED BY <1>1, <1>2, RebaseUnder

\* A rename in place changes nothing.
LEMMA RenamedInPlace ==
    ASSUME NEW v, IsTree(v), NEW p \in Paths
    PROVE  Renamed(v, p, p) = v
<1>1. ASSUME NEW r \in Paths PROVE Renamed(v, p, p)[r] = v[r]
  <2>1. Under(r, p) => Rebase(r, p, p) = r BY SMT, PathRebase
  <2> QED BY Zenon, <2>1 DEF Renamed
<1>2. Renamed(v, p, p) = [r \in Paths |-> Renamed(v, p, p)[r]] BY Zenon DEF Renamed
<1>3. v = [r \in Paths |-> v[r]] BY Zenon DEF IsTree
<1> QED BY SMT, <1>1, <1>2, <1>3

\* Otherwise nothing is below both names, and nothing is below the new one.
LEMMA RenameApart ==
    ASSUME NEW v, IsTree(v), NEW p \in Paths, NEW q \in Paths, p # q, CanRename(v, p, q)
    PROVE  /\ \A r \in Paths : ~(Under(r, p) /\ Under(r, q))
           /\ \A r \in Paths : Under(r, q) /\ r # q => v[r] = Absent
<1>1. v[p] # Absent /\ ~Under(q, p) BY Zenon DEF CanRename
<1>2. v[q] # Dir \/ Entries(v, q) = {} BY Zenon, Nodes DEF CanRename
<1>3. ASSUME NEW r \in Paths, Under(r, q), r # q PROVE v[r] = Absent
  BY Zenon, <1>2, <1>3, NothingBelow
<1>4. ~Under(p, q) BY Zenon, <1>1, <1>3
<1>5. ASSUME NEW r \in Paths, Under(r, p), Under(r, q) PROVE FALSE
  BY Zenon, <1>1, <1>4, <1>5, PathOrder
<1> QED BY Zenon, <1>3, <1>5

\* A rename leaves a tree: what moved has its directory at the new name, and
\* what stayed was in no directory that moved.
LEMMA RenamedTree ==
    ASSUME NEW v, IsTree(v), NEW p \in Paths, NEW q \in Paths, CanRename(v, p, q)
    PROVE  IsTree(Renamed(v, p, q))
<1>1. CASE p = q BY Zenon, <1>1, RenamedInPlace
<1>2. CASE p # q
  <2> DEFINE w == Renamed(v, p, q)
  <2>1. /\ w = [r \in Paths |-> w[r]]
        /\ \A r \in Paths : w[r] = IF Under(r, q) /\ Rebase(r, q, p) \in Paths THEN v[Rebase(r, q, p)]
                                   ELSE IF Under(r, p) \/ Under(r, q) THEN Absent
                                   ELSE v[r]
    BY Zenon DEF Renamed
  <2> HIDE DEF w
  <2>2. ASSUME NEW r \in Paths PROVE NodeOK(w[r])
    <3>1. CASE Under(r, q) /\ Rebase(r, q, p) \in Paths BY Zenon, <2>1, <3>1 DEF IsTree
    <3>2. CASE ~(Under(r, q) /\ Rebase(r, q, p) \in Paths) /\ (Under(r, p) \/ Under(r, q))
      <4>1. w[r] = Absent BY Zenon, <2>1, <3>2
      <4> QED BY Zenon, <4>1, FileIsNode
    <3>3. CASE ~Under(r, p) /\ ~Under(r, q)
      <4>1. w[r] = v[r] BY Zenon, <2>1, <3>3
      <4> QED BY Zenon, <4>1 DEF IsTree
    <3> QED BY Zenon, <3>1, <3>2, <3>3
  <2>3. ASSUME NEW r \in Paths, w[r] # Absent, NEW s \in Parents(r) PROVE w[s] = Dir
    <3>0. s \in Paths /\ Under(r, s) /\ s # r BY Zenon DEF Parents, UpTo
    <3>1. CASE Under(r, q) /\ Rebase(r, q, p) \in Paths
      <4>1. v[Rebase(r, q, p)] # Absent BY Zenon, <2>1, <2>3, <3>1
      <4>2. ParentIsDir(v, Rebase(r, q, p)) BY Zenon, <3>1, <4>1 DEF IsTree
      <4>3. CASE Under(s, q)
        <5>1. p \in Seq(Names) /\ q \in Seq(Names) /\ r \in Seq(Names) /\ s \in Seq(Names)
          BY Zenon, <3>0, PathsAssumption
        <5>2. Under(Rebase(r, q, p), Rebase(s, q, p)) BY Zenon, <3>0, <4>3, <5>1, RebaseLeading
        <5>3. Rebase(s, q, p) \in Seq(Names) BY Zenon, <3>0, <4>3, PathRebase
        <5>4. Rebase(s, q, p) \in Paths BY Zenon, <3>1, <5>2, <5>3, LeadingIsPath
        <5>5. Rebase(s, q, p) # Rebase(r, q, p)
          <6>1. Rebase(Rebase(s, q, p), p, q) = s BY <3>0, <4>3, PathRebase
          <6>2. Rebase(Rebase(r, q, p), p, q) = r BY <3>1, PathRebase
          <6> QED BY Zenon, <3>0, <6>1, <6>2
        <5>6. v[Rebase(s, q, p)] = Dir
          BY Zenon, <4>2, <5>2, <5>4, <5>5 DEF ParentIsDir, Parents, UpTo
        <5> QED BY Zenon, <2>1, <3>0, <4>3, <5>4, <5>6
      <4>4. CASE ~Under(s, q)
        <5>1. Under(q, s) BY Zenon, <3>0, <3>1, <4>4, PathOrder
        <5>2. s # q BY Zenon, <4>4, PathOrder
        <5>3. v[s] = Dir BY Zenon, <3>0, <5>1, <5>2 DEF CanRename, ParentIsDir, Parents, UpTo
        <5>4. ~Under(s, p) BY Zenon, <1>2, <3>0, <5>1, PathOrder DEF CanRename
        <5> QED BY Zenon, <2>1, <3>0, <4>4, <5>3, <5>4
      <4> QED BY Zenon, <4>3, <4>4
    <3>2. CASE ~(Under(r, q) /\ Rebase(r, q, p) \in Paths)
      <4>1. ~Under(r, p) /\ ~Under(r, q) /\ v[r] # Absent BY Zenon, <2>1, <2>3, <3>2
      <4>2. v[s] = Dir BY Zenon, <4>1 DEF IsTree, ParentIsDir
      <4>3. ~Under(s, p) /\ ~Under(s, q) BY Zenon, <3>0, <4>1, PathOrder
      <4> QED BY Zenon, <2>1, <3>0, <4>2, <4>3
    <3> QED BY Zenon, <3>1, <3>2
  <2>4. IsTree(w) BY Zenon, <2>1, <2>2, <2>3 DEF IsTree, ParentIsDir
  <2> QED BY <2>4 DEF w
<1> QED BY <1>1, <1>2

\* What was at the old name is at the new one, and no more at the old.
LEMMA RenamedMoves ==
    ASSUME NEW v, IsTree(v), NEW p \in Paths, NEW q \in Paths, CanRename(v, p, q),
           NEW r \in Paths, Under(r, p), v[r] # Absent
    PROVE  /\ Rebase(r, p, q) \in Paths
           /\ Renamed(v, p, q)[Rebase(r, p, q)] = v[r]
           /\ q # p => Renamed(v, p, q)[r] = Absent
<1>1. Rebase(r, p, q) \in Paths BY Zenon DEF CanRename, Below
<1>2. Under(Rebase(r, p, q), q) /\ Rebase(Rebase(r, p, q), q, p) = r BY PathRebase
<1>3. Renamed(v, p, q)[Rebase(r, p, q)] = v[r] BY Zenon, <1>1, <1>2 DEF Renamed
<1>4. ASSUME q # p PROVE Renamed(v, p, q)[r] = Absent
  <2>1. ~Under(r, q) BY Zenon, <1>4, RenameApart
  <2> QED BY Zenon, <2>1 DEF Renamed
<1> QED BY Zenon, <1>1, <1>3, <1>4

\* Nothing else changes.
LEMMA RenamedElsewhere ==
    ASSUME NEW v, NEW p, NEW q, NEW r \in Paths, ~Under(r, p), ~Under(r, q)
    PROVE  Renamed(v, p, q)[r] = v[r]
BY Zenon DEF Renamed

-----------------------------------------------------------------------------
\* How far a command is

TaskFields == {"at", "op", "path", "to", "version", "fd", "todo", "bytes", "entries",
               "before", "quiet"}

\* A task is well formed, and what it has open is a file.
IsTask(c, v) ==
    /\ DOMAIN c = TaskFields /\ c = [f \in TaskFields |-> c[f]]
    /\ c.path \in Paths /\ c.to \in Paths
    /\ c.fd = NoPath \/ (c.at = "write.data" /\ c.fd \in Paths /\ v[c.fd].kind = "file")
    /\ c.at \in {"write", "write.open", "write.data"} => c.version \in Versions

\* What list_files says of the entries S.
Listed(v, S) == {FileEntry(v, q) : q \in S}

\* What a command nobody disturbed has made of the volume so far.
Stage(c, v) ==
    LET p == c.path
        old == c.before
    IN  /\ IsTree(old)
        /\ c.at \in {"mkdir", "write", "read", "list", "delete", "rename"} =>
            c.op = c.at /\ v = old /\ c.entries = {}
        /\ c.at = "write.open" => c.op = "write" /\ v = Made(old, Parents(p))
        /\ c.at = "write.data" =>
            c.op = "write" /\ c.fd = p /\ v = Put(Made(old, Parents(p)), p, File(<<>>))
        /\ c.at = "read.data" =>
            c.op = "read" /\ v = old /\ Len(old[p].blocks) <= MAX_FILE_BYTES
        /\ c.at = "list.stat" =>
            /\ c.op = "list" /\ v = old /\ c.todo \subseteq Entries(old, p)
            /\ c.entries = Listed(old, Entries(old, p) \ c.todo)
        /\ c.at = "delete.file" => c.op = "delete" /\ v = old
        /\ c.at = "delete.tree" =>
            /\ c.op = "delete"
            /\ \A q \in Paths : v[q] = old[q] \/ (Under(q, p) /\ v[q] = Absent)
        /\ c.at = "ok" => Promise(c, old, v)

\* It has touched only what it names, and made directories that lead there.
Confined(c, v) ==
    \A q \in Paths :
        \/ v[q] = c.before[q]
        \/ c.op \notin {"read", "list"} /\ Under(q, c.path)
        \/ c.op = "rename" /\ Under(q, c.to)
        \/ /\ c.op \in {"write", "mkdir"} /\ Under(c.path, q)
           /\ c.before[q] = Absent /\ v[q] = Dir

\* A task that was disturbed promises nothing.
TaskInv(c, v) == IsTask(c, v) /\ (c.quiet => Stage(c, v) /\ Confined(c, v))

FilesInv ==
    /\ IsTree(volume)
    /\ task = [t \in Tasks |-> task[t]]
    /\ \A t \in Tasks : TaskInv(task[t], volume)

-----------------------------------------------------------------------------
\* What a step leaves to the tasks that do nothing

\* What is open stays open, or is gone, when the volume becomes tree.
Follows(tree, where) ==
    /\ where[NoPath] = NoPath
    /\ \A f \in Paths : volume[f].kind = "file" =>
            where[f] = NoPath \/ (where[f] \in Paths /\ tree[where[f]].kind = "file")
    /\ tree = volume => \A f \in Opened : where[f] = f

\* What becomes of a task that does nothing.
Disturbed(c, tree, where) ==
    LET r == [c EXCEPT !.fd = where[@]]
    IN  IF tree = volume THEN r
        ELSE [r EXCEPT !.quiet = FALSE, !.before = <<>>]

\* A task that does nothing keeps its invariant: either the volume is as it was,
\* or the task is disturbed and promises nothing.
LEMMA OthersStay ==
    ASSUME NEW c, TaskInv(c, volume), NEW tree, NEW where, Follows(tree, where)
    PROVE  TaskInv(Disturbed(c, tree, where), tree)
<1> DEFINE r == [c EXCEPT !.fd = where[c.fd]]
           d == [r EXCEPT !.quiet = FALSE, !.before = <<>>]
<1>1. /\ DOMAIN c = TaskFields /\ c = [f \in TaskFields |-> c[f]]
      /\ c.path \in Paths /\ c.to \in Paths
      /\ c.fd = NoPath \/ (c.at = "write.data" /\ c.fd \in Paths /\ volume[c.fd].kind = "file")
      /\ c.at \in {"write", "write.open", "write.data"} => c.version \in Versions
  BY Zenon DEF TaskInv, IsTask
<1>2. /\ DOMAIN r = TaskFields /\ r = [f \in TaskFields |-> r[f]]
      /\ r.path = c.path /\ r.to = c.to /\ r.fd = where[c.fd] /\ r.at = c.at /\ r.version = c.version
  BY Zenon, <1>1 DEF TaskFields
<1>3. CASE tree = volume
  <2>1. where[c.fd] = c.fd BY Zenon, <1>1, <1>3 DEF Follows, Opened
  <2>2. r = c
    <3>1. \A f \in TaskFields : r[f] = c[f] BY Zenon, <1>1, <2>1 DEF TaskFields
    <3> HIDE DEF r
    <3> QED BY SMT, <1>1, <1>2, <3>1
  <2>3. Disturbed(c, tree, where) = r BY Zenon, <1>3 DEF Disturbed
  <2> QED BY Zenon, <1>3, <2>2, <2>3
<1>4. CASE tree # volume
  <2> HIDE DEF r
  <2>1. /\ DOMAIN d = TaskFields /\ d = [f \in TaskFields |-> d[f]]
        /\ d.path = c.path /\ d.to = c.to /\ d.fd = where[c.fd] /\ d.at = c.at
        /\ d.version = c.version /\ d.quiet = FALSE
    BY Zenon, <1>2 DEF TaskFields
  <2>2. Disturbed(c, tree, where) = d BY Zenon, <1>4 DEF Disturbed, r
  <2> HIDE DEF d
  <2>3. d.fd = NoPath \/ (d.at = "write.data" /\ d.fd \in Paths /\ tree[d.fd].kind = "file")
    BY Zenon, <1>1, <2>1 DEF Follows
  <2>4. d.path \in Paths /\ d.to \in Paths
    BY Zenon, <1>1, <2>1
  <2>5. d.at \in {"write", "write.open", "write.data"} => d.version \in Versions
    BY Zenon, <1>1, <2>1
  <2>6. TaskInv(d, tree) BY Zenon, <2>1, <2>3, <2>4, <2>5 DEF TaskInv, IsTask
  <2> QED BY Zenon, <2>2, <2>6
<1> QED BY Zenon, <1>3, <1>4

\* A step of the task t, after which the others have their invariant.
LEMMA TaskStep ==
    ASSUME FilesInv, NEW t \in Tasks, NEW tree, IsTree(tree), NEW where, Follows(tree, where),
           NEW new, TaskInv(new, tree), Becomes(tree, where, [u \in {t} |-> new])
    PROVE  FilesInv'
<1> DEFINE own == [u \in {t} |-> new]
<1>0. /\ volume' = tree
      /\ task' = [u \in Tasks |-> IF u \in DOMAIN own THEN own[u]
                                 ELSE Disturbed(task[u], tree, where)]
  BY Zenon DEF Becomes, Disturbed
<1>1. /\ volume' = tree
      /\ \A u \in Tasks : task'[u] = IF u = t THEN new ELSE Disturbed(task[u], tree, where)
  BY Zenon, <1>0
<1>2. ASSUME NEW u \in Tasks PROVE TaskInv(task'[u], tree)
  <2>1. CASE u = t BY Zenon, <1>1, <2>1
  <2>2. CASE u # t
    <3>1. task'[u] = Disturbed(task[u], tree, where) BY Zenon, <1>1, <2>2
    <3>2. TaskInv(task[u], volume) BY Zenon DEF FilesInv
    <3> QED BY Zenon, <3>1, <3>2, OthersStay
  <2> QED BY Zenon, <2>1, <2>2
<1>3. task' = [u \in Tasks |-> task'[u]] BY Zenon, <1>0
<1> QED BY Zenon, <1>1, <1>2, <1>3 DEF FilesInv

\* A step of the game server.
LEMMA ServerStep ==
    ASSUME FilesInv, NEW tree, IsTree(tree), NEW where, Follows(tree, where),
           Becomes(tree, where, <<>>)
    PROVE  FilesInv'
<1> DEFINE own == <<>>
<1>0. DOMAIN own = {} BY SMT
<1> HIDE DEF own
<1>1. /\ volume' = tree
      /\ task' = [u \in Tasks |-> IF u \in DOMAIN own THEN own[u]
                                 ELSE Disturbed(task[u], tree, where)]
  BY Zenon DEF Becomes, Disturbed, own
<1>2. ASSUME NEW u \in Tasks PROVE TaskInv(task'[u], tree)
  <2>1. task'[u] = Disturbed(task[u], tree, where) BY Zenon, <1>0, <1>1
  <2>2. TaskInv(task[u], volume) BY Zenon DEF FilesInv
  <2> QED BY Zenon, <2>1, <2>2, OthersStay
<1>3. task' = [u \in Tasks |-> task'[u]] BY Zenon, <1>1
<1> QED BY Zenon, <1>1, <1>2, <1>3 DEF FilesInv

\* Nothing that is open moves.
LEMMA StayFollows ==
    ASSUME NEW tree, \A f \in Paths : volume[f].kind = "file" => tree[f].kind = "file"
    PROVE  Follows(tree, Stay)
BY Zenon DEF Follows, Stay, Opened

\* A step of the task t that changes the volume and moves no file.
LEMMA ChangeStep ==
    ASSUME FilesInv, NEW t \in Tasks, NEW tree, IsTree(tree),
           \A f \in Paths : volume[f].kind = "file" => tree[f].kind = "file",
           NEW new, TaskInv(new, tree), Change(t, tree, new)
    PROVE  FilesInv'
<1>1. Becomes(tree, Stay, [u \in {t} |-> new]) BY Zenon DEF Change
<1>2. Follows(tree, Stay) BY Zenon, StayFollows
<1> QED BY Zenon, <1>1, <1>2, TaskStep

\* A step of the task t that leaves the volume alone.
LEMMA LookStep ==
    ASSUME FilesInv, NEW t \in Tasks, NEW new, TaskInv(new, volume), Look(t, new)
    PROVE  FilesInv'
<1>1. Change(t, volume, new) /\ IsTree(volume) BY Zenon DEF Look, FilesInv
<1> QED BY Zenon, <1>1, ChangeStep

-----------------------------------------------------------------------------
\* The steps of a command

\* c has the fields of a task.
IsRecord(c) == DOMAIN c = TaskFields /\ c = [f \in TaskFields |-> c[f]]

\* The task goes on with the same command.
GoesOn(new, c) ==
    /\ IsRecord(new)
    /\ new.op = c.op /\ new.path = c.path /\ new.to = c.to /\ new.version = c.version
    /\ new.before = c.before /\ new.quiet = c.quiet

\* A task that has nothing open and does not write is well formed still.
LEMMA StaysTask ==
    ASSUME NEW c, NEW v, IsTask(c, v), NEW new, GoesOn(new, c), NEW w, new.fd = NoPath,
           new.at \in {"write", "write.open", "write.data"} =>
                c.at \in {"write", "write.open", "write.data"}
    PROVE  IsTask(new, w)
BY Zenon DEF IsTask, GoesOn, IsRecord

\* What is known of the task that takes a step.
LEMMA Acting ==
    ASSUME FilesInv, NEW t \in Tasks
    PROVE  /\ IsTree(volume) /\ TaskInv(task[t], volume) /\ IsTask(task[t], volume)
           /\ IsRecord(task[t]) /\ task[t].path \in Paths /\ task[t].to \in Paths
           /\ task[t].at # "write.data" => task[t].fd = NoPath
BY Zenon DEF FilesInv, TaskInv, IsTask, IsRecord

\* Of a command that is done only its promise matters.
LEMMA StageOk ==
    ASSUME NEW c, NEW v, c.at = "ok", IsTree(c.before), Promise(c, c.before, v)
    PROVE  Stage(c, v)
BY Zenon DEF Stage

\* The directories that lead to a path, with or without it.
LEMMA LeadingClosed ==
    ASSUME NEW p \in Paths
    PROVE  /\ \A q \in UpTo(p) : Parents(q) \subseteq UpTo(p)
           /\ \A q \in Parents(p) : Parents(q) \subseteq Parents(p)
BY Zenon, PathOrder DEF UpTo, Parents

\* Making directories where no file is in the way.
LEMMA MakesDirs ==
    ASSUME IsTree(volume), NEW p \in Paths, NEW D \in {UpTo(p), Parents(p)}, CanMake(D)
    PROVE  /\ IsTree(Made(volume, D))
           /\ \A f \in Paths : volume[f].kind = "file" => Made(volume, D)[f].kind = "file"
           /\ \A f \in Paths : \/ Made(volume, D)[f] = volume[f]
                               \/ Under(p, f) /\ volume[f] = Absent /\ Made(volume, D)[f] = Dir
<1>1. \A q \in D : Parents(q) \subseteq D BY Zenon, LeadingClosed
<1>2. IsTree(Made(volume, D)) BY Zenon, <1>1, MadeTree
<1>3. \A f \in D : Under(p, f) /\ volume[f].kind # "file" BY Zenon DEF CanMake, UpTo, Parents
<1>4. \A f \in Paths : Made(volume, D)[f] = IF f \in D THEN Dir ELSE volume[f] BY Zenon DEF Made
<1>5. \A f \in Paths : NodeOK(volume[f]) BY Zenon DEF IsTree
<1>6. \A f \in Paths \cap D : volume[f] \in {Absent, Dir} BY Zenon, <1>3, <1>5, NodeKinds
<1> QED BY Zenon, <1>2, <1>3, <1>4, <1>6

\* mkdir: create_dir_all.
LEMMA MkdirStep ==
    ASSUME FilesInv, NEW t \in Tasks, Mkdir(t)
    PROVE  FilesInv'
<1> DEFINE c == task[t]
           p == task[t].path
           D == UpTo(p)
           new == [c EXCEPT !.at = "ok"]
           tree == Made(volume, D)
<1>1. /\ c.at = "mkdir" /\ CanMake(D) /\ Change(t, tree, new) BY Zenon DEF Mkdir
<1>2. /\ IsTree(volume) /\ TaskInv(c, volume) /\ IsTask(c, volume) /\ IsRecord(c) /\ p \in Paths
      /\ c.fd = NoPath
  BY Zenon, <1>1, Acting
<1>3. GoesOn(new, c) /\ new.at = "ok" /\ new.fd = NoPath BY Zenon, <1>2 DEF IsRecord, GoesOn, TaskFields
<1>4. /\ IsTree(tree)
      /\ \A f \in Paths : volume[f].kind = "file" => tree[f].kind = "file"
      /\ \A f \in Paths : \/ tree[f] = volume[f]
                          \/ Under(p, f) /\ volume[f] = Absent /\ tree[f] = Dir
  BY Zenon, <1>1, <1>2, MakesDirs
<1> HIDE DEF new
<1>5. IsTask(new, tree) BY Zenon, <1>2, <1>3, StaysTask
<1>6. ASSUME new.quiet PROVE Stage(new, tree) /\ Confined(new, tree)
  <2>1. c.op = "mkdir" /\ volume = c.before /\ IsTree(c.before)
    BY Zenon, <1>1, <1>2, <1>3, <1>6 DEF TaskInv, Stage, GoesOn
  <2>2. Promise(new, new.before, tree) BY Zenon, <1>3, <2>1 DEF Promise, GoesOn
  <2>3. Stage(new, tree) BY Zenon, <1>3, <2>1, <2>2, StageOk DEF GoesOn
  <2>4. Confined(new, tree) BY Zenon, <1>3, <1>4, <2>1 DEF Confined, GoesOn
  <2> QED BY <2>3, <2>4
<1>7. TaskInv(new, tree) BY Zenon, <1>5, <1>6 DEF TaskInv
<1> QED BY Zenon, <1>1, <1>4, <1>7, ChangeStep

\* write_file: the directories that lead to the file.
LEMMA WriteChecksStep ==
    ASSUME FilesInv, NEW t \in Tasks, WriteChecks(t)
    PROVE  FilesInv'
<1> DEFINE c == task[t]
           p == task[t].path
           D == Parents(p)
           new == [c EXCEPT !.at = "write.open"]
           tree == Made(volume, D)
<1>1. c.at = "write" /\ CanMake(D) /\ Change(t, tree, new) BY Zenon DEF WriteChecks
<1>2. /\ IsTree(volume) /\ TaskInv(c, volume) /\ IsTask(c, volume) /\ IsRecord(c) /\ p \in Paths
      /\ c.fd = NoPath
  BY Zenon, <1>1, Acting
<1>3. GoesOn(new, c) /\ new.at = "write.open" /\ new.fd = NoPath BY Zenon, <1>2 DEF IsRecord, GoesOn, TaskFields
<1>4. /\ IsTree(tree)
      /\ \A f \in Paths : volume[f].kind = "file" => tree[f].kind = "file"
      /\ \A f \in Paths : \/ tree[f] = volume[f]
                          \/ Under(p, f) /\ volume[f] = Absent /\ tree[f] = Dir
  BY Zenon, <1>1, <1>2, MakesDirs
<1> HIDE DEF new
<1>5. IsTask(new, tree) BY Zenon, <1>1, <1>2, <1>3, StaysTask
<1>6. ASSUME new.quiet PROVE Stage(new, tree) /\ Confined(new, tree)
  <2>1. c.op = "write" /\ volume = c.before /\ IsTree(c.before)
    BY Zenon, <1>1, <1>2, <1>3, <1>6 DEF TaskInv, Stage, GoesOn
  <2>2. Stage(new, tree) BY Zenon, <1>3, <2>1 DEF Stage, GoesOn
  <2>3. Confined(new, tree) BY Zenon, <1>3, <1>4, <2>1 DEF Confined, GoesOn
  <2> QED BY <2>2, <2>3
<1>7. TaskInv(new, tree) BY Zenon, <1>5, <1>6 DEF TaskInv
<1> QED BY Zenon, <1>1, <1>4, <1>7, ChangeStep

\* Changing one node of a volume.
LEMMA PutIs ==
    ASSUME NEW v, IsTree(v), NEW p, NEW x
    PROVE  /\ Put(v, p, x) = [q \in Paths |-> Put(v, p, x)[q]]
           /\ \A q \in Paths : Put(v, p, x)[q] = IF q = p THEN x ELSE v[q]
           /\ [v EXCEPT ![p] = x] = Put(v, p, x)
<1>1. v = [q \in Paths |-> v[q]] BY Zenon DEF IsTree
<1>2. /\ Put(v, p, x) = [q \in Paths |-> Put(v, p, x)[q]]
      /\ \A q \in Paths : Put(v, p, x)[q] = IF q = p THEN x ELSE v[q]
  BY Zenon DEF Put
<1>3. [v EXCEPT ![p] = x] = Put(v, p, x) BY SMT, <1>1 DEF Put
<1> QED BY <1>2, <1>3

\* The volume with b written to p: files stay files, and only p changes.
Written(tree, p, b) ==
    /\ IsTree(tree)
    /\ \A f \in Paths : volume[f].kind = "file" => tree[f].kind = "file"
    /\ \A f \in Paths : f # p => tree[f] = volume[f]
    /\ p \in Paths => tree[p] = File(b)

\* Put writes a file so.
LEMMA PutsFile ==
    ASSUME IsTree(volume), NEW p, p \in Paths => ParentIsDir(volume, p) /\ volume[p] # Dir, NEW b
    PROVE  Written(Put(volume, p, File(b)), p, b)
<1> DEFINE w == Put(volume, p, File(b))
<1>1. IsTree(w) BY Zenon, PutTree
<1>2. \A q \in Paths : w[q] = IF q = p THEN File(b) ELSE volume[q] BY ZenonT(60), PutIs
<1> HIDE DEF w
<1>3. File(b).kind = "file" BY Zenon, Nodes
<1>4. Written(w, p, b) BY Zenon, <1>1, <1>2, <1>3 DEF Written
<1> QED BY <1>4 DEF w

\* write_file: the file is created or truncated.
LEMMA WriteOpensStep ==
    ASSUME FilesInv, NEW t \in Tasks, WriteOpens(t)
    PROVE  FilesInv'
<1> DEFINE c == task[t]
           p == task[t].path
           new == [c EXCEPT !.at = "write.data", !.fd = p]
           tree == Put(volume, p, File(<<>>))
<1>1. /\ c.at = "write.open" /\ ParentIsDir(volume, p) /\ volume[p] # Dir
      /\ Change(t, [volume EXCEPT ![p] = File(<<>>)], new)
  BY Zenon DEF WriteOpens
<1>2. /\ IsTree(volume) /\ TaskInv(c, volume) /\ IsTask(c, volume) /\ IsRecord(c) /\ p \in Paths
  BY Zenon, <1>1, Acting
<1>3. GoesOn(new, c) /\ new.at = "write.data" /\ new.fd = p BY Zenon, <1>2 DEF IsRecord, GoesOn, TaskFields
<1>4. /\ IsTree(tree)
      /\ \A f \in Paths : volume[f].kind = "file" => tree[f].kind = "file"
      /\ \A f \in Paths : f # p => tree[f] = volume[f]
      /\ tree[p] = File(<<>>)
  <2>1. Written(tree, p, <<>>) BY Zenon, <1>1, <1>2, PutsFile
  <2> HIDE DEF tree
  <2> QED BY Zenon, <1>2, <2>1 DEF Written
<1>5. Change(t, tree, new)
  <2>1. [volume EXCEPT ![p] = File(<<>>)] = tree BY Zenon, <1>2, PutIs
  <2> QED BY Zenon, <1>1, <2>1
<1> HIDE DEF new
<1>6. IsTask(new, tree)
  <2>1. tree[p].kind = "file" BY Zenon, <1>4, Nodes
  <2>2. c.version \in Versions /\ c.to \in Paths BY Zenon, <1>1, <1>2 DEF IsTask
  <2> QED BY Zenon, <1>2, <1>3, <2>1, <2>2 DEF IsTask, GoesOn, IsRecord
<1>7. ASSUME new.quiet PROVE Stage(new, tree) /\ Confined(new, tree)
  <2>1. c.op = "write" /\ volume = Made(c.before, Parents(p)) /\ IsTree(c.before)
    BY Zenon, <1>1, <1>2, <1>3, <1>7 DEF TaskInv, Stage, GoesOn
  <2>2. Stage(new, tree) BY Zenon, <1>3, <2>1 DEF Stage, GoesOn
  <2>3. Confined(c, volume) BY Zenon, <1>2, <1>3, <1>7 DEF TaskInv, GoesOn
  <2>4. Under(p, p) BY Zenon, <1>2, PathOrder
  <2>5. Confined(new, tree) BY ZenonT(60), <1>3, <1>4, <2>1, <2>3, <2>4 DEF Confined, GoesOn
  <2> QED BY <2>2, <2>5
<1>8. TaskInv(new, tree) BY Zenon, <1>6, <1>7 DEF TaskInv
<1> QED BY Zenon, <1>4, <1>5, <1>8, ChangeStep

\* Writing all of a version to an empty file.
LEMMA OverwritesAll ==
    ASSUME NEW v \in Versions
    PROVE  Overwrite(<<>>, SubSeq(Whole(v), 1, Size[v])) = Whole(v)
<1>1. Size[v] \in Nat BY Zenon, SizeAssumption
<1>2. Whole(v) \in Seq(Versions) /\ Len(Whole(v)) = Size[v] BY SMT, <1>1 DEF Whole
<1> DEFINE w == Whole(v)
<1> HIDE DEF w
<1>3. SubSeq(w, 1, Len(w)) = w BY SMT, <1>2 DEF w
<1>4. SubSeq(<<>>, Len(w) + 1, Len(<<>>)) = <<>> BY SMT, <1>2 DEF w
<1>5. w \o <<>> = w BY SMT, <1>2 DEF w
<1> QED BY Zenon, <1>2, <1>3, <1>4, <1>5 DEF Overwrite, w

\* write_file: the data go to the open file, wherever it is; if nobody
\* disturbed the command, that is the file it named.
LEMMA WriteDataStep ==
    ASSUME FilesInv, NEW t \in Tasks, WriteData(t)
    PROVE  FilesInv'
<1> DEFINE c == task[t]
           p == task[t].path
           fd == task[t].fd
           v == task[t].version
<1>1. c.at = "write.data" BY Zenon DEF WriteData
<1>2. PICK n \in 0..Size[v] :
        LET part == SubSeq(Whole(v), 1, n) IN
        Change(t, [q \in Paths |-> IF q = fd THEN File(Overwrite(volume[q].blocks, part))
                                   ELSE volume[q]],
               [c EXCEPT !.at = IF n = Size[v] THEN "ok" ELSE "err", !.fd = NoPath])
  BY Zenon DEF WriteData
<1> DEFINE part == SubSeq(Whole(v), 1, n)
           b == Overwrite(volume[fd].blocks, part)
           tree == Put(volume, fd, File(b))
           at == IF n = Size[v] THEN "ok" ELSE "err"
           new == [c EXCEPT !.at = at, !.fd = NoPath]
<1>3. /\ IsTree(volume) /\ TaskInv(c, volume) /\ IsTask(c, volume) /\ IsRecord(c) /\ p \in Paths
  BY Zenon, <1>1, Acting
<1>4. GoesOn(new, c) /\ new.at = at /\ new.fd = NoPath BY Zenon, <1>3 DEF IsRecord, GoesOn, TaskFields
<1>5. fd \in Paths => ParentIsDir(volume, fd) /\ volume[fd] # Dir
  <2> SUFFICES ASSUME fd \in Paths PROVE ParentIsDir(volume, fd) /\ volume[fd] # Dir OBVIOUS
  <2>1. volume[fd].kind = "file" BY Zenon, <1>3, PathsAssumption DEF IsTask
  <2> QED BY Zenon, <1>3, <2>1, Nodes DEF IsTree
<1>6. /\ IsTree(tree)
      /\ \A f \in Paths : volume[f].kind = "file" => tree[f].kind = "file"
      /\ \A f \in Paths : f # fd => tree[f] = volume[f]
      /\ fd \in Paths => tree[fd] = File(b)
  BY Zenon, <1>3, <1>5, PutsFile DEF Written
<1>7. [q \in Paths |-> IF q = fd THEN File(Overwrite(volume[q].blocks, part)) ELSE volume[q]] = tree
  BY Zenon DEF Put
<1>8. Change(t, tree, new) BY Zenon, <1>2, <1>7
<1>9. at \in {"ok", "err"} OBVIOUS
<1> HIDE DEF new
<1>10. IsTask(new, tree)
  <2>1. new.at \notin {"write", "write.open", "write.data"} BY Zenon, <1>4, <1>9
  <2> QED BY Zenon, <1>3, <1>4, <2>1, StaysTask
<1>11. ASSUME new.quiet PROVE Stage(new, tree) /\ Confined(new, tree)
  <2>1. /\ c.op = "write" /\ fd = p /\ IsTree(c.before)
        /\ volume = Put(Made(c.before, Parents(p)), p, File(<<>>))
    BY Zenon, <1>1, <1>3, <1>4, <1>11 DEF TaskInv, Stage, GoesOn
  <2>2. Confined(c, volume) BY Zenon, <1>3, <1>4, <1>11 DEF TaskInv, GoesOn
  <2>3. Under(p, p) BY Zenon, <1>3, PathOrder
  <2>4. Confined(new, tree) BY ZenonT(60), <1>4, <1>6, <2>1, <2>2, <2>3 DEF Confined, GoesOn
  <2>5. CASE n = Size[v]
    <3>1. v \in Versions BY Zenon, <1>1, <1>3 DEF IsTask
    <3>2. volume[p] = File(<<>>) BY Zenon, <1>3, <2>1 DEF Put
    <3>3. b = Whole(v) BY ZenonT(60), <2>1, <2>5, <3>1, <3>2, OverwritesAll, Nodes
    <3> DEFINE goal == [Made(c.before, UpTo(p)) EXCEPT ![p] = File(Whole(v))]
    <3>4. /\ goal = [q \in Paths |-> goal[q]]
          /\ \A q \in Paths : goal[q] = IF q = p THEN File(Whole(v))
                                        ELSE Made(c.before, UpTo(p))[q]
      BY Zenon DEF Made
    <3>5. tree = [q \in Paths |-> tree[q]] BY Zenon, <1>6 DEF IsTree
    <3>6. ASSUME NEW q \in Paths PROVE tree[q] = goal[q]
      <4>1. CASE q = p BY Zenon, <1>3, <1>6, <2>1, <3>3, <3>4, <4>1
      <4>2. CASE q # p
        <5>1. tree[q] = Made(c.before, Parents(p))[q] BY Zenon, <1>6, <2>1, <4>2 DEF Put
        <5>2. q \in Parents(p) <=> q \in UpTo(p) BY Zenon, <4>2 DEF Parents
        <5>3. Made(c.before, Parents(p))[q] = Made(c.before, UpTo(p))[q] BY Zenon, <5>2 DEF Made
        <5> QED BY Zenon, <3>4, <4>2, <5>1, <5>3
      <4> QED BY <4>1, <4>2
    <3> HIDE DEF goal, tree
    <3>7. tree = goal BY SMT, <3>4, <3>5, <3>6
    <3>8. Promise(new, new.before, tree) BY Zenon, <1>4, <2>1, <3>7 DEF Promise, GoesOn, goal
    <3>9. Stage(new, tree) BY Zenon, <1>4, <2>1, <2>5, <3>8, StageOk DEF GoesOn
    <3> QED BY <2>4, <3>9 DEF tree
  <2>6. CASE n # Size[v]
    <3>1. new.at = "err" BY Zenon, <1>4, <2>6
    <3>2. Stage(new, tree) BY Zenon, <1>4, <2>1, <3>1 DEF Stage, GoesOn
    <3> QED BY <2>4, <3>2
  <2> QED BY Zenon, <2>5, <2>6
<1>12. TaskInv(new, tree) BY Zenon, <1>10, <1>11 DEF TaskInv
<1> QED BY Zenon, <1>6, <1>8, <1>12, ChangeStep

\* A step of a command that only looks: the promise is all there is to show.
LEMMA LookKeeps ==
    ASSUME FilesInv, NEW t \in Tasks, NEW new, GoesOn(new, task[t]), new.fd = NoPath,
           new.at \notin {"write", "write.open", "write.data"}, Look(t, new),
           task[t].quiet /\ Stage(task[t], volume) => Stage(new, volume)
    PROVE  FilesInv'
<1>1. IsTree(volume) /\ TaskInv(task[t], volume) /\ IsTask(task[t], volume) BY Zenon, Acting
<1>2. IsTask(new, volume) BY Zenon, <1>1, StaysTask
<1>3. ASSUME new.quiet PROVE Stage(new, volume) /\ Confined(new, volume)
  <2>1. task[t].quiet BY Zenon, <1>3 DEF GoesOn
  <2>2. Stage(task[t], volume) /\ Confined(task[t], volume) BY Zenon, <1>1, <2>1 DEF TaskInv
  <2>3. Confined(new, volume) BY Zenon, <2>2 DEF Confined, GoesOn
  <2> QED BY Zenon, <2>1, <2>2, <2>3
<1>4. TaskInv(new, volume) BY Zenon, <1>2, <1>3 DEF TaskInv
<1> QED BY Zenon, <1>4, LookStep

\* read_file.
LEMMA ReadSteps ==
    ASSUME FilesInv, NEW t \in Tasks, ReadStats(t) \/ ReadData(t)
    PROVE  FilesInv'
<1> DEFINE c == task[t]
           p == task[t].path
<1>0. IsRecord(c) /\ (c.at # "write.data" => c.fd = NoPath) BY Zenon, Acting
<1>1. CASE ReadStats(t)
  <2> DEFINE new == [c EXCEPT !.at = "read.data"]
  <2>1. c.at = "read" /\ Len(volume[p].blocks) <= MAX_FILE_BYTES /\ Look(t, new)
    BY Zenon, <1>1 DEF ReadStats
  <2>2. GoesOn(new, c) /\ new.at = "read.data" /\ new.fd = NoPath BY Zenon, <1>0, <2>1 DEF IsRecord, GoesOn, TaskFields
  <2> HIDE DEF new
  <2>3. ASSUME Stage(c, volume) PROVE Stage(new, volume)
    <3>1. c.op = "read" /\ volume = c.before /\ IsTree(c.before) BY Zenon, <2>1, <2>3 DEF Stage
    <3> QED BY Zenon, <2>1, <2>2, <3>1 DEF Stage, GoesOn
  <2> QED BY Zenon, <2>1, <2>2, <2>3, LookKeeps
<1>2. CASE ReadData(t)
  <2> DEFINE new == [c EXCEPT !.at = "ok", !.bytes = volume[p].blocks]
  <2>1. c.at = "read.data" /\ Look(t, new) BY Zenon, <1>2 DEF ReadData
  <2>2. /\ GoesOn(new, c) /\ new.at = "ok" /\ new.fd = NoPath
        /\ new.bytes = volume[p].blocks
    BY Zenon, <1>0, <2>1 DEF IsRecord, GoesOn, TaskFields
  <2> HIDE DEF new
  <2>3. ASSUME Stage(c, volume) PROVE Stage(new, volume)
    <3>1. /\ c.op = "read" /\ volume = c.before /\ IsTree(c.before)
          /\ Len(volume[p].blocks) <= MAX_FILE_BYTES
      BY Zenon, <2>1, <2>3 DEF Stage
    <3>2. Promise(new, new.before, volume) BY Zenon, <2>2, <3>1 DEF Promise, GoesOn
    <3> QED BY Zenon, <2>2, <3>1, <3>2, StageOk DEF GoesOn
  <2> QED BY Zenon, <2>1, <2>2, <2>3, LookKeeps
<1> QED BY <1>1, <1>2

\* One more entry is listed.
LEMMA ListedGrows ==
    ASSUME NEW v, NEW S, NEW q
    PROVE  Listed(v, S \cup {q}) = Listed(v, S) \cup {FileEntry(v, q)}
BY Zenon DEF Listed

\* list_files.
LEMMA ListSteps ==
    ASSUME FilesInv, NEW t \in Tasks, ListOpens(t) \/ ListStats(t) \/ ListEnds(t)
    PROVE  FilesInv'
<1> DEFINE c == task[t]
           p == task[t].path
<1>0. IsRecord(c) /\ (c.at # "write.data" => c.fd = NoPath) BY Zenon, Acting
<1>1. CASE ListOpens(t)
  <2> DEFINE new == [c EXCEPT !.at = "list.stat", !.todo = Entries(volume, p)]
  <2>1. c.at = "list" /\ Look(t, new) BY Zenon, <1>1 DEF ListOpens
  <2>2. /\ GoesOn(new, c) /\ new.at = "list.stat" /\ new.fd = NoPath
        /\ new.todo = Entries(volume, p) /\ new.entries = c.entries
    BY Zenon, <1>0, <2>1 DEF IsRecord, GoesOn, TaskFields
  <2> HIDE DEF new
  <2>3. ASSUME Stage(c, volume) PROVE Stage(new, volume)
    <3>1. c.op = "list" /\ volume = c.before /\ c.entries = {} /\ IsTree(c.before)
      BY Zenon, <2>1, <2>3 DEF Stage
    <3>2. new.entries = Listed(volume, Entries(volume, p) \ new.todo)
      BY Zenon, <2>2, <3>1 DEF Listed
    <3> QED BY Zenon, <2>2, <3>1, <3>2 DEF Stage, GoesOn
  <2> QED BY Zenon, <2>1, <2>2, <2>3, LookKeeps
<1>2. CASE ListStats(t)
  <2>0. PICK q \in c.todo :
          Look(t, [c EXCEPT !.todo = c.todo \ {q}, !.entries = c.entries \cup {FileEntry(volume, q)}])
    BY Zenon, <1>2 DEF ListStats
  <2> DEFINE new == [c EXCEPT !.todo = c.todo \ {q}, !.entries = c.entries \cup {FileEntry(volume, q)}]
  <2>1. c.at = "list.stat" /\ Look(t, new) BY Zenon, <1>2, <2>0 DEF ListStats
  <2>2. /\ GoesOn(new, c) /\ new.at = "list.stat" /\ new.fd = NoPath
        /\ new.todo = c.todo \ {q} /\ new.entries = c.entries \cup {FileEntry(volume, q)}
    BY Zenon, <1>0, <2>1 DEF IsRecord, GoesOn, TaskFields
  <2> HIDE DEF new
  <2>3. ASSUME Stage(c, volume) PROVE Stage(new, volume)
    <3>1. /\ c.op = "list" /\ volume = c.before /\ IsTree(c.before)
          /\ c.todo \subseteq Entries(volume, p)
          /\ c.entries = Listed(volume, Entries(volume, p) \ c.todo)
      BY Zenon, <2>1, <2>3 DEF Stage
    <3>2. new.entries = Listed(volume, Entries(volume, p) \ new.todo)
      <4>1. Entries(volume, p) \ new.todo = (Entries(volume, p) \ c.todo) \cup {q}
        BY Zenon, <2>2, <3>1
      <4>2. Listed(volume, (Entries(volume, p) \ c.todo) \cup {q})
              = Listed(volume, Entries(volume, p) \ c.todo) \cup {FileEntry(volume, q)}
        BY Zenon, ListedGrows
      <4> QED BY ZenonT(30), <2>2, <3>1, <4>1, <4>2
    <3> QED BY Zenon, <2>2, <3>1, <3>2 DEF Stage, GoesOn
  <2> QED BY Zenon, <2>1, <2>2, <2>3, LookKeeps
<1>3. CASE ListEnds(t)
  <2> DEFINE new == [c EXCEPT !.at = "ok"]
  <2>1. c.at = "list.stat" /\ c.todo = {} /\ Look(t, new) BY Zenon, <1>3 DEF ListEnds
  <2>2. GoesOn(new, c) /\ new.at = "ok" /\ new.fd = NoPath /\ new.entries = c.entries
    BY Zenon, <1>0, <2>1 DEF IsRecord, GoesOn, TaskFields
  <2> HIDE DEF new
  <2>3. ASSUME Stage(c, volume) PROVE Stage(new, volume)
    <3>1. /\ c.op = "list" /\ volume = c.before /\ IsTree(c.before)
          /\ c.entries = Listed(volume, Entries(volume, p) \ c.todo)
      BY Zenon, <2>1, <2>3 DEF Stage
    <3>2. Entries(volume, p) \ c.todo = Entries(volume, p) BY Zenon, <2>1
    <3>3. c.entries = {FileEntry(volume, q) : q \in Entries(volume, p)} BY Zenon, <3>1, <3>2 DEF Listed
    <3>4. Promise(new, new.before, volume) BY ZenonT(60), <2>2, <3>1, <3>3 DEF Promise, GoesOn
    <3> QED BY Zenon, <2>2, <3>1, <3>4, StageOk DEF GoesOn
  <2> QED BY Zenon, <2>1, <2>2, <2>3, LookKeeps
<1> QED BY <1>1, <1>2, <1>3

\* delete_path: the look at what is to be deleted.
LEMMA DeleteStatsStep ==
    ASSUME FilesInv, NEW t \in Tasks, DeleteStats(t)
    PROVE  FilesInv'
<1> DEFINE c == task[t]
           p == task[t].path
           at == IF volume[p] = Dir THEN "delete.tree" ELSE "delete.file"
           new == [c EXCEPT !.at = at]
<1>0. IsRecord(c) /\ (c.at # "write.data" => c.fd = NoPath) BY Zenon, Acting
<1>1. c.at = "delete" /\ Look(t, new) BY Zenon DEF DeleteStats
<1>2. GoesOn(new, c) /\ new.at = at /\ new.fd = NoPath
  BY Zenon, <1>0, <1>1 DEF IsRecord, GoesOn, TaskFields
<1>3. at \in {"delete.tree", "delete.file"} OBVIOUS
<1> HIDE DEF new, at
<1>4. ASSUME Stage(c, volume) PROVE Stage(new, volume)
  <2>1. c.op = "delete" /\ volume = c.before /\ IsTree(c.before) BY Zenon, <1>1, <1>4 DEF Stage
  <2>2. CASE at = "delete.tree" BY Zenon, <1>2, <2>1, <2>2 DEF Stage, GoesOn
  <2>3. CASE at = "delete.file" BY Zenon, <1>2, <2>1, <2>3 DEF Stage, GoesOn
  <2> QED BY <1>3, <2>2, <2>3
<1>5. new.at \notin {"write", "write.open", "write.data"} BY Zenon, <1>2, <1>3
<1> QED BY Zenon, <1>1, <1>2, <1>4, <1>5, LookKeeps

\* A node that has nothing below it is removed.
LEMMA UnlinkStep ==
    ASSUME FilesInv, NEW t \in Tasks, NEW q \in Paths, NEW next, Unlink(t, q, next),
           volume[q] # Absent, \A r \in Paths : Under(r, q) /\ r # q => volume[r] = Absent,
           TaskInv([task[t] EXCEPT !.at = next], Put(volume, q, Absent))
    PROVE  FilesInv'
<1> DEFINE new == [task[t] EXCEPT !.at = next]
           tree == Put(volume, q, Absent)
           where == [Stay EXCEPT ![q] = NoPath]
<1>1. IsTree(volume) BY Zenon DEF FilesInv
<1>2. IsTree(tree) BY Zenon, <1>1, DropTree
<1>3. \A r \in Paths : tree[r] = IF r = q THEN Absent ELSE volume[r] BY Zenon DEF Put
<1>4. [volume EXCEPT ![q] = Absent] = tree BY Zenon, <1>1, PutIs
<1>5. Becomes([volume EXCEPT ![q] = Absent], where, [u \in {t} |-> new]) BY Zenon DEF Unlink
<1>6. Becomes(tree, where, [u \in {t} |-> new]) BY <1>4, <1>5
<1>7. \A f \in Opened : where[f] = IF f = q THEN NoPath ELSE f BY Zenon DEF Stay
<1>8. NoPath \in Opened /\ NoPath # q BY Zenon, PathsAssumption DEF Opened
<1>9. tree # volume BY Zenon, <1>3
<1> HIDE DEF where, tree
<1>10. Follows(tree, where)
  BY Zenon, <1>3, <1>7, <1>8, <1>9 DEF Follows, Opened
<1>11. TaskInv(new, tree) BY DEF tree
<1> HIDE DEF new
<1> QED BY Zenon, <1>2, <1>6, <1>10, <1>11, TaskStep

\* delete_path of a file: nothing was below it.
LEMMA DeleteFileStep ==
    ASSUME FilesInv, NEW t \in Tasks, DeleteFile(t)
    PROVE  FilesInv'
<1> DEFINE c == task[t]
           p == task[t].path
           new == [c EXCEPT !.at = "ok"]
           tree == Put(volume, p, Absent)
<1>1. c.at = "delete.file" /\ volume[p].kind = "file" /\ Unlink(t, p, "ok")
  BY Zenon DEF DeleteFile
<1>2. /\ IsTree(volume) /\ TaskInv(c, volume) /\ IsTask(c, volume) /\ IsRecord(c) /\ p \in Paths
      /\ c.fd = NoPath
  BY Zenon, <1>1, Acting
<1>3. GoesOn(new, c) /\ new.at = "ok" /\ new.fd = NoPath
  BY Zenon, <1>2 DEF IsRecord, GoesOn, TaskFields
<1>4. volume[p] # Absent /\ volume[p] # Dir BY Zenon, <1>1, Nodes
<1>5. \A r \in Paths : Under(r, p) /\ r # p => volume[r] = Absent
  BY Zenon, <1>2, <1>4, NothingBelow
<1>6. tree = [r \in Paths |-> tree[r]] /\ \A r \in Paths : tree[r] = IF r = p THEN Absent ELSE volume[r]
  BY Zenon DEF Put
<1>7. Under(p, p) BY Zenon, <1>2, PathOrder
<1> HIDE DEF new, tree
<1>8. IsTask(new, tree) BY Zenon, <1>2, <1>3, StaysTask
<1>9. ASSUME new.quiet PROVE Stage(new, tree) /\ Confined(new, tree)
  <2>1. c.op = "delete" /\ volume = c.before /\ IsTree(c.before)
    BY Zenon, <1>1, <1>2, <1>3, <1>9 DEF TaskInv, Stage, GoesOn
  <2>2. ASSUME NEW r \in Paths PROVE tree[r] = IF r \in Below(p) THEN Absent ELSE volume[r]
    BY Zenon, <1>5, <1>6, <1>7 DEF Below
  <2>3. tree = [r \in Paths |-> IF r \in Below(p) THEN Absent ELSE volume[r]]
    BY SMT, <1>6, <2>2
  <2>4. Promise(new, new.before, tree) BY Zenon, <1>3, <2>1, <2>3 DEF Promise, GoesOn
  <2>5. Stage(new, tree) BY Zenon, <1>3, <2>1, <2>4, StageOk DEF GoesOn
  <2>6. Confined(new, tree) BY Zenon, <1>3, <1>6, <1>7, <2>1 DEF Confined, GoesOn
  <2> QED BY <2>5, <2>6
<1>10. TaskInv(new, tree) BY Zenon, <1>8, <1>9 DEF TaskInv
<1>11. TaskInv([task[t] EXCEPT !.at = "ok"], Put(volume, p, Absent)) BY <1>10 DEF new, tree
<1> QED BY Zenon, <1>1, <1>2, <1>4, <1>5, <1>11, UnlinkStep

\* delete_path of a directory: once the directory itself goes, all below it
\* has gone.
LEMMA DeleteTreeStep ==
    ASSUME FilesInv, NEW t \in Tasks, DeleteTree(t)
    PROVE  FilesInv'
<1> DEFINE c == task[t]
           p == task[t].path
<1>1. c.at = "delete.tree" BY Zenon DEF DeleteTree
<1>2. PICK q \in Below(p) : /\ volume[q] # Absent /\ Entries(volume, q) = {}
                            /\ Unlink(t, q, IF q = p THEN "ok" ELSE "delete.tree")
  BY Zenon DEF DeleteTree
<1> DEFINE at == IF q = p THEN "ok" ELSE "delete.tree"
           new == [c EXCEPT !.at = at]
           tree == Put(volume, q, Absent)
<1>3. /\ IsTree(volume) /\ TaskInv(c, volume) /\ IsTask(c, volume) /\ IsRecord(c) /\ p \in Paths
      /\ c.fd = NoPath
  BY Zenon, <1>1, Acting
<1>4. GoesOn(new, c) /\ new.at = at /\ new.fd = NoPath
  BY Zenon, <1>3 DEF IsRecord, GoesOn, TaskFields
<1>5. q \in Paths /\ Under(q, p) BY Zenon, <1>2 DEF Below
<1>6. \A r \in Paths : Under(r, q) /\ r # q => volume[r] = Absent
  BY Zenon, <1>2, <1>3, <1>5, NothingBelow
<1>7. tree = [r \in Paths |-> tree[r]] /\ \A r \in Paths : tree[r] = IF r = q THEN Absent ELSE volume[r]
  BY Zenon DEF Put
<1>8. at = (IF q = p THEN "ok" ELSE "delete.tree") OBVIOUS
<1> HIDE DEF new, tree, at
<1>9. IsTask(new, tree)
  <2>1. new.at \notin {"write", "write.open", "write.data"} BY Zenon, <1>4, <1>8
  <2> QED BY Zenon, <1>3, <1>4, <2>1, StaysTask
<1>10. ASSUME new.quiet PROVE Stage(new, tree) /\ Confined(new, tree)
  <2>1. /\ c.op = "delete" /\ IsTree(c.before)
        /\ \A r \in Paths : volume[r] = c.before[r] \/ (Under(r, p) /\ volume[r] = Absent)
    BY Zenon, <1>1, <1>3, <1>4, <1>10 DEF TaskInv, Stage, GoesOn
  <2>2. \A r \in Paths : tree[r] = c.before[r] \/ (Under(r, p) /\ tree[r] = Absent)
    BY Zenon, <1>5, <1>7, <2>1
  <2>3. Confined(new, tree) BY Zenon, <1>4, <2>1, <2>2 DEF Confined, GoesOn
  <2>4. CASE q = p
    <3>1. ASSUME NEW r \in Paths PROVE tree[r] = IF r \in Below(p) THEN Absent ELSE c.before[r]
      <4>1. CASE Under(r, p) BY Zenon, <1>6, <1>7, <2>4, <4>1 DEF Below
      <4>2. CASE ~Under(r, p) BY Zenon, <2>2, <4>2 DEF Below
      <4> QED BY <4>1, <4>2
    <3>2. tree = [r \in Paths |-> IF r \in Below(p) THEN Absent ELSE c.before[r]]
      BY SMT, <1>7, <3>1
    <3>3. Promise(new, new.before, tree) BY Zenon, <1>4, <2>1, <3>2 DEF Promise, GoesOn
    <3>4. new.at = "ok" BY Zenon, <1>4, <1>8, <2>4
    <3> QED BY Zenon, <1>4, <2>1, <2>3, <3>3, <3>4, StageOk DEF GoesOn
  <2>5. CASE q # p
    <3>1. new.at = "delete.tree" BY Zenon, <1>4, <1>8, <2>5
    <3>2. Stage(new, tree) BY Zenon, <1>4, <2>1, <2>2, <3>1 DEF Stage, GoesOn
    <3> QED BY <2>3, <3>2
  <2> QED BY <2>4, <2>5
<1>11. TaskInv(new, tree) BY Zenon, <1>9, <1>10 DEF TaskInv
<1>12. TaskInv([task[t] EXCEPT !.at = at], Put(volume, q, Absent)) BY <1>11 DEF new, tree
<1>13. Unlink(t, q, at) BY <1>2 DEF at
<1> QED BY Zenon, <1>2, <1>5, <1>6, <1>12, <1>13, UnlinkStep

\* rename_file.
LEMMA RenameStep ==
    ASSUME FilesInv, NEW t \in Tasks, Rename(t)
    PROVE  FilesInv'
<1> DEFINE c == task[t]
           p == task[t].path
           q == task[t].to
           where == [f \in Opened |-> IF f # NoPath /\ Under(f, p) THEN Rebase(f, p, q)
                                      ELSE IF f = q THEN NoPath ELSE f]
           new == [c EXCEPT !.at = "ok"]
           tree == Renamed(volume, p, q)
<1>1. c.at = "rename" /\ CanRename(volume, p, q) /\ Becomes(tree, where, [u \in {t} |-> new])
  BY Zenon DEF Rename, CanRename, Fits
<1>2. /\ IsTree(volume) /\ TaskInv(c, volume) /\ IsTask(c, volume) /\ IsRecord(c)
      /\ p \in Paths /\ q \in Paths /\ c.fd = NoPath
  BY Zenon, <1>1, Acting
<1>3. GoesOn(new, c) /\ new.at = "ok" /\ new.fd = NoPath
  BY Zenon, <1>2 DEF IsRecord, GoesOn, TaskFields
<1>4. IsTree(tree) BY Zenon, <1>1, <1>2, RenamedTree
<1>5. \A f \in Opened : where[f] = IF f # NoPath /\ Under(f, p) THEN Rebase(f, p, q)
                                   ELSE IF f = q THEN NoPath ELSE f
  BY Zenon
<1>6. ASSUME NEW r \in Paths, Under(r, p), volume[r] # Absent
      PROVE  /\ Rebase(r, p, q) \in Paths /\ tree[Rebase(r, p, q)] = volume[r]
             /\ q # p => tree[r] = Absent
  BY <1>1, <1>2, <1>6, RenamedMoves
<1>7. ASSUME NEW r \in Paths, ~Under(r, p), ~Under(r, q) PROVE tree[r] = volume[r]
  BY <1>7, RenamedElsewhere
<1>8. NoPath \notin Paths /\ Under(p, p) BY Zenon, <1>2, PathsAssumption, PathOrder
<1> HIDE DEF where, tree, new
<1>9. Follows(tree, where)
  <2>1. where[NoPath] = NoPath BY Zenon, <1>2, <1>5, <1>8 DEF Opened
  <2>2. ASSUME NEW f \in Paths, volume[f].kind = "file"
        PROVE  where[f] = NoPath \/ (where[f] \in Paths /\ tree[where[f]].kind = "file")
    <3>0. volume[f] # Absent /\ f \in Opened /\ f # NoPath BY Zenon, <1>8, <2>2, Nodes DEF Opened
    <3>1. CASE Under(f, p) BY Zenon, <1>5, <1>6, <2>2, <3>0, <3>1
    <3>2. CASE ~Under(f, p) /\ f = q BY Zenon, <1>5, <3>0, <3>2
    <3>3. CASE ~Under(f, p) /\ f # q
      <4>1. ~Under(f, q)
        <5>1. CASE p = q BY Zenon, <3>3, <5>1
        <5>2. CASE p # q
          <6>1. \A r \in Paths : Under(r, q) /\ r # q => volume[r] = Absent
            BY Zenon, <1>1, <1>2, <5>2, RenameApart
          <6> QED BY Zenon, <3>0, <3>3, <6>1
        <5> QED BY <5>1, <5>2
      <4>2. tree[f] = volume[f] BY Zenon, <1>7, <3>3, <4>1
      <4>3. where[f] = f BY Zenon, <1>5, <3>0, <3>3
      <4> QED BY Zenon, <2>2, <4>2, <4>3
    <3> QED BY <3>1, <3>2, <3>3
  <2>3. ASSUME tree = volume, NEW f \in Opened PROVE where[f] = f
    <3>1. p = q
      <4>1. volume[p] # Absent BY Zenon, <1>1 DEF CanRename
      <4> QED BY Zenon, <1>2, <1>6, <1>8, <2>3, <4>1
    <3>2. CASE f = NoPath BY Zenon, <2>1, <3>2
    <3>3. CASE f # NoPath
      <4>1. f \in Paths BY Zenon, <3>3 DEF Opened
      <4>2. CASE Under(f, p)
        <5>1. Rebase(f, p, p) = f BY SMT, <1>2, <4>1, <4>2, PathRebase
        <5>2. where[f] = Rebase(f, p, q) BY Zenon, <1>5, <3>3, <4>2
        <5> QED BY <3>1, <5>1, <5>2
      <4>3. CASE ~Under(f, p)
        <5>1. f # q BY <1>8, <3>1, <4>3
        <5> QED BY Zenon, <1>5, <4>3, <5>1
      <4> QED BY <4>2, <4>3
    <3> QED BY <3>2, <3>3
  <2> QED BY Zenon, <2>1, <2>2, <2>3 DEF Follows
<1>10. IsTask(new, tree) BY Zenon, <1>2, <1>3, StaysTask
<1>11. ASSUME new.quiet PROVE Stage(new, tree) /\ Confined(new, tree)
  <2>1. c.op = "rename" /\ volume = c.before /\ IsTree(c.before)
    BY Zenon, <1>1, <1>2, <1>3, <1>11 DEF TaskInv, Stage, GoesOn
  <2>2. Promise(new, new.before, tree) BY Zenon, <1>3, <1>6, <2>1 DEF Promise, GoesOn, Below
  <2>3. Stage(new, tree) BY Zenon, <1>3, <2>1, <2>2, StageOk DEF GoesOn
  <2>4. Confined(new, tree) BY Zenon, <1>3, <1>7, <2>1 DEF Confined, GoesOn
  <2> QED BY <2>3, <2>4
<1>12. TaskInv(new, tree) BY Zenon, <1>10, <1>11 DEF TaskInv
<1> QED BY Zenon, <1>1, <1>4, <1>9, <1>12, TaskStep

-----------------------------------------------------------------------------
\* The ends and beginnings of commands, and the other actors

\* A task at rest.
LEMMA IdleInv ==
    ASSUME NEW v
    PROVE  TaskInv(Idle, v) /\ IsRecord(Idle) /\ Idle.fd = NoPath /\ Idle.entries = {}
<1>1. <<>> \in Paths BY Zenon, PathsAssumption
<1>2. /\ IsRecord(Idle) /\ Idle.fd = NoPath /\ Idle.entries = {} /\ Idle.at = "idle"
      /\ Idle.path = <<>> /\ Idle.to = <<>> /\ Idle.quiet = FALSE
  <2>1. PICK v0 : v0 = CHOOSE x \in Versions : TRUE OBVIOUS
  <2>2. Idle = [at |-> "idle", op |-> "none", path |-> <<>>, to |-> <<>>, version |-> v0,
                fd |-> NoPath, todo |-> {}, bytes |-> <<>>, entries |-> {},
                before |-> <<>>, quiet |-> FALSE]
    BY <2>1 DEF Idle
  <2> QED BY Zenon, <2>2 DEF IsRecord, TaskFields
<1>3. TaskInv(Idle, v) BY Zenon, <1>1, <1>2 DEF TaskInv, IsTask, IsRecord
<1> QED BY <1>2, <1>3

\* A call fails: what was done stays done.
LEMMA FailsStep ==
    ASSUME FilesInv, NEW t \in Tasks, Fails(t)
    PROVE  FilesInv'
<1> DEFINE c == task[t]
           new == [c EXCEPT !.at = "err", !.fd = NoPath]
<1>0. IsRecord(c) BY Zenon, Acting
<1>1. Look(t, new) BY Zenon DEF Fails
<1>2. GoesOn(new, c) /\ new.at = "err" /\ new.fd = NoPath
  BY Zenon, <1>0, <1>1 DEF IsRecord, GoesOn, TaskFields
<1> HIDE DEF new
<1>3. ASSUME Stage(c, volume) PROVE Stage(new, volume)
  BY Zenon, <1>2, <1>3 DEF Stage, GoesOn
<1> QED BY Zenon, <1>1, <1>2, <1>3, LookKeeps

\* A task ends.
LEMMA ReturnStep ==
    ASSUME FilesInv, NEW t \in Tasks, Return(t)
    PROVE  FilesInv'
BY Zenon, IdleInv, LookStep DEF Return

\* A command is received: it has done nothing yet.
LEMMA ReceiveStep ==
    ASSUME FilesInv, NEW t \in Tasks, NEW rel, NEW rel2, NEW v,
           NEW op \in {"mkdir", "write", "read", "list", "delete", "rename"},
           op = "write" => v \in Versions, Receive(t, op, rel, rel2, v)
    PROVE  FilesInv'
<1> DEFINE p == resolve_path(rel)
           q == resolve_path(rel2)
           new == [Idle EXCEPT !.at = op, !.op = op, !.path = p, !.to = q, !.version = v,
                               !.before = volume, !.quiet = TRUE]
<1>1. p \in Paths /\ q \in Paths /\ Look(t, new) BY Zenon DEF Receive
<1>2. IsTree(volume) BY Zenon DEF FilesInv
<1> HIDE DEF p, q
<1>3. /\ IsRecord(new) /\ new.at = op /\ new.op = op /\ new.path = p /\ new.to = q /\ new.version = v
      /\ new.before = volume /\ new.fd = NoPath /\ new.entries = {}
  BY Zenon, IdleInv DEF IsRecord, TaskFields
<1> HIDE DEF new
<1>4. IsTask(new, volume) BY Zenon, <1>1, <1>3 DEF IsTask, IsRecord
<1>5. Stage(new, volume) BY Zenon, <1>2, <1>3 DEF Stage
<1>6. Confined(new, volume) BY Zenon, <1>3 DEF Confined
<1> QED BY Zenon, <1>1, <1>4, <1>5, <1>6, LookStep DEF TaskInv

\* So for each of the six commands.
LEMMA CommandStep ==
    ASSUME FilesInv, NEW t \in Tasks, Command(t)
    PROVE  FilesInv'
<1>1. PICK rel \in Rels :
        \/ \E op \in {"mkdir", "read", "list", "delete"} :
                Receive(t, op, rel, <<>>, Idle.version)
        \/ \E v \in Versions : Receive(t, "write", rel, <<>>, v)
        \/ \E to \in Rels : Receive(t, "rename", rel, to, Idle.version)
  BY Zenon DEF Command
<1>2. CASE \E op \in {"mkdir", "read", "list", "delete"} : Receive(t, op, rel, <<>>, Idle.version)
  <2>1. PICK op \in {"mkdir", "read", "list", "delete"} : Receive(t, op, rel, <<>>, Idle.version)
    BY <1>2
  <2>2. op \in {"mkdir", "write", "read", "list", "delete", "rename"} /\ op # "write" BY Zenon
  <2> QED BY Zenon, <2>1, <2>2, ReceiveStep
<1>3. CASE \E v \in Versions : Receive(t, "write", rel, <<>>, v)
  <2>1. PICK v \in Versions : Receive(t, "write", rel, <<>>, v) BY <1>3
  <2> QED BY Zenon, <2>1, ReceiveStep
<1>4. CASE \E to \in Rels : Receive(t, "rename", rel, to, Idle.version)
  <2>1. PICK to \in Rels : Receive(t, "rename", rel, to, Idle.version) BY <1>4
  <2> QED BY Zenon, <2>1, ReceiveStep
<1> QED BY <1>1, <1>2, <1>3, <1>4

\* The game server saves a file.
LEMMA ServerWritesStep ==
    ASSUME FilesInv, NEW p \in ServerPaths, NEW v \in Versions, ServerWrites(p, v)
    PROVE  FilesInv'
<1> DEFINE tree == Put(volume, p, File(Whole(v)))
<1>1. /\ ParentIsDir(volume, p) /\ volume[p] # Dir
      /\ Becomes([volume EXCEPT ![p] = File(Whole(v))], Stay, <<>>)
  BY Zenon DEF ServerWrites
<1>2. p \in Paths /\ IsTree(volume) BY Zenon, ServerAssumption DEF FilesInv
<1>3. [volume EXCEPT ![p] = File(Whole(v))] = tree BY Zenon, <1>2, PutIs
<1>4. Becomes(tree, Stay, <<>>) BY <1>1, <1>3
<1>5. Written(tree, p, Whole(v)) BY Zenon, <1>1, <1>2, PutsFile
<1> HIDE DEF tree
<1>6. Follows(tree, Stay) BY Zenon, <1>5, StayFollows DEF Written
<1> QED BY Zenon, <1>4, <1>5, <1>6, ServerStep DEF Written

\* The daemon dies; the volume stays.
LEMMA CrashStep ==
    ASSUME FilesInv, Crash
    PROVE  FilesInv'
BY Zenon, IdleInv DEF FilesInv, Crash

\* An empty volume and no commands.
LEMMA FilesInitial == FilesInit => FilesInv
<1> SUFFICES ASSUME FilesInit PROVE FilesInv OBVIOUS
<1>1. /\ volume = [p \in Paths |-> volume[p]]
      /\ \A p \in Paths : volume[p] = IF p = <<>> THEN Dir ELSE Absent
  BY Zenon DEF FilesInit
<1>2. ASSUME NEW p \in Paths, volume[p] # Absent PROVE ParentIsDir(volume, p)
  <2>1. p = <<>> BY Zenon, <1>1, <1>2
  <2>2. ASSUME NEW q \in Parents(p) PROVE FALSE
    <3>1. q \in Seq(Names) /\ Under(p, q) /\ q # p BY Zenon, PathsAssumption DEF Parents, UpTo
    <3> QED BY SMT, <2>1, <3>1 DEF Under
  <2> QED BY Zenon, <2>2 DEF ParentIsDir
<1>3. IsTree(volume) BY Zenon, <1>1, <1>2, FileIsNode DEF IsTree
<1> QED BY Zenon, <1>3, IdleInv DEF FilesInv, FilesInit

\* Every step keeps the invariant.
LEMMA FilesSteps == FilesInv /\ [FilesNext]_filesVars => FilesInv'
<1> SUFFICES ASSUME FilesInv, [FilesNext]_filesVars PROVE FilesInv' OBVIOUS
<1>1. CASE \E t \in Tasks : Command(t) \/ FilesStep(t) \/ Return(t)
  <2>1. PICK t \in Tasks : Command(t) \/ FilesStep(t) \/ Return(t) BY <1>1
  <2>2. CASE Command(t) BY Zenon, <2>2, CommandStep
  <2>3. CASE Return(t) BY Zenon, <2>3, ReturnStep
  <2>4. CASE FilesStep(t)
    BY Zenon, <2>4, MkdirStep, WriteChecksStep, WriteOpensStep, WriteDataStep, ReadSteps, ListSteps,
       DeleteStatsStep, DeleteFileStep, DeleteTreeStep, RenameStep, FailsStep DEF FilesStep
  <2> QED BY <2>1, <2>2, <2>3, <2>4
<1>2. CASE \E p \in ServerPaths, v \in Versions : ServerWrites(p, v)
  BY Zenon, <1>2, ServerWritesStep
<1>3. CASE Crash BY Zenon, <1>3, CrashStep
<1>4. CASE UNCHANGED filesVars BY Zenon, <1>4 DEF FilesInv, filesVars
<1> QED BY <1>1, <1>2, <1>3, <1>4 DEF FilesNext

\* The invariant the properties of Files follow from.
THEOREM FilesInvariant == FilesSpec => []FilesInv
BY FilesInitial, FilesSteps, PTL DEF FilesSpec

\* A volume is always a tree of files and directories, whatever is created,
\* moved and removed in it concurrently, and the commands keep their form.
THEOREM FilesTypeCorrect == FilesSpec => []FilesTypeOK
<1>1. FilesInv => FilesTypeOK
  <2> SUFFICES ASSUME FilesInv PROVE FilesTypeOK OBVIOUS
  <2>1. DOMAIN Idle = TaskFields BY Zenon, IdleInv DEF IsRecord
  <2>2. DOMAIN volume = Paths BY Zenon DEF FilesInv, IsTree
  <2> QED BY Zenon, <2>1, <2>2 DEF FilesInv, IsTree, NodeOK, TaskInv, IsTask, FilesTypeOK
<1> QED BY <1>1, FilesInvariant, PTL

\* A command that is acked, and that no other actor disturbed, did what it
\* promises as if it were atomic.
THEOREM CommandsDoAsPromised == FilesSpec => []DoneAsPromised
<1>1. FilesInv => DoneAsPromised BY Zenon DEF FilesInv, TaskInv, Stage, DoneAsPromised
<1> QED BY <1>1, FilesInvariant, PTL

\* A command that failed, or is under way, has touched only what it names.
THEOREM FailuresAreConfined == FilesSpec => []FailureIsConfined
<1>1. FilesInv => FailureIsConfined BY Zenon DEF FilesInv, TaskInv, Confined, FailureIsConfined
<1> QED BY <1>1, FilesInvariant, PTL
=============================================================================
