------------------------------ MODULE InodesProof ------------------------------
(***************************************************************************)
(* Proof that the inode table of fs.c is exact, for any number of processes, *)
(* inodes and blocks, any names and any paths, also those that lead through  *)
(* the ".." of a removed directory: ip->ref counts the pointers to an entry, *)
(* who has an inode locked has one of them, and a copy in the table is the   *)
(* inode on the disk. And on top of it, for paths without "..", that what is *)
(* on the disk is exact as well: nlink counts the names of an inode, a name  *)
(* leads to a file or a directory, each block belongs to one inode, and the  *)
(* locks of inodes do not deadlock.                                          *)
(***************************************************************************)
EXTENDS Inodes, FiniteSetTheorems, WellFoundedInduction, TLAPS

Elem == Name \cup {".", ".."}
InumOrNone == Inum \cup {0}
WalkPc == {"walk", "parent"}
DirPc == {"child", "new"}        \* the directory dp is locked
NodePc == {"unlinked", "made"}   \* the inode ip is locked
OtherPc == {"idle", "exists", "bad"}
PutPc == {"no", "free", "freed", "drop"}
Puts == {<<>>} \cup {<<a>> : a \in Inum} \cup {<<a, b>> : a \in Inum, b \in Inum}
CallType ==
  [pc : WalkPc \cup DirPc \cup NodePc \cup OtherPc, call : Call \cup {"none"}, path : Seq(Elem),
   new : Seq(Elem \cup {"/"}), name : Elem \cup {"none"}, dp : InumOrNone, ip : InumOrNone,
   puts : Puts, put : PutPc]

\* A node has the three fields of an inode.
IsNode(node) == node = [type |-> node.type, nlink |-> node.nlink, addrs |-> node.addrs]

\* What a call has in hand where it is.
Consistent(c) ==
  /\ c.puts = <<>> => c.put = "no"
  /\ Put2(c.puts) # 0 => c.pc \in {"idle", "bad"}
  /\ c.pc \in {"parent", "child", "new"} => c.puts = <<>> /\ c.name \in Elem
  /\ c.dp # 0 <=> c.pc \in WalkPc \cup DirPc
  /\ c.pc \in DirPc \cup NodePc \cup {"exists", "bad"} => c.ip # 0
  /\ c.pc = "idle" => c.ip = 0
  /\ c.pc \in WalkPc => IF c.call = "link" THEN c.pc = "parent" => c.ip # 0 ELSE c.ip = 0
  /\ c.pc = "walk" /\ c.call = "link" /\ c.ip = 0 => c.new \in Path

TypesOK ==
  /\ ref \in [Inum -> Int] /\ valid \in [Inum -> BOOLEAN] /\ ilock \in [Inum -> Process \cup {Nobody}]
  /\ cwd \in [Process -> Inum] /\ file \in [Process -> InumOrNone]
  /\ ent \in [Inum -> [Name \cup {".."} -> InumOrNone]]
  /\ disk = [i \in Inum |-> disk[i]] /\ mem = [i \in Inum |-> mem[i]]
  /\ \A i \in Inum : IsNode(disk[i]) /\ IsNode(mem[i])
  /\ sys \in [Process -> CallType]
CallsOK == \A p \in Process : Consistent(sys[p])

\* How many of the pointers h name i, and all pointers to i.
One(c) == IF c THEN 1 ELSE 0
Is(n, i) == One(n = i)
Tally(h, i) ==
  Is(h["cwd"], i) + Is(h["file"], i) + Is(h["dp"], i) + Is(h["ip"], i)
  + Is(h["put1"], i) + Is(h["put2"], i)
To(i) == {u \in Uses : u[3] = i}
Counted == \A i \in Inum : ref[i] = Cardinality(To(i))

\* The inodes that p may have locked, and those that it has.
MayHold(p) ==
  {i \in Inum : \/ sys[p].pc \in DirPc /\ i = sys[p].dp
                \/ sys[p].pc \in NodePc /\ i = sys[p].ip
                \/ i = Put2(sys[p].puts)
                \/ sys[p].put \in {"free", "freed"} /\ i = Put1(sys[p].puts)}
Holds(p, i) == ilock[i] = p /\ valid[i]
LocksOK ==
  /\ \A i \in Inum : ilock[i] # Nobody => i \in MayHold(ilock[i])
  /\ \A p \in Process :
       /\ sys[p].pc \in DirPc => Holds(p, sys[p].dp)
       /\ sys[p].pc \in NodePc =>
            Holds(p, sys[p].ip) /\ Put1(sys[p].puts) # sys[p].ip
       /\ sys[p].put \in {"free", "freed"} => ilock[Put1(sys[p].puts)] = p

\* A copy is the inode on the disk, but for the one that iput() has just freed there.
Freed(i) == \E p \in Process : sys[p].put = "freed" /\ Put1(sys[p].puts) = i
CopiesOK ==
  \A i \in Inum :
    valid[i] => ref[i] > 0 /\ (Freed(i) \/ (mem[i] = disk[i] /\ disk[i].type # "none"))

\* The inductive invariant. RefsExact and TableExact say nothing of where a call is, so a
\* step cannot be shown to keep them: LocksOK says what a call has locked, and CopiesOK
\* what a locked inode holds.
IInv == TypesOK /\ CallsOK /\ Counted /\ LocksOK /\ CopiesOK

-----------------------------------------------------------------------------

LEMMA InumFacts ==
  ASSUME InodesAssumption
  PROVE  /\ NINODES \in Nat \ {0} /\ ROOTINO \in Inum /\ 0 \notin Inum
         /\ InumOrNone = 0 .. NINODES /\ Inum \subseteq Int /\ IsFiniteSet(Inum)
         /\ IsFiniteSet(Process) /\ Nobody \notin Process /\ Name \cap {"/", ".", ".."} = {}
<1>1. NINODES \in Nat \ {0} /\ IsFiniteSet(Process) /\ Nobody \notin Process /\ Name \cap {"/", ".", ".."} = {}
  BY DEF InodesAssumption
<1>2. IsFiniteSet(1 .. NINODES)
  BY <1>1, FS_Interval
<1> QED
  BY <1>1, <1>2 DEF Inum, InumOrNone, ROOTINO

\* What a call has to put is nothing, one inode or two.
LEMMA PutsAre ==
  ASSUME NEW q \in Puts
  PROVE  /\ q = <<>> => Len(q) = 0 /\ Put1(q) = 0 /\ Put2(q) = 0
         /\ q # <<>> => Put1(q) = q[1] /\ Put1(q) = Head(q) /\ Put1(q) \in Inum
         /\ \/ q = <<>>
            \/ q = <<q[1]>> /\ Len(q) = 1 /\ Put2(q) = 0 /\ Tail(q) = <<>>
            \/ /\ q = <<q[1], q[2]>> /\ Len(q) = 2 /\ Put2(q) = q[2] /\ Put2(q) \in Inum
               /\ Tail(q) = <<q[2]>>
         /\ q # <<>> => /\ Tail(q) \in Puts /\ Put1(Tail(q)) = Put2(q) /\ Put2(Tail(q)) = 0
                        /\ Put2(q) # 0 => Len(q) > 1
                        /\ Len(q) > 1 => Put2(q) = q[2]
<1>1. CASE q = <<>>
  BY <1>1 DEF Put1, Put2
<1>2. ASSUME NEW a \in Inum, q = <<a>>
      PROVE  /\ q # <<>> /\ Len(q) = 1 /\ q[1] = a /\ Head(q) = a /\ Put1(q) = a /\ Put2(q) = 0
             /\ Tail(q) = <<>> /\ Put1(Tail(q)) = 0 /\ Put2(Tail(q)) = 0 /\ Tail(q) \in Puts
  <2>1. q # <<>> /\ Len(q) = 1 /\ q[1] = a /\ Head(q) = a /\ Tail(q) = <<>>
    BY <1>2
  <2> QED
    BY <2>1 DEF Put1, Put2, Puts
<1>3. ASSUME NEW a \in Inum, NEW b \in Inum, q = <<a, b>>
      PROVE  /\ q # <<>> /\ Len(q) = 2 /\ q[1] = a /\ q[2] = b /\ Head(q) = a /\ Put1(q) = a /\ Put2(q) = b
             /\ Tail(q) = <<b>> /\ Put1(Tail(q)) = b /\ Put2(Tail(q)) = 0 /\ Tail(q) \in Puts
  <2>1. q # <<>> /\ Len(q) = 2 /\ q[1] = a /\ q[2] = b /\ Head(q) = a
    BY <1>3
  <2>2. Tail(q) = <<b>>
    BY <1>3
  <2>3. <<b>> # <<>> /\ Len(<<b>>) = 1 /\ <<b>>[1] = b
    OBVIOUS
  <2>4. Put1(<<b>>) = b /\ Put2(<<b>>) = 0 /\ <<b>> \in Puts
    BY <2>3 DEF Put1, Put2, Puts
  <2> QED
    BY <2>1, <2>2, <2>4 DEF Put1, Put2
<1>4. \/ q = <<>>
      \/ \E a \in Inum : q = <<a>>
      \/ \E a, b \in Inum : q = <<a, b>>
  BY DEF Puts
<1>5. CASE \E a \in Inum : q = <<a>>
  <2>1. PICK a \in Inum : q = <<a>>
    BY <1>5
  <2>2. /\ q # <<>> /\ Len(q) = 1 /\ q[1] = a /\ Head(q) = a /\ Put1(q) = a /\ Put2(q) = 0
        /\ Tail(q) = <<>> /\ Put1(Tail(q)) = 0 /\ Put2(Tail(q)) = 0 /\ Tail(q) \in Puts
    BY <1>2, <2>1
  <2>3. q = <<q[1]>> /\ Put1(q) \in Inum
    BY <2>1, <2>2
  <2>4. ~(Len(q) > 1)
    BY <2>2
  <2> QED
    BY <2>2, <2>3, <2>4
<1>6. CASE \E a, b \in Inum : q = <<a, b>>
  <2>1. PICK a \in Inum, b \in Inum : q = <<a, b>>
    BY <1>6
  <2>2. /\ q # <<>> /\ Len(q) = 2 /\ q[1] = a /\ q[2] = b /\ Head(q) = a /\ Put1(q) = a /\ Put2(q) = b
        /\ Tail(q) = <<b>> /\ Put1(Tail(q)) = b /\ Put2(Tail(q)) = 0 /\ Tail(q) \in Puts
    BY <1>3, <2>1
  <2>3. q = <<q[1], q[2]>> /\ Put1(q) \in Inum /\ Put2(q) \in Inum
    BY <2>1, <2>2
  <2>4. Len(q) > 1
    BY <2>2
  <2> QED
    BY <2>2, <2>3, <2>4
<1> QED
  BY <1>1, <1>4, <1>5, <1>6

LEMMA NewPuts ==
  ASSUME NEW a \in Inum, NEW b \in Inum
  PROVE  /\ <<>> \in Puts /\ Put1(<<>>) = 0 /\ Put2(<<>>) = 0
         /\ <<a>> \in Puts /\ <<a>> # <<>> /\ Put1(<<a>>) = a /\ Put2(<<a>>) = 0
         /\ <<a, b>> \in Puts /\ <<a, b>> # <<>> /\ Put1(<<a, b>>) = a /\ Put2(<<a, b>>) = b
<1>1. <<>> \in Puts /\ <<a>> \in Puts /\ <<a, b>> \in Puts
  BY DEF Puts
<1>2. /\ <<a>> # <<>> /\ <<a>>[1] = a /\ Len(<<a>>) = 1 /\ Len(<<>>) = 0
      /\ <<a, b>> # <<>> /\ <<a, b>>[1] = a /\ <<a, b>>[2] = b /\ Len(<<a, b>>) = 2
  OBVIOUS
<1> QED
  BY <1>1, <1>2 DEF Put1, Put2

Field == {"cwd", "file", "dp", "ip", "put1", "put2"}

\* One more place, or not.
LEMMA OneMore ==
  ASSUME NEW S, IsFiniteSet(S), NEW e, e \notin S, NEW c \in BOOLEAN
  PROVE  LET T == S \cup (IF c THEN {e} ELSE {}) IN
         IsFiniteSet(T) /\ Cardinality(T) = Cardinality(S) + One(c)
<1>1. Cardinality(S) \in Nat
  BY FS_CardinalityType
<1>2. CASE c
  <2>1. IsFiniteSet(S \cup {e}) /\ Cardinality(S \cup {e}) = Cardinality(S) + 1
    BY FS_AddElement
  <2> QED
    BY <1>2, <2>1 DEF One
<1>3. CASE ~c
  <2>1. S \cup (IF c THEN {e} ELSE {}) = S
    BY <1>3
  <2> QED
    BY <1>1, <1>3, <2>1 DEF One
<1> QED
  BY <1>2, <1>3

LEMMA UsesAre ==
  ASSUME NEW i \in Inum, NEW u
  PROVE  u \in To(i) <=> \E p \in Process : \E k \in Field : u = <<p, k, i>> /\ Pointers(p)[k] = i
<1>1. \A p \in Process : DOMAIN Pointers(p) = Field
  BY DEF Pointers, Field
<1> QED
  BY <1>1 DEF To, Uses

\* The places at which the pointers h of process p name i.
Mine(p, h, i) == {<<p, k, i>> : k \in {f \in Field : h[f] = i}}

LEMMA MineCounted ==
  ASSUME NEW p, NEW h, NEW i
  PROVE  /\ IsFiniteSet(Mine(p, h, i)) /\ Cardinality(Mine(p, h, i)) = Tally(h, i)
         /\ Tally(h, i) \in Nat
<1> DEFINE c1 == h["cwd"] = i
           c2 == h["file"] = i
           c3 == h["dp"] = i
           c4 == h["ip"] = i
           c5 == h["put1"] = i
           c6 == h["put2"] = i
           S1 == {} \cup (IF c1 THEN {<<p, "cwd", i>>} ELSE {})
           S2 == S1 \cup (IF c2 THEN {<<p, "file", i>>} ELSE {})
           S3 == S2 \cup (IF c3 THEN {<<p, "dp", i>>} ELSE {})
           S4 == S3 \cup (IF c4 THEN {<<p, "ip", i>>} ELSE {})
           S5 == S4 \cup (IF c5 THEN {<<p, "put1", i>>} ELSE {})
           S6 == S5 \cup (IF c6 THEN {<<p, "put2", i>>} ELSE {})
<1>1. Mine(p, h, i) = S6
  <2>1. ASSUME NEW u PROVE u \in Mine(p, h, i) <=> u \in S6
    <3>1. u \in Mine(p, h, i) <=> \E k \in Field : u = <<p, k, i>> /\ h[k] = i
      BY DEF Mine
    <3>2. u \in S6 <=> \/ c1 /\ u = <<p, "cwd", i>>
                       \/ c2 /\ u = <<p, "file", i>>
                       \/ c3 /\ u = <<p, "dp", i>>
                       \/ c4 /\ u = <<p, "ip", i>>
                       \/ c5 /\ u = <<p, "put1", i>>
                       \/ c6 /\ u = <<p, "put2", i>>
      OBVIOUS
    <3> HIDE DEF S6
    <3> QED
      BY <3>1, <3>2 DEF Field
  <2> HIDE DEF S6
  <2> QED
    BY <2>1 DEF Mine
<1>2. IsFiniteSet({}) /\ Cardinality({}) = 0
  BY FS_EmptySet
<1>3. IsFiniteSet(S1) /\ Cardinality(S1) = 0 + One(c1)
  BY <1>2, OneMore
<1>4. IsFiniteSet(S2) /\ Cardinality(S2) = Cardinality(S1) + One(c2)
  <2>1. <<p, "file", i>> \notin S1
    OBVIOUS
  <2> HIDE DEF S1, c2
  <2> QED
    BY <1>3, <2>1, OneMore DEF c2
<1>5. IsFiniteSet(S3) /\ Cardinality(S3) = Cardinality(S2) + One(c3)
  <2>1. <<p, "dp", i>> \notin S2
    OBVIOUS
  <2> HIDE DEF S2, c3
  <2> QED
    BY <1>4, <2>1, OneMore DEF c3
<1>6. IsFiniteSet(S4) /\ Cardinality(S4) = Cardinality(S3) + One(c4)
  <2>1. <<p, "ip", i>> \notin S3
    OBVIOUS
  <2> HIDE DEF S3, c4
  <2> QED
    BY <1>5, <2>1, OneMore DEF c4
<1>7. IsFiniteSet(S5) /\ Cardinality(S5) = Cardinality(S4) + One(c5)
  <2>1. <<p, "put1", i>> \notin S4
    OBVIOUS
  <2> HIDE DEF S4, c5
  <2> QED
    BY <1>6, <2>1, OneMore DEF c5
<1>8. IsFiniteSet(S6) /\ Cardinality(S6) = Cardinality(S5) + One(c6)
  <2>1. <<p, "put2", i>> \notin S5
    OBVIOUS
  <2> HIDE DEF S5, c6
  <2> QED
    BY <1>7, <2>1, OneMore DEF c6
<1>9. Cardinality(S6) = One(c1) + One(c2) + One(c3) + One(c4) + One(c5) + One(c6)
  <2> HIDE DEF S1, S2, S3, S4, S5, S6, c1, c2, c3, c4, c5, c6
  <2> QED
    BY <1>3, <1>4, <1>5, <1>6, <1>7, <1>8 DEF One
<1>10. /\ Tally(h, i) = One(c1) + One(c2) + One(c3) + One(c4) + One(c5) + One(c6)
       /\ One(c1) \in Nat /\ One(c2) \in Nat /\ One(c3) \in Nat
       /\ One(c4) \in Nat /\ One(c5) \in Nat /\ One(c6) \in Nat
  BY DEF Tally, Is, One
<1> HIDE DEF S1, S2, S3, S4, S5, S6, c1, c2, c3, c4, c5, c6
<1> QED
  BY <1>1, <1>8, <1>9, <1>10

LEMMA ToFinite ==
  ASSUME InodesAssumption, TypesOK, NEW i \in Inum
  PROVE  IsFiniteSet(To(i)) /\ Cardinality(To(i)) \in Nat
<1> DEFINE D == {w \in Process \X Field : <<w[1], w[2], i>> \in To(i)}
           f == [w \in D |-> <<w[1], w[2], i>>]
<1>1. IsFiniteSet(Field)
  <2>1. IsFiniteSet({"cwd"} \cup {"file"} \cup {"dp"} \cup {"ip"} \cup {"put1"} \cup {"put2"})
    BY FS_Singleton, FS_Union
  <2> QED
    BY <2>1 DEF Field
<1>2. IsFiniteSet(Process \X Field)
  BY <1>1, InumFacts, FS_Product
<1>3. IsFiniteSet(D)
  BY <1>2, FS_Subset
<1>4. ASSUME NEW u \in To(i) PROVE \E w \in D : f[w] = u
  <2>1. PICK p \in Process, k \in Field : u = <<p, k, i>>
    BY UsesAre
  <2>2. <<p, k>> \in D
    BY <2>1
  <2>3. f[<<p, k>>] = u
    BY <2>1, <2>2
  <2> QED
    BY <2>2, <2>3
<1>5. f \in Surjection(D, To(i))
  BY <1>4 DEF Surjection
<1>6. IsFiniteSet(To(i))
  BY <1>3, <1>5, FS_Surjection
<1> QED
  BY <1>6, FS_CardinalityType

\* A step of one process: ref moves as the pointers of the process do.
LEMMA CountMoves ==
  ASSUME InodesAssumption, TypesOK, Counted, NEW p \in Process,
         \A q \in Process \ {p} : Pointers(q)' = Pointers(q),
         \A i \in Inum : ref'[i] = ref[i] + (Tally(Pointers(p)', i) - Tally(Pointers(p), i))
  PROVE  Counted'
<1> SUFFICES ASSUME NEW i \in Inum PROVE ref'[i] = Cardinality(To(i)')
  BY DEF Counted, Inum
<1> DEFINE Elsewhere == {u \in To(i) : u[1] # p}
           Old == Mine(p, Pointers(p), i)
           New == Mine(p, Pointers(p)', i)
           all == To(i)
           allNew == To(i)'
<1>1. /\ \A u : u \in all <=> \E q \in Process : \E k \in Field : u = <<q, k, i>> /\ Pointers(q)[k] = i
      /\ \A u : u \in allNew <=> \E q \in Process : \E k \in Field : u = <<q, k, i>> /\ Pointers(q)'[k] = i
  <2>1. \A q \in Process : DOMAIN Pointers(q) = Field /\ DOMAIN Pointers(q)' = Field
    BY DEF Pointers, Field
  <2> QED
    BY <2>1 DEF To, Uses
<1>2. all = Elsewhere \cup Old /\ Elsewhere \cap Old = {}
  BY <1>1 DEF Mine
<1>3. allNew = Elsewhere \cup New /\ Elsewhere \cap New = {}
  BY <1>1 DEF Mine
<1>4. IsFiniteSet(all) /\ Cardinality(all) \in Nat
  BY ToFinite
<1>5. /\ IsFiniteSet(Old) /\ Cardinality(Old) = Tally(Pointers(p), i) /\ Tally(Pointers(p), i) \in Nat
      /\ IsFiniteSet(New) /\ Cardinality(New) = Tally(Pointers(p)', i) /\ Tally(Pointers(p)', i) \in Nat
  BY MineCounted
<1>6. IsFiniteSet(Elsewhere) /\ Cardinality(Elsewhere) \in Nat /\ Cardinality({}) = 0
  BY <1>4, FS_Subset, FS_CardinalityType, FS_EmptySet
<1>7. ref[i] = Cardinality(all)
  BY DEF Counted
<1> DEFINE a == Tally(Pointers(p), i)
           b == Tally(Pointers(p)', i)
<1>8. ref'[i] = ref[i] + (b - a)
  OBVIOUS
<1> HIDE DEF Elsewhere, Old, New, all, allNew, a, b
<1>9. Cardinality(all) = Cardinality(Elsewhere) + Cardinality(Old) - Cardinality(Elsewhere \cap Old)
  BY <1>2, <1>5, <1>6, FS_Union
<1>10. Cardinality(allNew) = Cardinality(Elsewhere) + Cardinality(New) - Cardinality(Elsewhere \cap New)
  BY <1>3, <1>5, <1>6, FS_Union
<1>11. a \in Nat /\ b \in Nat /\ Cardinality(Old) = a /\ Cardinality(New) = b
  BY <1>5 DEF a, b
<1>12. Cardinality(all) = Cardinality(Elsewhere) + a /\ Cardinality(allNew) = Cardinality(Elsewhere) + b
  <2>1. Cardinality(Elsewhere \cap Old) = 0 /\ Cardinality(Elsewhere \cap New) = 0
    BY <1>2, <1>3, <1>6
  <2>2. Cardinality(all) = Cardinality(Elsewhere) + a - 0 /\ Cardinality(allNew) = Cardinality(Elsewhere) + b - 0
    BY <1>9, <1>10, <1>11, <2>1
  <2> QED
    BY <1>6, <1>11, <2>2
<1>13. ref'[i] = Cardinality(allNew)
  BY <1>6, <1>7, <1>8, <1>11, <1>12
<1> QED
  BY <1>13 DEF allNew

\* Who has a pointer to i is counted; two pointers are counted twice.
LEMMA PointerCounts ==
  ASSUME InodesAssumption, TypesOK, Counted, NEW i \in Inum, NEW p \in Process, NEW k \in Field,
         Pointers(p)[k] = i
  PROVE  /\ ref[i] \in Int /\ ref[i] > 0
         /\ \A q \in Process, l \in Field :
              Pointers(q)[l] = i /\ (q # p \/ l # k) => ref[i] > 1
<1>1. IsFiniteSet(To(i)) /\ Cardinality(To(i)) \in Nat /\ ref[i] = Cardinality(To(i))
  BY ToFinite DEF Counted
<1> DEFINE u == <<p, k, i>>
           R == To(i) \ {u}
<1>2. u \in To(i)
  BY UsesAre
<1>3. IsFiniteSet(R) /\ Cardinality(R) = Cardinality(To(i)) - 1 /\ Cardinality(R) \in Nat
  BY <1>1, <1>2, FS_RemoveElement, FS_CardinalityType
<1>4. ASSUME NEW q \in Process, NEW l \in Field, Pointers(q)[l] = i, q # p \/ l # k
      PROVE  ref[i] > 1
  <2>1. <<q, l, i>> \in R
    BY <1>4, UsesAre
  <2>2. Cardinality(R) # 0
    BY <1>3, <2>1, FS_EmptySet
  <2> HIDE DEF R
  <2> QED
    BY <1>1, <1>3, <2>2
<1> HIDE DEF R
<1> QED
  BY <1>1, <1>3, <1>4

LEMMA IsFacts ==
  ASSUME InodesAssumption
  PROVE  \A i \in Inum : Is(0, i) = 0 /\ \A n : Is(n, i) \in Int
BY InumFacts DEF Is, One

LEMMA TallyIs ==
  ASSUME NEW p, NEW i
  PROVE  /\ Tally(Pointers(p), i) =
              Is(cwd[p], i) + Is(file[p], i) + Is(sys[p].dp, i) + Is(sys[p].ip, i)
              + Is(Put1(sys[p].puts), i) + Is(Put2(sys[p].puts), i)
         /\ Tally(Pointers(p)', i) =
              Is(cwd'[p], i) + Is(file'[p], i) + Is(sys'[p].dp, i) + Is(sys'[p].ip, i)
              + Is(Put1(sys'[p].puts), i) + Is(Put2(sys'[p].puts), i)
BY DEF Tally, Pointers

\* What a call has in hand is counted.
LEMMA InHand ==
  ASSUME InodesAssumption, IInv, NEW p \in Process, NEW i \in Inum,
         i \in {cwd[p], file[p], sys[p].dp, sys[p].ip, Put1(sys[p].puts), Put2(sys[p].puts)}
  PROVE  ref[i] \in Int /\ ref[i] > 0
<1>1. \E k \in Field : Pointers(p)[k] = i
  BY DEF Field, Pointers
<1> QED
  BY <1>1, PointerCounts DEF IInv

LEMMA NodeChanges ==
  ASSUME NEW n, IsNode(n), NEW k, NEW S
  PROVE  /\ IsNode([n EXCEPT !.nlink = k]) /\ [n EXCEPT !.nlink = k].type = n.type
         /\ IsNode([n EXCEPT !.addrs = S]) /\ [n EXCEPT !.addrs = S].type = n.type
         /\ IsNode([n EXCEPT !.type = k]) /\ [n EXCEPT !.type = k].type = k
         /\ IsNode([n EXCEPT !.nlink = k, !.addrs = S]) /\ [n EXCEPT !.nlink = k, !.addrs = S].type = n.type
         /\ IsNode(FreeNode) /\ IsNode([FreeNode EXCEPT !.type = k]) /\ [FreeNode EXCEPT !.type = k].type = k
<1> DEFINE a == n.type
           b == n.nlink
           c == n.addrs
<1>1. n = [type |-> a, nlink |-> b, addrs |-> c]
  BY DEF IsNode
<1> HIDE DEF a, b, c
<1>2. [n EXCEPT !.nlink = k] = [type |-> a, nlink |-> k, addrs |-> c]
  BY <1>1
<1>3. [n EXCEPT !.addrs = S] = [type |-> a, nlink |-> b, addrs |-> S]
  BY <1>1
<1>4. [n EXCEPT !.type = k] = [type |-> k, nlink |-> b, addrs |-> c] /\ n.type = a
  BY <1>1
<1>5. [n EXCEPT !.nlink = k, !.addrs = S] = [type |-> a, nlink |-> k, addrs |-> S]
  <2>1. [n EXCEPT !.nlink = k, !.addrs = S] = [[n EXCEPT !.nlink = k] EXCEPT !.addrs = S]
    OBVIOUS
  <2>2. [[type |-> a, nlink |-> k, addrs |-> c] EXCEPT !.addrs = S] = [type |-> a, nlink |-> k, addrs |-> S]
    OBVIOUS
  <2> QED
    BY <1>2, <2>1, <2>2
<1>6. [FreeNode EXCEPT !.type = k] = [type |-> k, nlink |-> 0, addrs |-> {}]
  BY DEF FreeNode
<1> QED
  BY <1>2, <1>3, <1>4, <1>5, <1>6 DEF IsNode, FreeNode

\* The inode that p locks, or has locked, is that of the disk, and has a type.
LEMMA Sees ==
  ASSUME InodesAssumption, IInv, NEW p \in Process, NEW i \in Inum,
         ilock[i] = Nobody \/ (ilock[i] = p /\ sys[p].put = "no"), ~Untyped(i)
  PROVE  /\ ~Freed(i) /\ Inode(i) = disk[i] /\ disk[i].type # "none"
         /\ IsNode(disk[i]) /\ Inode(i).type = disk[i].type
<1>1. ~Freed(i)
  <2>1. SUFFICES ASSUME NEW q \in Process, sys[q].put = "freed", Put1(sys[q].puts) = i PROVE FALSE
    BY DEF Freed
  <2>2. ilock[i] = q
    BY <2>1 DEF IInv, LocksOK
  <2> QED
    BY <2>1, <2>2, InumFacts
<1>2. valid[i] => mem[i] = disk[i] /\ disk[i].type # "none"
  BY <1>1 DEF IInv, CopiesOK
<1>3. Inode(i) = disk[i] /\ disk[i].type # "none"
  BY <1>2 DEF Inode, Untyped
<1> QED
  BY <1>1, <1>3 DEF IInv, TypesOK

LEMMA LoadsOne ==
  ASSUME TypesOK, NEW i \in Inum, Fetched(i), Inode(i) = disk[i]
  PROVE  /\ valid' \in [Inum -> BOOLEAN] /\ mem' = [j \in Inum |-> mem'[j]]
         /\ \A j \in Inum : IsNode(mem'[j])
         /\ valid'[i] /\ mem'[i] = disk[i]
         /\ \A j \in Inum \ {i} : valid'[j] = valid[j] /\ mem'[j] = mem[j]
BY DEF Fetched, TypesOK

LEMMA UpdatesOne ==
  ASSUME TypesOK, NEW i \in Inum, NEW n, IsNode(n), Iupdate(Only(i, n))
  PROVE  /\ valid' \in [Inum -> BOOLEAN]
         /\ mem' = [j \in Inum |-> mem'[j]] /\ disk' = [j \in Inum |-> disk'[j]]
         /\ \A j \in Inum : IsNode(mem'[j]) /\ IsNode(disk'[j])
         /\ valid'[i] /\ mem'[i] = n /\ disk'[i] = n
         /\ \A j \in Inum \ {i} : valid'[j] = valid[j] /\ mem'[j] = mem[j] /\ disk'[j] = disk[j]
BY DEF Iupdate, Only, TypesOK

LEMMA UpdatesTwo ==
  ASSUME TypesOK, NEW i \in Inum, NEW d \in Inum, NEW f, DOMAIN f = {d, i},
         IsNode(f[d]), IsNode(f[i]), Iupdate(f)
  PROVE  /\ valid' \in [Inum -> BOOLEAN]
         /\ mem' = [j \in Inum |-> mem'[j]] /\ disk' = [j \in Inum |-> disk'[j]]
         /\ \A j \in Inum : IsNode(mem'[j]) /\ IsNode(disk'[j])
         /\ \A j \in {d, i} : valid'[j] /\ mem'[j] = f[j] /\ disk'[j] = f[j]
         /\ \A j \in Inum \ {d, i} : valid'[j] = valid[j] /\ mem'[j] = mem[j] /\ disk'[j] = disk[j]
BY DEF Iupdate, TypesOK

\* What a step of a call of p may do when p is putting no inode: to the call and its files,
\* to the counts, to the copies, where D are the inodes whose copies it reads or writes and
\* a free inode may get a type besides, and to the locks.
CallMoves(p) ==
  /\ sys' \in [Process -> CallType] /\ Consistent(sys'[p]) /\ sys'[p].put = "no"
  /\ \A q \in Process \ {p} : sys'[q] = sys[q]
FilesMove(p) ==
  /\ cwd' \in [Process -> Inum] /\ file' \in [Process -> InumOrNone]
  /\ \A q \in Process \ {p} : cwd'[q] = cwd[q] /\ file'[q] = file[q]
RefsMove(p) ==
  /\ ref' \in [Inum -> Int] /\ \A i \in Inum : ref'[i] >= ref[i]
  /\ \A i \in Inum : ref'[i] = ref[i] + (Tally(Pointers(p)', i) - Tally(Pointers(p), i))
EntriesMove == ent' \in [Inum -> [Name \cup {".."} -> InumOrNone]]
CopiesMove(D) ==
  /\ valid' \in [Inum -> BOOLEAN]
  /\ mem' = [j \in Inum |-> mem'[j]] /\ disk' = [j \in Inum |-> disk'[j]]
  /\ \A j \in Inum : IsNode(mem'[j]) /\ IsNode(disk'[j])
  /\ \A i \in D : /\ ref[i] > 0 /\ ~Freed(i)
                  /\ valid'[i] /\ mem'[i] = disk'[i] /\ disk'[i].type # "none"
  /\ \A i \in Inum \ D : /\ valid'[i] = valid[i] /\ mem'[i] = mem[i]
                         /\ disk'[i] = disk[i] \/ disk[i].type = "none"
LocksMove(p) ==
  /\ ilock' \in [Inum -> Process \cup {Nobody}]
  /\ \A i \in Inum : ilock'[i] # ilock[i] => ilock[i] \in {Nobody, p} /\ ilock'[i] \in {Nobody, p}
  /\ \A i \in Inum : ilock'[i] = p => i \in MayHold(p)'
  /\ sys'[p].pc \in DirPc => ilock'[sys'[p].dp] = p /\ valid'[sys'[p].dp]
  /\ sys'[p].pc \in NodePc => /\ ilock'[sys'[p].ip] = p /\ valid'[sys'[p].ip]
                              /\ Put1(sys'[p].puts) # sys'[p].ip

LEMMA CallStep ==
  ASSUME InodesAssumption, IInv, NEW p \in Process, NEW D \in SUBSET Inum, sys[p].put = "no",
         CallMoves(p), FilesMove(p), RefsMove(p), EntriesMove, CopiesMove(D), LocksMove(p)
  PROVE  IInv'
<1> USE DEF CallMoves, FilesMove, RefsMove, EntriesMove, CopiesMove, LocksMove
<1> USE DEF IInv
<1>1. TypesOK'
  BY DEF TypesOK
<1>2. CallsOK'
  BY DEF CallsOK
<1>3. Counted'
  <2>1. \A q \in Process \ {p} : Pointers(q)' = Pointers(q)
    BY DEF Pointers
  <2> QED
    BY <2>1, CountMoves
<1>4. \A i \in Inum : Freed(i)' <=> Freed(i)
  <2>1. \A q \in Process : (sys'[q].put = "freed") <=> (sys[q].put = "freed")
    OBVIOUS
  <2>2. \A q \in Process : sys[q].put = "freed" => sys'[q] = sys[q]
    OBVIOUS
  <2> QED
    BY <2>1, <2>2 DEF Freed
<1>5. \A i \in Inum : valid[i] => valid'[i]
  OBVIOUS
<1>6. \A q \in Process \ {p} : \A i \in Inum : ilock[i] = q => ilock'[i] = q
  BY InumFacts
<1>7. \A i \in Inum : ilock'[i] # Nobody => i \in MayHold(ilock[i])'
  <2>1. SUFFICES ASSUME NEW i \in Inum, ilock'[i] # Nobody, ilock'[i] # p
                 PROVE  i \in MayHold(ilock[i])'
    OBVIOUS
  <2>2. ilock'[i] = ilock[i] /\ ilock[i] \in Process \ {p}
    BY <2>1 DEF TypesOK
  <2>3. i \in MayHold(ilock[i])
    BY <2>1, <2>2 DEF LocksOK
  <2> QED
    BY <2>2, <2>3 DEF MayHold
<1>8. ASSUME NEW q \in Process
      PROVE  /\ sys'[q].pc \in DirPc => ilock'[sys'[q].dp] = q /\ valid'[sys'[q].dp]
             /\ sys'[q].pc \in NodePc =>
                  ilock'[sys'[q].ip] = q /\ valid'[sys'[q].ip] /\ Put1(sys'[q].puts) # sys'[q].ip
             /\ sys'[q].put \in {"free", "freed"} => ilock'[Put1(sys'[q].puts)] = q
  <2>1. CASE q = p
    BY <2>1
  <2>2. CASE q # p
    <3>1. sys'[q] = sys[q] /\ sys[q] \in CallType /\ Consistent(sys[q])
      BY <2>2 DEF TypesOK, CallsOK
    <3>2. /\ sys[q].pc \in DirPc => sys[q].dp \in Inum
          /\ sys[q].pc \in NodePc => sys[q].ip \in Inum
          /\ sys[q].put \in {"free", "freed"} => Put1(sys[q].puts) \in Inum
      BY <3>1, PutsAre DEF Consistent, CallType, InumOrNone
    <3>3. /\ sys[q].pc \in DirPc => ilock[sys[q].dp] = q /\ valid[sys[q].dp]
          /\ sys[q].pc \in NodePc =>
               ilock[sys[q].ip] = q /\ valid[sys[q].ip] /\ Put1(sys[q].puts) # sys[q].ip
          /\ sys[q].put \in {"free", "freed"} => ilock[Put1(sys[q].puts)] = q
      BY DEF LocksOK, Holds
    <3> QED
      BY <1>5, <1>6, <2>2, <3>1, <3>2, <3>3
  <2> QED
    BY <2>1, <2>2
<1>9. LocksOK'
  BY <1>7, <1>8 DEF LocksOK, Holds
<1>10. CopiesOK'
  <2>1. SUFFICES ASSUME NEW i \in Inum, valid'[i]
                 PROVE  ref'[i] > 0 /\ (Freed(i) \/ (mem'[i] = disk'[i] /\ disk'[i].type # "none"))
    BY <1>4 DEF CopiesOK
  <2>2. ref[i] > 0
    BY <2>1 DEF CopiesOK
  <2>3. ref[i] \in Int /\ ref'[i] \in Int /\ ref'[i] >= ref[i]
    BY DEF TypesOK
  <2>4. ref'[i] > 0
    BY <2>2, <2>3
  <2>5. Freed(i) \/ (mem'[i] = disk'[i] /\ disk'[i].type # "none")
    BY <2>1 DEF CopiesOK
  <2> QED
    BY <2>4, <2>5
<1> QED
  BY <1>1, <1>2, <1>3, <1>9, <1>10

\* p has no inode locked.
LEMMA NoLocks ==
  ASSUME InodesAssumption, IInv, NEW p \in Process, sys[p].put = "no", Put2(sys[p].puts) = 0,
         sys[p].pc \notin DirPc \cup NodePc
  PROVE  \A i \in Inum : ilock[i] # p
BY InumFacts DEF IInv, LocksOK, MayHold

\* Where p is when it is putting no inode, and what it has in hand.
LEMMA AtFacts ==
  ASSUME InodesAssumption, IInv, NEW p \in Process, NEW l, AtPc(p, l)
  PROVE  /\ sys[p] \in CallType /\ Consistent(sys[p]) /\ sys[p].pc = l
         /\ sys[p].puts = <<>> /\ sys[p].put = "no"
         /\ Put1(sys[p].puts) = 0 /\ Put2(sys[p].puts) = 0
         /\ cwd[p] \in Inum /\ file[p] \in InumOrNone /\ sys[p].dp \in InumOrNone /\ sys[p].ip \in InumOrNone
         /\ l \in WalkPc \cup DirPc => sys[p].dp \in Inum
         /\ l \notin WalkPc \cup DirPc => sys[p].dp = 0
         /\ l \in DirPc \cup NodePc \cup {"exists", "bad"} => sys[p].ip \in Inum
         /\ l = "idle" => sys[p].ip = 0
         /\ l \in WalkPc => IF sys[p].call = "link" THEN l = "parent" => sys[p].ip \in Inum ELSE sys[p].ip = 0
         /\ l \in {"parent", "child", "new"} => sys[p].name \in Elem
         /\ l \notin DirPc \cup NodePc => \A i \in Inum : ilock[i] # p
<1>1. /\ sys[p] \in CallType /\ Consistent(sys[p]) /\ sys[p].pc = l /\ sys[p].puts = <<>>
      /\ cwd[p] \in Inum /\ file[p] \in InumOrNone
  BY DEF IInv, TypesOK, CallsOK, AtPc
<1>2. Put1(sys[p].puts) = 0 /\ Put2(sys[p].puts) = 0
  BY <1>1, PutsAre DEF CallType
<1>3. sys[p].put = "no" /\ sys[p].dp \in InumOrNone /\ sys[p].ip \in InumOrNone
  BY <1>1 DEF Consistent, CallType
<1>4. l \notin DirPc \cup NodePc => \A i \in Inum : ilock[i] # p
  BY <1>1, <1>2, <1>3, NoLocks
<1> QED
  BY <1>1, <1>2, <1>3, <1>4 DEF Consistent, InumOrNone

LEMMA FilesStay ==
  ASSUME TypesOK, NEW p, UNCHANGED <<cwd, file>>
  PROVE  FilesMove(p)
BY DEF TypesOK, FilesMove

LEMMA FileOpens ==
  ASSUME TypesOK, NEW p \in Process, NEW i \in InumOrNone, file' = [file EXCEPT ![p] = i], UNCHANGED cwd
  PROVE  FilesMove(p) /\ file'[p] = i
BY DEF TypesOK, FilesMove

LEMMA RefsStay ==
  ASSUME TypesOK, NEW p \in Process, UNCHANGED ref,
         \A i \in Inum : Tally(Pointers(p)', i) = Tally(Pointers(p), i)
  PROVE  RefsMove(p)
<1>1. ASSUME NEW i \in Inum
      PROVE  ref'[i] = ref[i] + (Tally(Pointers(p)', i) - Tally(Pointers(p), i)) /\ ref'[i] >= ref[i]
  <2>1. ref[i] \in Int /\ ref'[i] = ref[i] /\ Tally(Pointers(p), i) \in Nat
    BY MineCounted DEF TypesOK
  <2> QED
    BY <2>1
<1> QED
  BY <1>1 DEF TypesOK, RefsMove

LEMMA RefsGrow ==
  ASSUME TypesOK, NEW p \in Process, NEW n \in Inum, Iget(n),
         \A i \in Inum : Tally(Pointers(p)', i) = Tally(Pointers(p), i) + Is(n, i)
  PROVE  RefsMove(p)
<1>1. ref' \in [Inum -> Int] /\ \A i \in Inum : ref'[i] = ref[i] + Is(n, i)
  BY DEF TypesOK, Iget, Is, One, Inum
<1>2. ASSUME NEW i \in Inum
      PROVE  ref'[i] = ref[i] + (Tally(Pointers(p)', i) - Tally(Pointers(p), i)) /\ ref'[i] >= ref[i]
  <2>1. ref[i] \in Int /\ ref'[i] = ref[i] + Is(n, i) /\ Tally(Pointers(p), i) \in Nat /\ Is(n, i) \in Nat
    BY <1>1, MineCounted DEF TypesOK, Is, One
  <2> QED
    BY <2>1
<1> QED
  BY <1>1, <1>2 DEF RefsMove

LEMMA EntriesStay ==
  ASSUME TypesOK, UNCHANGED ent
  PROVE  EntriesMove
BY DEF TypesOK, EntriesMove

LEMMA CopiesStay ==
  ASSUME TypesOK, UNCHANGED <<disk, valid, mem>>
  PROVE  CopiesMove({})
BY DEF TypesOK, CopiesMove

\* ilock() of one inode, that p has in hand.
LEMMA CopyLoads ==
  ASSUME InodesAssumption, IInv, NEW p \in Process, sys[p].put = "no", NEW i \in Inum,
         i \in {cwd[p], file[p], sys[p].dp, sys[p].ip},
         ilock[i] = Nobody \/ ilock[i] = p, ~Untyped(i), Fetched(i), UNCHANGED disk
  PROVE  CopiesMove({i}) /\ valid'[i]
<1>1. ~Freed(i) /\ Inode(i) = disk[i] /\ disk[i].type # "none"
  BY Sees
<1>2. ref[i] > 0
  BY InHand
<1>3. TypesOK
  BY DEF IInv
<1>4. /\ valid' \in [Inum -> BOOLEAN] /\ mem' = [j \in Inum |-> mem'[j]]
      /\ \A j \in Inum : IsNode(mem'[j])
      /\ valid'[i] /\ mem'[i] = disk[i]
      /\ \A j \in Inum \ {i} : valid'[j] = valid[j] /\ mem'[j] = mem[j]
  BY <1>1, <1>3, LoadsOne
<1>5. disk' = [j \in Inum |-> disk'[j]] /\ \A j \in Inum : IsNode(disk'[j]) /\ disk'[j] = disk[j]
  BY <1>3 DEF TypesOK
<1> QED
  BY <1>1, <1>2, <1>4, <1>5 DEF CopiesMove

\* iupdate() of one inode, that p has in hand.
LEMMA CopyUpdates ==
  ASSUME InodesAssumption, IInv, NEW p \in Process, sys[p].put = "no", NEW i \in Inum, NEW n,
         i \in {cwd[p], file[p], sys[p].dp, sys[p].ip},
         ilock[i] = Nobody \/ ilock[i] = p, ~Untyped(i), Iupdate(Only(i, n)),
         IsNode(n), n.type # "none"
  PROVE  CopiesMove({i}) /\ valid'[i]
<1>1. ~Freed(i)
  BY Sees
<1>2. ref[i] > 0
  BY InHand
<1>3. TypesOK
  BY DEF IInv
<1>4. /\ valid' \in [Inum -> BOOLEAN]
      /\ mem' = [j \in Inum |-> mem'[j]] /\ disk' = [j \in Inum |-> disk'[j]]
      /\ \A j \in Inum : IsNode(mem'[j]) /\ IsNode(disk'[j])
      /\ valid'[i] /\ mem'[i] = n /\ disk'[i] = n
      /\ \A j \in Inum \ {i} : valid'[j] = valid[j] /\ mem'[j] = mem[j] /\ disk'[j] = disk[j]
  BY <1>3, UpdatesOne
<1> QED
  BY <1>1, <1>2, <1>4 DEF CopiesMove

\* The locks are as they were, p has none, and it goes where it has none.
LEMMA LocksStay ==
  ASSUME TypesOK, NEW p \in Process, UNCHANGED ilock, \A i \in Inum : ilock[i] # p,
         sys'[p].pc \notin DirPc \cup NodePc
  PROVE  LocksMove(p)
BY DEF TypesOK, LocksMove

\* A call goes on, and takes a pointer to n if that is not 0.
LEMMA GoStep ==
  ASSUME InodesAssumption, IInv, NEW p \in Process, NEW l, AtPc(p, l),
         NEW D \in SUBSET Inum,
         CallMoves(p), FilesMove(p), EntriesMove, CopiesMove(D), LocksMove(p),
         NEW n \in InumOrNone, IF n = 0 THEN UNCHANGED ref ELSE Iget(n),
         \A j \in Inum : Is(cwd'[p], j) + Is(file'[p], j)
                         + Is(sys'[p].dp, j) + Is(sys'[p].ip, j)
                         + Is(Put1(sys'[p].puts), j) + Is(Put2(sys'[p].puts), j)
                         = Is(cwd[p], j) + Is(file[p], j) + Is(sys[p].dp, j) + Is(sys[p].ip, j) + Is(n, j)
  PROVE  IInv'
<1>1. TypesOK
  BY DEF IInv
<1>3. sys[p].put = "no" /\ Put1(sys[p].puts) = 0 /\ Put2(sys[p].puts) = 0
  BY AtFacts
<1>4. ASSUME NEW j \in Inum PROVE Tally(Pointers(p)', j) = Tally(Pointers(p), j) + Is(n, j)
  <2> DEFINE a == Tally(Pointers(p)', j)
             b == Tally(Pointers(p), j)
             x == Is(cwd[p], j)
             y == Is(file[p], j)
             z == Is(sys[p].dp, j)
             v == Is(sys[p].ip, j)
             o == Is(0, j)
             w == Is(n, j)
  <2>1. a = Is(cwd'[p], j) + Is(file'[p], j)
            + Is(sys'[p].dp, j) + Is(sys'[p].ip, j)
            + Is(Put1(sys'[p].puts), j) + Is(Put2(sys'[p].puts), j)
    BY TallyIs
  <2>2. a = x + y + z + v + w
    BY <2>1
  <2>3. b = x + y + z + v + o + o
    BY <1>3, TallyIs
  <2>4. o = 0 /\ x \in Int /\ y \in Int /\ z \in Int /\ v \in Int /\ w \in Int
    BY IsFacts
  <2> HIDE DEF a, b, x, y, z, v, o, w
  <2>5. a = b + w
    BY <2>2, <2>3, <2>4
  <2> QED
    BY <2>5 DEF a, b, w
<1>5. RefsMove(p)
  <2>1. CASE n = 0
    <3>1. \A j \in Inum : Tally(Pointers(p), j) \in Nat
      BY MineCounted
    <3>2. \A j \in Inum : Tally(Pointers(p)', j) = Tally(Pointers(p), j)
      BY <1>4, <2>1, <3>1, IsFacts
    <3> QED
      BY <1>1, <2>1, <3>2, RefsStay
  <2>2. CASE n # 0
    <3>1. n \in Inum /\ Iget(n)
      BY <2>2 DEF InumOrNone
    <3> QED
      BY <1>1, <1>4, <3>1, RefsGrow
  <2> QED
    BY <2>1, <2>2
<1> QED
  BY <1>3, <1>5, CallStep

LEMMA IdleIs ==
  ASSUME NEW q \in Puts
  PROVE  LET c == [Idle EXCEPT !.puts = q] IN
         /\ c \in CallType /\ Consistent(c) /\ c.put = "no" /\ c.pc = "idle"
         /\ c.dp = 0 /\ c.ip = 0 /\ c.puts = q
<1> DEFINE c == [Idle EXCEPT !.puts = q]
<1>1. c = [pc |-> "idle", call |-> "none", path |-> <<>>, new |-> <<>>, name |-> "none",
           dp |-> 0, ip |-> 0, puts |-> q, put |-> "no"]
  BY DEF Idle
<1>2. <<>> \in Seq(Elem) /\ <<>> \in Seq(Elem \cup {"/"})
  OBVIOUS
<1>3. c \in CallType
  BY <1>1, <1>2 DEF CallType, InumOrNone, PutPc, OtherPc
<1>4. Consistent(c)
  BY <1>1 DEF Consistent, WalkPc, DirPc, NodePc
<1> QED
  BY <1>1, <1>3, <1>4

\* A call is over, but for the inodes q that it has to put.
LEMMA DoneStep ==
  ASSUME InodesAssumption, IInv, NEW p \in Process, NEW l, AtPc(p, l), NEW q \in Puts, Done(p, q),
         NEW D \in SUBSET Inum, FilesMove(p), EntriesMove, CopiesMove(D), UNCHANGED ref,
         ilock' \in [Inum -> Process \cup {Nobody}],
         \A j \in Inum : ilock'[j] # ilock[j] => ilock[j] \in {Nobody, p} /\ ilock'[j] \in {Nobody, p},
         \A j \in Inum : ilock'[j] = p => j = Put2(q),
         \A j \in Inum : Is(cwd'[p], j) + Is(file'[p], j) + Is(Put1(q), j) + Is(Put2(q), j)
                         = Is(cwd[p], j) + Is(file[p], j) + Is(sys[p].dp, j) + Is(sys[p].ip, j)
  PROVE  IInv'
<1> DEFINE c == [Idle EXCEPT !.puts = q]
<1>1. /\ c \in CallType /\ Consistent(c) /\ c.put = "no" /\ c.pc = "idle"
      /\ c.dp = 0 /\ c.ip = 0 /\ c.puts = q
  BY IdleIs
<1>2. sys' = [sys EXCEPT ![p] = c]
  BY DEF Done
<1> HIDE DEF c
<1>3. sys'[p] = c /\ CallMoves(p)
  BY <1>1, <1>2 DEF CallMoves, IInv, TypesOK
<1>4. LocksMove(p)
  BY <1>1, <1>3 DEF LocksMove, MayHold, DirPc, NodePc
<1>5. ASSUME NEW j \in Inum
      PROVE  Is(cwd'[p], j) + Is(file'[p], j)
             + Is(sys'[p].dp, j) + Is(sys'[p].ip, j)
             + Is(Put1(sys'[p].puts), j) + Is(Put2(sys'[p].puts), j)
             = Is(cwd[p], j) + Is(file[p], j) + Is(sys[p].dp, j) + Is(sys[p].ip, j) + Is(0, j)
  <2> DEFINE x == Is(cwd'[p], j)
             y == Is(file'[p], j)
             z == Is(Put1(q), j)
             v == Is(Put2(q), j)
             o == Is(0, j)
             r == Is(cwd[p], j) + Is(file[p], j) + Is(sys[p].dp, j) + Is(sys[p].ip, j)
  <2>1. o = 0 /\ x \in Int /\ y \in Int /\ z \in Int /\ v \in Int /\ x + y + z + v = r
    BY IsFacts
  <2>2. /\ Is(sys'[p].dp, j) = o /\ Is(sys'[p].ip, j) = o
        /\ Is(Put1(sys'[p].puts), j) = z /\ Is(Put2(sys'[p].puts), j) = v
    BY <1>1, <1>3
  <2> HIDE DEF x, y, z, v, o, r
  <2>3. x + y + o + o + z + v = r + o
    BY <2>1
  <2> QED
    BY <2>2, <2>3 DEF x, y, z, v, o, r
<1>6. 0 \in InumOrNone
  BY DEF InumOrNone
<1> QED
  BY <1>3, <1>4, <1>5, <1>6, GoStep

\* The call is over, its files and the locks are as they were, and it has to put the
\* inodes it had in hand.
LEMMA DoneKeeps ==
  ASSUME InodesAssumption, IInv, NEW p \in Process, NEW l, AtPc(p, l), NEW q \in Puts, Done(p, q),
         NEW D \in SUBSET Inum, EntriesMove, CopiesMove(D), UNCHANGED <<ref, ilock, cwd, file>>,
         \/ Put1(q) = sys[p].dp /\ Put2(q) = sys[p].ip
         \/ Put1(q) = sys[p].ip /\ Put2(q) = sys[p].dp,
         \A j \in Inum : ilock[j] = p => j = Put2(q)
  PROVE  IInv'
<1>1. TypesOK /\ FilesMove(p) /\ ilock' \in [Inum -> Process \cup {Nobody}]
  BY FilesStay DEF IInv, TypesOK
<1>2. \A j \in Inum : ilock'[j] = ilock[j] /\ (ilock'[j] = p => j = Put2(q))
  OBVIOUS
<1>3. \A j \in Inum : Is(cwd'[p], j) + Is(file'[p], j) + Is(Put1(q), j) + Is(Put2(q), j)
                      = Is(cwd[p], j) + Is(file[p], j) + Is(sys[p].dp, j) + Is(sys[p].ip, j)
  BY IsFacts
<1> QED
  BY <1>1, <1>2, <1>3, DoneStep

\* Where p is in the middle of a call, it has the directory locked, or the inode.
LEMMA HoldsDir ==
  ASSUME InodesAssumption, IInv, NEW p \in Process, NEW l \in DirPc, AtPc(p, l)
  PROVE  /\ ilock[sys[p].dp] = p /\ valid[sys[p].dp]
         /\ \A j \in Inum : ilock[j] = p => j = sys[p].dp
<1>1. sys[p].pc = l /\ sys[p].put = "no" /\ Put2(sys[p].puts) = 0
  BY AtFacts
<1>2. ilock[sys[p].dp] = p /\ valid[sys[p].dp]
  BY <1>1 DEF IInv, LocksOK, Holds
<1>3. ASSUME NEW j \in Inum, ilock[j] = p PROVE j = sys[p].dp
  <2>1. j \in MayHold(p)
    BY <1>3, InumFacts DEF IInv, LocksOK
  <2> QED
    BY <1>1, <2>1, InumFacts DEF MayHold, DirPc, NodePc
<1> QED
  BY <1>2, <1>3

LEMMA HoldsNode ==
  ASSUME InodesAssumption, IInv, NEW p \in Process, NEW l \in NodePc, AtPc(p, l)
  PROVE  /\ ilock[sys[p].ip] = p /\ valid[sys[p].ip]
         /\ \A j \in Inum : ilock[j] = p => j = sys[p].ip
<1>1. sys[p].pc = l /\ sys[p].put = "no" /\ Put2(sys[p].puts) = 0
  BY AtFacts
<1>2. ilock[sys[p].ip] = p /\ valid[sys[p].ip]
  BY <1>1 DEF IInv, LocksOK, Holds
<1>3. ASSUME NEW j \in Inum, ilock[j] = p PROVE j = sys[p].ip
  <2>1. j \in MayHold(p)
    BY <1>3, InumFacts DEF IInv, LocksOK
  <2> QED
    BY <1>1, <2>1, InumFacts DEF MayHold, DirPc, NodePc
<1> QED
  BY <1>2, <1>3

LEMMA ChdirStep ==
  ASSUME InodesAssumption, IInv, NEW p \in Process, Chdir(p)
  PROVE  IInv'
<1> DEFINE i == sys[p].dp
<1>1. /\ AtPc(p, "walk") /\ sys[p].call = "chdir" /\ ilock[i] = Nobody /\ ~Untyped(i) /\ Fetched(i)
      /\ UNCHANGED <<fs, ref, ilock, file>>
  BY DEF Chdir, Found, Ilock
<1>2. /\ i \in Inum /\ sys[p].ip = 0 /\ cwd[p] \in Inum /\ sys[p].put = "no"
      /\ \A j \in Inum : ilock[j] # p
  BY <1>1, AtFacts DEF WalkPc, DirPc, NodePc
<1>3. TypesOK
  BY DEF IInv
<1>4. CopiesMove({i}) /\ EntriesMove /\ ilock' \in [Inum -> Process \cup {Nobody}]
  BY <1>1, <1>2, <1>3, CopyLoads, EntriesStay DEF fs, TypesOK
<1>5. CASE cwd' = [cwd EXCEPT ![p] = i] /\ Done(p, <<cwd[p]>>)
  <2>1. FilesMove(p) /\ cwd'[p] = i /\ file'[p] = file[p]
    BY <1>1, <1>2, <1>3, <1>5 DEF FilesMove, TypesOK
  <2>2. <<cwd[p]>> \in Puts /\ Put1(<<cwd[p]>>) = cwd[p] /\ Put2(<<cwd[p]>>) = 0
    BY <1>2, NewPuts
  <2>3. \A j \in Inum : Is(cwd'[p], j) + Is(file'[p], j) + Is(Put1(<<cwd[p]>>), j) + Is(Put2(<<cwd[p]>>), j)
                         = Is(cwd[p], j) + Is(file[p], j) + Is(sys[p].dp, j) + Is(sys[p].ip, j)
    BY <1>2, <2>1, <2>2, IsFacts
  <2> QED
    BY <1>1, <1>2, <1>4, <1>5, <2>1, <2>2, <2>3, DoneStep
<1>6. CASE UNCHANGED cwd /\ Done(p, <<i>>)
  <2>1. <<i>> \in Puts /\ Put1(<<i>>) = i /\ Put2(<<i>>) = 0
    BY <1>2, NewPuts
  <2> QED
    BY <1>1, <1>2, <1>4, <1>6, <2>1, DoneKeeps
<1> QED
  BY <1>5, <1>6 DEF Chdir

LEMMA CloseStep ==
  ASSUME InodesAssumption, IInv, NEW p \in Process, Close(p)
  PROVE  IInv'
<1> DEFINE i == file[p]
<1>1. /\ AtPc(p, "idle") /\ i # 0 /\ file' = [file EXCEPT ![p] = 0] /\ Done(p, <<i>>)
      /\ UNCHANGED <<disk, ent, ref, valid, mem, ilock, cwd>>
  BY DEF Close, fs, itable
<1>2. /\ i \in Inum /\ sys[p].dp = 0 /\ sys[p].ip = 0 /\ \A j \in Inum : ilock[j] # p
  BY <1>1, AtFacts DEF WalkPc, DirPc, NodePc, InumOrNone
<1>3. TypesOK /\ 0 \in InumOrNone
  BY DEF IInv, InumOrNone
<1>4. CopiesMove({}) /\ EntriesMove /\ ilock' \in [Inum -> Process \cup {Nobody}]
  BY <1>1, <1>3, CopiesStay, EntriesStay DEF TypesOK
<1>5. FilesMove(p) /\ file'[p] = 0
  BY <1>1, <1>3, FileOpens
<1>6. <<i>> \in Puts /\ Put1(<<i>>) = i /\ Put2(<<i>>) = 0
  BY <1>2, NewPuts
<1>7. \A j \in Inum : Is(cwd'[p], j) + Is(file'[p], j) + Is(Put1(<<i>>), j) + Is(Put2(<<i>>), j)
                      = Is(cwd[p], j) + Is(file[p], j) + Is(sys[p].dp, j) + Is(sys[p].ip, j)
  BY <1>1, <1>2, <1>5, <1>6, IsFacts
<1> QED
  BY <1>1, <1>2, <1>4, <1>5, <1>6, <1>7, DoneStep

\* Open files take the pointer that the call had in hand.
LEMMA OpensWith ==
  ASSUME InodesAssumption, IInv, NEW p \in Process, NEW l, AtPc(p, l), NEW i \in Inum, file[p] = 0,
         file' = [file EXCEPT ![p] = i], Done(p, <<>>), UNCHANGED <<cwd, ref, ent>>,
         NEW D \in SUBSET Inum, CopiesMove(D),
         (sys[p].dp = i /\ sys[p].ip = 0) \/ (sys[p].dp = 0 /\ sys[p].ip = i),
         ilock' \in [Inum -> Process \cup {Nobody}],
         \A j \in Inum : ilock'[j] # ilock[j] => ilock[j] \in {Nobody, p} /\ ilock'[j] \in {Nobody, p},
         \A j \in Inum : ilock'[j] # p
  PROVE  IInv'
<1>1. TypesOK /\ i \in InumOrNone
  BY DEF IInv, InumOrNone
<1>2. EntriesMove /\ FilesMove(p) /\ file'[p] = i
  BY <1>1, EntriesStay, FileOpens
<1>3. <<>> \in Puts /\ Put1(<<>>) = 0 /\ Put2(<<>>) = 0
  BY NewPuts
<1>4. \A j \in Inum : Is(cwd'[p], j) + Is(file'[p], j) + Is(Put1(<<>>), j) + Is(Put2(<<>>), j)
                      = Is(cwd[p], j) + Is(file[p], j) + Is(sys[p].dp, j) + Is(sys[p].ip, j)
  BY <1>2, <1>3, IsFacts
<1> QED
  BY <1>2, <1>3, <1>4, DoneStep

LEMMA OpenStep ==
  ASSUME InodesAssumption, IInv, NEW p \in Process, Open(p)
  PROVE  IInv'
<1> DEFINE i == sys[p].dp
<1>1. /\ AtPc(p, "walk") /\ sys[p].call = "open" /\ ilock[i] = Nobody /\ ~Untyped(i)
      /\ UNCHANGED <<ent, ref, ilock, cwd>>
  BY DEF Open, Found, Ilock
<1>2. /\ i \in Inum /\ sys[p].ip = 0 /\ cwd[p] \in Inum /\ sys[p].put = "no"
      /\ \A j \in Inum : ilock[j] # p
  BY <1>1, AtFacts DEF WalkPc, DirPc, NodePc
<1>3. TypesOK /\ EntriesMove /\ ilock' \in [Inum -> Process \cup {Nobody}]
  BY <1>1, EntriesStay DEF IInv, TypesOK
<1>4. CASE file[p] = 0 /\ Fetched(i) /\ UNCHANGED disk /\ file' = [file EXCEPT ![p] = i] /\ Done(p, <<>>)
  <2>1. CopiesMove({i})
    BY <1>1, <1>2, <1>4, CopyLoads
  <2> QED
    BY <1>1, <1>2, <1>3, <1>4, <2>1, OpensWith
<1>5. CASE /\ file[p] = 0 /\ Inode(i).type = "file" /\ Itrunc(i, Inode(i))
           /\ file' = [file EXCEPT ![p] = i] /\ Done(p, <<>>)
  <2> DEFINE n == [Inode(i) EXCEPT !.addrs = {}]
  <2>1. IsNode(Inode(i))
    BY <1>1, <1>2, Sees
  <2>2. IsNode(n) /\ n.type # "none"
    BY <1>5, <2>1, NodeChanges
  <2>3. Iupdate(Only(i, n))
    BY <1>5 DEF Itrunc
  <2> HIDE DEF n
  <2>4. CopiesMove({i})
    BY <1>1, <1>2, <2>2, <2>3, CopyUpdates
  <2> QED
    BY <1>1, <1>2, <1>3, <1>5, <2>4, OpensWith
<1>6. CASE Fetched(i) /\ UNCHANGED <<disk, file>> /\ Done(p, <<i>>)
  <2>1. CopiesMove({i})
    BY <1>1, <1>2, <1>6, CopyLoads
  <2>2. <<i>> \in Puts /\ Put1(<<i>>) = i /\ Put2(<<i>>) = 0
    BY <1>2, NewPuts
  <2> QED
    BY <1>1, <1>2, <1>3, <1>6, <2>1, <2>2, DoneKeeps
<1> QED
  BY <1>4, <1>5, <1>6 DEF Open

\* The call goes on as c.
LEMMA MovesTo ==
  ASSUME TypesOK, NEW p \in Process, NEW c \in CallType, Consistent(c), c.put = "no",
         sys' = [sys EXCEPT ![p] = c]
  PROVE  CallMoves(p) /\ sys'[p] = c
BY DEF CallMoves, TypesOK

LEMMA GoKeeps ==
  ASSUME InodesAssumption, IInv, NEW p \in Process, NEW l, AtPc(p, l),
         NEW c \in CallType, Consistent(c), c.put = "no", sys' = [sys EXCEPT ![p] = c],
         NEW D \in SUBSET Inum, EntriesMove, CopiesMove(D), LocksMove(p), UNCHANGED <<cwd, file>>,
         NEW n \in InumOrNone, IF n = 0 THEN UNCHANGED ref ELSE Iget(n),
         \A j \in Inum : Is(c.dp, j) + Is(c.ip, j) + Is(Put1(c.puts), j) + Is(Put2(c.puts), j)
                         = Is(sys[p].dp, j) + Is(sys[p].ip, j) + Is(n, j)
  PROVE  IInv'
<1>1. TypesOK
  BY DEF IInv
<1>2. CallMoves(p) /\ sys'[p] = c /\ FilesMove(p)
  BY <1>1, MovesTo, FilesStay
<1>4. ASSUME NEW j \in Inum
      PROVE  Is(cwd'[p], j) + Is(file'[p], j) + Is(sys'[p].dp, j) + Is(sys'[p].ip, j)
             + Is(Put1(sys'[p].puts), j) + Is(Put2(sys'[p].puts), j)
             = Is(cwd[p], j) + Is(file[p], j) + Is(sys[p].dp, j) + Is(sys[p].ip, j) + Is(n, j)
  <2> DEFINE x == Is(cwd[p], j)
             y == Is(file[p], j)
             a == Is(c.dp, j)
             b == Is(c.ip, j)
             z == Is(Put1(c.puts), j)
             v == Is(Put2(c.puts), j)
             e == Is(sys[p].dp, j)
             g == Is(sys[p].ip, j)
             w == Is(n, j)
  <2>1. /\ x \in Int /\ y \in Int /\ a \in Int /\ b \in Int /\ z \in Int /\ v \in Int
        /\ e \in Int /\ g \in Int /\ w \in Int /\ a + b + z + v = e + g + w
    BY IsFacts
  <2>2. /\ Is(cwd'[p], j) = x /\ Is(file'[p], j) = y /\ Is(sys'[p].dp, j) = a /\ Is(sys'[p].ip, j) = b
        /\ Is(Put1(sys'[p].puts), j) = z /\ Is(Put2(sys'[p].puts), j) = v
    BY <1>2
  <2> HIDE DEF x, y, a, b, z, v, e, g, w
  <2>3. x + y + a + b + z + v = x + y + e + g + w
    BY <2>1
  <2> QED
    BY <2>2, <2>3 DEF x, y, a, b, z, v, e, g, w
<1> QED
  BY <1>2, <1>4, GoStep

\* The same, with no inode locked before and after.
LEMMA GoFree ==
  ASSUME InodesAssumption, IInv, NEW p \in Process, NEW l, AtPc(p, l), l \notin DirPc \cup NodePc,
         NEW c \in CallType, Consistent(c), c.put = "no", c.pc \notin DirPc \cup NodePc,
         sys' = [sys EXCEPT ![p] = c],
         NEW D \in SUBSET Inum, EntriesMove, CopiesMove(D), UNCHANGED <<ilock, cwd, file>>,
         NEW n \in InumOrNone, IF n = 0 THEN UNCHANGED ref ELSE Iget(n),
         \A j \in Inum : Is(c.dp, j) + Is(c.ip, j) + Is(Put1(c.puts), j) + Is(Put2(c.puts), j)
                         = Is(sys[p].dp, j) + Is(sys[p].ip, j) + Is(n, j)
  PROVE  IInv'
<1>1. TypesOK
  BY DEF IInv
<1>2. sys'[p] = c
  BY <1>1, MovesTo
<1>3. LocksMove(p)
  BY <1>1, <1>2, AtFacts, LocksStay
<1> QED
  BY <1>3, GoKeeps

\* acquiresleep() of i; the same when d is released.
LEMMA LocksOne ==
  ASSUME InodesAssumption, TypesOK, NEW p \in Process, NEW i \in Inum, ilock[i] = Nobody, Hold(p, i)
  PROVE  /\ ilock' \in [Inum -> Process \cup {Nobody}] /\ ilock'[i] = p
         /\ \A j \in Inum : ilock'[j] # ilock[j] => ilock[j] \in {Nobody, p} /\ ilock'[j] \in {Nobody, p}
         /\ \A j \in Inum : ilock'[j] = p => j = i \/ ilock[j] = p
BY DEF TypesOK, Hold

LEMMA LocksPass ==
  ASSUME InodesAssumption, TypesOK, NEW p \in Process, NEW d \in Inum, NEW i \in Inum,
         ilock[d] = p, ilock[i] = Nobody, \A j \in Inum : ilock[j] = p => j = d, Pass(p, d, i)
  PROVE  /\ ilock' \in [Inum -> Process \cup {Nobody}] /\ ilock'[i] = p /\ i # d
         /\ \A j \in Inum : ilock'[j] # ilock[j] => ilock[j] \in {Nobody, p} /\ ilock'[j] \in {Nobody, p}
         /\ \A j \in Inum : ilock'[j] = p => j = i
<1>1. i # d /\ p # Nobody
  BY InumFacts
<1>2. ilock' = [[ilock EXCEPT ![d] = Nobody] EXCEPT ![i] = p]
  BY DEF Pass
<1>3. /\ ilock' \in [Inum -> Process \cup {Nobody}] /\ ilock'[i] = p /\ ilock'[d] = Nobody
      /\ \A j \in Inum \ {d, i} : ilock'[j] = ilock[j]
  BY <1>1, <1>2 DEF TypesOK
<1> QED
  BY <1>1, <1>3

\* What an element of a path leads to.
LEMMA LookupIs ==
  ASSUME InodesAssumption, TypesOK, NEW d \in Inum, NEW n \in Elem
  PROVE  Lookup(d, n) \in InumOrNone
BY DEF Lookup, TypesOK, Elem, InumOrNone

LEMMA PathStep ==
  ASSUME NEW s \in Seq(Elem), s # <<>>
  PROVE  Head(s) \in Elem /\ Tail(s) \in Seq(Elem)
OBVIOUS

LEMMA WalkOnStep ==
  ASSUME InodesAssumption, IInv, NEW p \in Process, WalkOn(p)
  PROVE  IInv'
<1> DEFINE d == sys[p].dp
           next == Lookup(d, Head(sys[p].path))
<1>1. /\ AtPc(p, "walk") /\ sys[p].path # <<>> /\ ilock[d] = Nobody /\ ~Untyped(d) /\ Fetched(d)
      /\ next # 0 /\ Iget(next) /\ UNCHANGED <<disk, ent, ilock, cwd, file>>
      /\ sys' = [sys EXCEPT ![p].dp = next, ![p].path = Tail(@), ![p].puts = <<d>>]
  BY DEF WalkOn, WalkEnds, Ilock, fs
<1>2. /\ sys[p] \in CallType /\ Consistent(sys[p]) /\ sys[p].pc = "walk" /\ sys[p].put = "no"
      /\ d \in Inum /\ \A j \in Inum : ilock[j] # p
  BY <1>1, AtFacts DEF WalkPc, DirPc, NodePc
<1>3. TypesOK
  BY DEF IInv
<1>4. next \in Inum /\ Tail(sys[p].path) \in Seq(Elem)
  BY <1>1, <1>2, <1>3, PathStep, LookupIs DEF CallType, InumOrNone
<1>5. <<d>> \in Puts /\ Put1(<<d>>) = d /\ Put2(<<d>>) = 0
  BY <1>2, NewPuts
<1> DEFINE c == [sys[p] EXCEPT !.dp = next, !.path = Tail(@), !.puts = <<d>>]
<1> HIDE DEF next
<1>6. c \in CallType
  BY <1>2, <1>4, <1>5 DEF CallType, InumOrNone
<1>7. /\ c.pc = sys[p].pc /\ c.call = sys[p].call /\ c.new = sys[p].new /\ c.name = sys[p].name
      /\ c.ip = sys[p].ip /\ c.dp = next /\ c.puts = <<d>> /\ c.put = sys[p].put
  BY <1>2 DEF CallType
<1>8. sys' = [sys EXCEPT ![p] = c]
  BY <1>1
<1> HIDE DEF c
<1>9. Consistent(c) /\ c.put = "no" /\ c.pc \notin DirPc \cup NodePc
  BY <1>2, <1>4, <1>5, <1>7, InumFacts DEF Consistent, DirPc, NodePc, WalkPc
<1>10. CopiesMove({d}) /\ EntriesMove /\ next \in InumOrNone /\ next # 0
  BY <1>1, <1>2, <1>3, <1>4, CopyLoads, EntriesStay, InumFacts DEF InumOrNone
<1>11. \A j \in Inum : Is(c.dp, j) + Is(c.ip, j) + Is(Put1(c.puts), j) + Is(Put2(c.puts), j)
                       = Is(sys[p].dp, j) + Is(sys[p].ip, j) + Is(next, j)
  BY <1>5, <1>7, IsFacts
<1>12. (IF next = 0 THEN UNCHANGED ref ELSE Iget(next)) /\ UNCHANGED <<ilock, cwd, file>> /\ AtPc(p, "walk")
  BY <1>1, <1>10 DEF next
<1>13. "walk" \notin DirPc \cup NodePc /\ {d} \in SUBSET Inum
  BY <1>2 DEF DirPc, NodePc
<1> QED
  BY <1>6, <1>8, <1>9, <1>10, <1>11, <1>12, <1>13, GoFree

LEMMA ElementsAre ==
  ASSUME NEW S, NEW T, NEW s \in Seq(S), \A k \in 1 .. Len(s) : s[k] \in T
  PROVE  s \in Seq(T)
<1>1. s \in [1 .. Len(s) -> T] /\ Len(s) \in Nat
  OBVIOUS
<1> QED
  BY <1>1

\* The walk begins at an inode in use, and goes through names, "." and "..".
LEMMA PathFacts ==
  ASSUME InodesAssumption, TypesOK, NEW p \in Process, NEW path \in Path
  PROVE  /\ path \in Seq(Elem \cup {"/"}) /\ Rest(path) \in Seq(Elem) /\ StartOf(p, path) \in Inum
<1>1. /\ path \in Seq(Name \cup {"/", ".", ".."}) /\ path # <<>>
      /\ \A k \in 2 .. Len(path) : path[k] # "/"
  BY DEF InodesAssumption
<1>2. Name \cup {"/", ".", ".."} = Elem \cup {"/"}
  BY DEF Elem
<1>3. path \in Seq(Elem \cup {"/"})
  BY <1>1, <1>2
<1>4. StartOf(p, path) \in Inum
  BY InumFacts DEF StartOf, TypesOK
<1>5. Head(path) = path[1] /\ Len(path) \in Nat /\ Len(path) >= 1
  BY <1>1
<1>6. CASE Head(path) = "/"
  <2>1. Tail(path) \in Seq(Elem \cup {"/"}) /\ Len(Tail(path)) = Len(path) - 1
    BY <1>1, <1>3
  <2>2. ASSUME NEW k \in 1 .. Len(Tail(path)) PROVE Tail(path)[k] \in Elem
    <3>1. Tail(path)[k] = path[k + 1] /\ k + 1 \in 2 .. Len(path)
      BY <1>1, <1>5, <2>1
    <3>2. Tail(path)[k] \in Elem \cup {"/"}
      BY <2>1
    <3> QED
      BY <1>1, <3>1, <3>2
  <2>3. Tail(path) \in Seq(Elem)
    BY <2>1, <2>2, ElementsAre
  <2> QED
    BY <1>3, <1>4, <1>6, <2>3 DEF Rest
<1>7. CASE Head(path) # "/"
  <2>1. ASSUME NEW k \in 1 .. Len(path) PROVE path[k] \in Elem
    <3>1. path[k] \in Elem \cup {"/"}
      BY <1>3
    <3>2. path[k] # "/"
      BY <1>1, <1>5, <1>7
    <3> QED
      BY <3>1, <3>2
  <2>2. path \in Seq(Elem)
    BY <1>3, <2>1, ElementsAre
  <2> QED
    BY <1>3, <1>4, <1>7, <2>2 DEF Rest
<1> QED
  BY <1>6, <1>7

LEMMA BeginStep ==
  ASSUME InodesAssumption, IInv, NEW p \in Process, NEW k \in Call, NEW path \in Path, NEW new \in Path,
         Begin(p, k, path, new)
  PROVE  IInv'
<1> DEFINE s == StartOf(p, path)
           r == Rest(path)
           m == IF k = "link" THEN new ELSE <<>>
           c == [Idle EXCEPT !.pc = "walk", !.call = k, !.path = r, !.new = m, !.dp = s]
<1>1. /\ AtPc(p, "idle") /\ Iget(s) /\ UNCHANGED <<disk, ent, valid, mem, ilock, cwd, file>>
      /\ sys' = [sys EXCEPT ![p] = c]
  BY DEF Begin, fs
<1>2. sys[p].dp = 0 /\ sys[p].ip = 0
  BY <1>1, AtFacts DEF WalkPc, DirPc, NodePc
<1>3. TypesOK
  BY DEF IInv
<1>4. s \in Inum /\ r \in Seq(Elem) /\ m \in Seq(Elem \cup {"/"}) /\ (k = "link" => m \in Path)
  <2>1. <<>> \in Seq(Elem \cup {"/"})
    OBVIOUS
  <2> QED
    BY <1>3, <2>1, PathFacts
<1> HIDE DEF s, r, m
<1>5. <<>> \in Puts /\ Put1(<<>>) = 0 /\ Put2(<<>>) = 0
  BY <1>4, NewPuts
<1>6. Idle \in CallType /\ Idle.ip = 0 /\ Idle.puts = <<>> /\ Idle.put = "no"
  <2>1. [Idle EXCEPT !.puts = <<>>] = Idle
    BY DEF Idle
  <2> QED
    BY <1>5, <2>1, IdleIs
<1>7. c \in CallType
  BY <1>4, <1>6 DEF CallType, WalkPc, InumOrNone
<1>8. /\ c.pc = "walk" /\ c.call = k /\ c.new = m /\ c.dp = s
      /\ c.ip = 0 /\ c.puts = <<>> /\ c.put = "no"
  BY <1>6 DEF CallType
<1> HIDE DEF c
<1>9. Consistent(c) /\ c.put = "no" /\ c.pc \notin DirPc \cup NodePc
  BY <1>4, <1>5, <1>8, InumFacts DEF Consistent, DirPc, NodePc, WalkPc
<1>10. CopiesMove({}) /\ EntriesMove /\ s \in InumOrNone
  BY <1>1, <1>3, <1>4, CopiesStay, EntriesStay DEF InumOrNone
<1>11. \A j \in Inum : Is(c.dp, j) + Is(c.ip, j) + Is(Put1(c.puts), j) + Is(Put2(c.puts), j)
                       = Is(sys[p].dp, j) + Is(sys[p].ip, j) + Is(s, j)
  BY <1>2, <1>5, <1>8, IsFacts
<1>12. (IF s = 0 THEN UNCHANGED ref ELSE Iget(s)) /\ UNCHANGED <<ilock, cwd, file>> /\ AtPc(p, "idle")
  BY <1>1, <1>4, InumFacts DEF s
<1>13. "idle" \notin DirPc \cup NodePc /\ {} \in SUBSET Inum
  BY DEF DirPc, NodePc
<1> QED
  BY <1>1, <1>7, <1>9, <1>10, <1>11, <1>12, <1>13, GoFree

LEMMA WalkParentStep ==
  ASSUME InodesAssumption, IInv, NEW p \in Process, WalkParent(p)
  PROVE  IInv'
<1> DEFINE d == sys[p].dp
           c == [sys[p] EXCEPT !.pc = "parent", !.path = <<>>, !.name = Head(sys[p].path)]
<1>1. /\ AtPc(p, "walk") /\ sys[p].path # <<>> /\ WantsParent(p) /\ ilock[d] = Nobody /\ ~Untyped(d) /\ Fetched(d)
      /\ UNCHANGED <<disk, ent, ref, ilock, cwd, file>> /\ sys' = [sys EXCEPT ![p] = c]
  <2>1. sys[p].path = <<>> => Len(sys[p].path) # 1
    OBVIOUS
  <2> QED
    BY <2>1 DEF WalkParent, LastElement, Ilock, fs
<1>2. /\ sys[p] \in CallType /\ Consistent(sys[p]) /\ sys[p].pc = "walk" /\ sys[p].put = "no"
      /\ sys[p].puts = <<>> /\ Put1(sys[p].puts) = 0 /\ Put2(sys[p].puts) = 0
      /\ d \in Inum /\ sys[p].ip \in InumOrNone
  BY <1>1, AtFacts DEF WalkPc
<1>3. TypesOK
  BY DEF IInv
<1>4. Head(sys[p].path) \in Elem /\ <<>> \in Seq(Elem)
  BY <1>1, <1>2, PathStep DEF CallType
<1>5. c \in CallType
  BY <1>2, <1>4 DEF CallType, WalkPc
<1>6. /\ c.pc = "parent" /\ c.call = sys[p].call /\ c.name = Head(sys[p].path)
      /\ c.ip = sys[p].ip /\ c.dp = d /\ c.puts = sys[p].puts /\ c.put = sys[p].put
  BY <1>2 DEF CallType
<1>7. sys[p].call = "link" => sys[p].ip # 0
  BY <1>1 DEF WantsParent
<1> HIDE DEF c
<1>8. Consistent(c) /\ c.put = "no" /\ c.pc \notin DirPc \cup NodePc
  BY <1>2, <1>4, <1>6, <1>7, InumFacts DEF Consistent, DirPc, NodePc, WalkPc
<1>9. CopiesMove({d}) /\ EntriesMove /\ 0 \in InumOrNone
  BY <1>1, <1>2, <1>3, CopyLoads, EntriesStay DEF InumOrNone
<1>10. \A j \in Inum : Is(c.dp, j) + Is(c.ip, j) + Is(Put1(c.puts), j) + Is(Put2(c.puts), j)
                       = Is(sys[p].dp, j) + Is(sys[p].ip, j) + Is(0, j)
  BY <1>2, <1>6, IsFacts
<1>11. "walk" \notin DirPc \cup NodePc /\ {d} \in SUBSET Inum
  BY <1>2 DEF DirPc, NodePc
<1> QED
  BY <1>1, <1>5, <1>8, <1>9, <1>10, <1>11, GoFree

LEMMA WalkFailsStep ==
  ASSUME InodesAssumption, IInv, NEW p \in Process, WalkFails(p)
  PROVE  IInv'
<1> DEFINE d == sys[p].dp
           c == [sys[p] EXCEPT !.pc = "bad", !.path = <<>>, !.dp = 0, !.puts = <<d>>]
<1>1. AtPc(p, "walk") /\ UNCHANGED <<disk, ent, ref, ilock, cwd, file>> /\ NotFound(p)
  BY DEF WalkFails, fs
<1>2. /\ sys[p] \in CallType /\ Consistent(sys[p]) /\ sys[p].pc = "walk" /\ sys[p].put = "no"
      /\ d \in Inum /\ sys[p].ip \in InumOrNone /\ \A j \in Inum : ilock[j] # p
  BY <1>1, AtFacts DEF WalkPc, DirPc, NodePc
<1>3. TypesOK
  BY DEF IInv
<1>4. EntriesMove /\ \E D \in SUBSET Inum : CopiesMove(D)
  <2>1. EntriesMove
    BY <1>1, <1>3, EntriesStay
  <2>2. CASE UNCHANGED <<valid, mem>>
    <3>1. CopiesMove({})
      BY <1>1, <1>3, <2>2, CopiesStay
    <3> QED
      BY <2>1, <3>1
  <2>3. CASE Ilock(d) /\ Fetched(d)
    <3>1. CopiesMove({d})
      BY <1>1, <1>2, <1>3, <2>3, CopyLoads DEF Ilock
    <3> QED
      BY <1>2, <2>1, <3>1
  <2> QED
    BY <2>2, <2>3 DEF WalkFails
<1>5. PICK D \in SUBSET Inum : CopiesMove(D)
  BY <1>4
<1>6. <<d>> \in Puts /\ <<d>> # <<>> /\ Put1(<<d>>) = d /\ Put2(<<d>>) = 0
  BY <1>2, NewPuts
<1>7. CASE sys[p].call = "link" /\ sys[p].ip # 0
  <2>1. sys' = [sys EXCEPT ![p] = c]
    BY <1>1, <1>7 DEF NotFound
  <2>2. c \in CallType
    <3>1. <<>> \in Seq(Elem)
      OBVIOUS
    <3> QED
      BY <1>2, <1>6, <3>1 DEF CallType, OtherPc, InumOrNone
  <2>3. /\ c.pc = "bad" /\ c.ip = sys[p].ip /\ c.dp = 0 /\ c.puts = <<d>> /\ c.put = sys[p].put
    BY <1>2 DEF CallType
  <2> HIDE DEF c
  <2>4. Consistent(c) /\ c.put = "no" /\ c.pc \notin DirPc \cup NodePc
    BY <1>2, <1>6, <1>7, <2>3 DEF Consistent, DirPc, NodePc, WalkPc
  <2>5. \A j \in Inum : Is(c.dp, j) + Is(c.ip, j) + Is(Put1(c.puts), j) + Is(Put2(c.puts), j)
                        = Is(sys[p].dp, j) + Is(sys[p].ip, j) + Is(0, j)
    BY <1>6, <2>3, IsFacts
  <2>6. "walk" \notin DirPc \cup NodePc /\ 0 \in InumOrNone
    BY DEF DirPc, NodePc, InumOrNone
  <2> QED
    BY <1>1, <1>4, <1>5, <2>1, <2>2, <2>4, <2>5, <2>6, GoFree
<1>8. CASE ~(sys[p].call = "link" /\ sys[p].ip # 0)
  <2>1. Done(p, <<d>>)
    BY <1>1, <1>8 DEF NotFound
  <2>2. sys[p].ip = 0
    BY <1>2, <1>8 DEF Consistent, WalkPc
  <2> QED
    BY <1>1, <1>2, <1>4, <1>5, <1>6, <2>1, <2>2, DoneKeeps
<1> QED
  BY <1>7, <1>8

\* An inode stays what it is when its links change.
LEMMA LinksNode ==
  ASSUME InodesAssumption, IInv, NEW p \in Process, NEW i \in Inum, NEW k,
         ilock[i] = Nobody \/ (ilock[i] = p /\ sys[p].put = "no"), ~Untyped(i)
  PROVE  IsNode(Links(i, k)) /\ Links(i, k).type # "none"
<1>1. IsNode(Inode(i)) /\ Inode(i).type # "none"
  BY Sees
<1> DEFINE n == Inode(i)
           m == n.nlink + k
<1>2. IsNode([n EXCEPT !.nlink = m]) /\ [n EXCEPT !.nlink = m].type = n.type
  BY <1>1, NodeChanges
<1>3. Links(i, k) = [n EXCEPT !.nlink = m]
  BY DEF Links
<1> QED
  BY <1>1, <1>2, <1>3

LEMMA LinkOldStep ==
  ASSUME InodesAssumption, IInv, NEW p \in Process, LinkOld(p)
  PROVE  IInv'
<1> DEFINE i == sys[p].dp
           s == StartOf(p, sys[p].new)
           r == Rest(sys[p].new)
           c == [sys[p] EXCEPT !.ip = i, !.dp = s, !.path = r, !.new = <<>>]
<1>1. /\ AtPc(p, "walk") /\ sys[p].call = "link" /\ ~WantsParent(p) /\ ilock[i] = Nobody /\ ~Untyped(i)
      /\ UNCHANGED <<ent, ilock, cwd, file>>
  BY DEF LinkOld, Found, Ilock
<1>2. /\ sys[p] \in CallType /\ Consistent(sys[p]) /\ sys[p].pc = "walk" /\ sys[p].put = "no"
      /\ sys[p].puts = <<>> /\ Put1(sys[p].puts) = 0 /\ Put2(sys[p].puts) = 0
      /\ i \in Inum /\ \A j \in Inum : ilock[j] # p
  BY <1>1, AtFacts DEF WalkPc, DirPc, NodePc
<1>3. sys[p].ip = 0 /\ sys[p].new \in Path
  BY <1>1, <1>2 DEF WantsParent, Consistent
<1>4. TypesOK
  BY DEF IInv
<1>5. EntriesMove
  BY <1>1, <1>4, EntriesStay
<1>6. CASE Fetched(i) /\ Done(p, <<i>>) /\ UNCHANGED <<disk, ref>>
  <2>1. CopiesMove({i})
    BY <1>1, <1>2, <1>4, <1>6, CopyLoads
  <2>2. <<i>> \in Puts /\ Put1(<<i>>) = i /\ Put2(<<i>>) = 0
    BY <1>2, NewPuts
  <2> QED
    BY <1>1, <1>2, <1>3, <1>5, <1>6, <2>1, <2>2, DoneKeeps
<1>7. CASE Iupdate(Only(i, Links(i, 1))) /\ Iget(s) /\ sys' = [sys EXCEPT ![p] = c]
  <2>1. CopiesMove({i})
    <3>1. IsNode(Links(i, 1)) /\ Links(i, 1).type # "none"
      BY <1>1, <1>2, LinksNode
    <3> QED
      BY <1>1, <1>2, <1>7, <3>1, CopyUpdates
  <2>2. s \in Inum /\ r \in Seq(Elem)
    BY <1>3, <1>4, PathFacts
  <2>3. (IF s = 0 THEN UNCHANGED ref ELSE Iget(s)) /\ sys' = [sys EXCEPT ![p] = c]
    BY <1>7, <2>2, InumFacts
  <2> HIDE DEF s, r
  <2>4. c \in CallType
    <3>1. <<>> \in Seq(Elem \cup {"/"})
      OBVIOUS
    <3> QED
      BY <1>2, <2>2, <3>1 DEF CallType, InumOrNone
  <2>5. /\ c.pc = "walk" /\ c.call = sys[p].call /\ c.dp = s /\ c.ip = i /\ c.puts = sys[p].puts
        /\ c.put = sys[p].put
    BY <1>2 DEF CallType
  <2> HIDE DEF c
  <2>6. Consistent(c) /\ c.put = "no" /\ c.pc \notin DirPc \cup NodePc
    BY <1>1, <1>2, <2>2, <2>5, InumFacts DEF Consistent, DirPc, NodePc, WalkPc
  <2>7. \A j \in Inum : Is(c.dp, j) + Is(c.ip, j) + Is(Put1(c.puts), j) + Is(Put2(c.puts), j)
                        = Is(sys[p].dp, j) + Is(sys[p].ip, j) + Is(s, j)
    BY <1>2, <1>3, <2>5, IsFacts
  <2>8. "walk" \notin DirPc \cup NodePc /\ {i} \in SUBSET Inum /\ s \in InumOrNone
    BY <1>2, <2>2 DEF DirPc, NodePc, InumOrNone
  <2> QED
    BY <1>1, <1>5, <2>1, <2>3, <2>4, <2>6, <2>7, <2>8, GoFree
<1> QED
  BY <1>6, <1>7 DEF LinkOld

LEMMA LinkBadStep ==
  ASSUME InodesAssumption, IInv, NEW p \in Process, LinkBad(p)
  PROVE  IInv'
<1> DEFINE i == sys[p].ip
<1>1. /\ AtPc(p, "bad") /\ ilock[i] = Nobody /\ ~Untyped(i) /\ Iupdate(Only(i, Links(i, -1))) /\ Done(p, <<i>>)
      /\ UNCHANGED <<ent, ref, ilock, cwd, file>>
  BY DEF LinkBad, Ilock
<1>2. sys[p].put = "no" /\ i \in Inum /\ sys[p].dp = 0 /\ \A j \in Inum : ilock[j] # p
  BY <1>1, AtFacts DEF WalkPc, DirPc, NodePc
<1>3. EntriesMove
  BY <1>1, EntriesStay DEF IInv
<1>4. IsNode(Links(i, -1)) /\ Links(i, -1).type # "none"
  BY <1>1, <1>2, LinksNode
<1>5. CopiesMove({i})
  BY <1>1, <1>2, <1>4, CopyUpdates
<1>6. <<i>> \in Puts /\ Put1(<<i>>) = i /\ Put2(<<i>>) = 0
  BY <1>2, NewPuts
<1> QED
  BY <1>1, <1>2, <1>3, <1>5, <1>6, DoneKeeps

\* A directory that grows stays one.
LEMMA GrownNode ==
  ASSUME InodesAssumption, IInv, NEW p \in Process, NEW d \in Inum, NEW b,
         ilock[d] = Nobody \/ (ilock[d] = p /\ sys[p].put = "no"), ~Untyped(d)
  PROVE  IsNode(Grown(d, b)) /\ Grown(d, b).type # "none"
<1>1. IsNode(Inode(d)) /\ Inode(d).type # "none"
  BY Sees
<1> DEFINE n == [Inode(d) EXCEPT !.addrs = @ \cup {b}]
<1>2. IsNode(n) /\ n.type # "none"
  BY <1>1, NodeChanges
<1> QED
  BY <1>1, <1>2 DEF Grown

LEMMA EntryMoves ==
  ASSUME InodesAssumption, TypesOK, NEW d \in Inum, NEW n, NEW i \in InumOrNone,
         ent' = [ent EXCEPT ![d][n] = i]
  PROVE  EntriesMove
BY DEF TypesOK, EntriesMove

LEMMA LinkNewStep ==
  ASSUME InodesAssumption, IInv, NEW p \in Process, LinkNew(p)
  PROVE  IInv'
<1> DEFINE d == sys[p].dp
           n == sys[p].name
           i == sys[p].ip
           old == Lookup(d, n)
<1>1. /\ AtPc(p, "parent") /\ sys[p].call = "link" /\ ilock[d] = Nobody /\ ~Untyped(d)
      /\ UNCHANGED <<cwd, file>>
  BY DEF LinkNew, Ilock
<1>2. /\ sys[p] \in CallType /\ Consistent(sys[p]) /\ sys[p].pc = "parent" /\ sys[p].put = "no"
      /\ sys[p].puts = <<>> /\ Put1(sys[p].puts) = 0 /\ Put2(sys[p].puts) = 0
      /\ d \in Inum /\ i \in Inum /\ n \in Elem /\ \A j \in Inum : ilock[j] # p
  BY <1>1, AtFacts DEF WalkPc, DirPc, NodePc
<1>3. TypesOK
  BY DEF IInv
<1>4. old \in InumOrNone
  BY <1>2, <1>3, LookupIs
<1> HIDE DEF old
<1>5. CASE /\ Dirlink(d, n, i) /\ Iupdate(Only(d, Grown(d, First(FreeBlocks))))
           /\ Done(p, <<d, i>>) /\ UNCHANGED <<ref, ilock>>
  <2>1. EntriesMove
    BY <1>2, <1>3, <1>5, EntryMoves DEF Dirlink, InumOrNone
  <2>2. CopiesMove({d})
    <3>1. IsNode(Grown(d, First(FreeBlocks))) /\ Grown(d, First(FreeBlocks)).type # "none"
      BY <1>1, <1>2, GrownNode
    <3> QED
      BY <1>1, <1>2, <1>5, <3>1, CopyUpdates
  <2>3. <<d, i>> \in Puts /\ Put1(<<d, i>>) = d /\ Put2(<<d, i>>) = i
    BY <1>2, NewPuts
  <2> QED
    BY <1>1, <1>2, <1>5, <2>1, <2>2, <2>3, DoneKeeps
<1> DEFINE q == IF old # 0 THEN <<old, d>> ELSE <<d>>
           c == [sys[p] EXCEPT !.pc = "bad", !.dp = 0, !.puts = q]
<1>6. CASE /\ Fetched(d) /\ UNCHANGED fs
           /\ IF old # 0 THEN Iget(old) /\ Hold(p, d) ELSE UNCHANGED <<ref, ilock>>
           /\ sys' = [sys EXCEPT ![p].pc = "bad", ![p].dp = 0, ![p].puts = q]
  <2>1. CopiesMove({d}) /\ EntriesMove
    BY <1>1, <1>2, <1>3, <1>6, CopyLoads, EntriesStay DEF fs
  <2>2. /\ q \in Puts /\ q # <<>>
        /\ old # 0 => Put1(q) = old /\ Put2(q) = d
        /\ old = 0 => Put1(q) = d /\ Put2(q) = 0
    <3>1. CASE old # 0
      BY <1>2, <1>4, <3>1, NewPuts DEF InumOrNone
    <3>2. CASE old = 0
      BY <1>2, <3>2, NewPuts
    <3> QED
      BY <3>1, <3>2
  <2> HIDE DEF q
  <2>3. sys' = [sys EXCEPT ![p] = c]
    BY <1>6
  <2>4. c \in CallType
    BY <1>2, <2>2 DEF CallType, OtherPc, InumOrNone
  <2>5. c.pc = "bad" /\ c.ip = i /\ c.dp = 0 /\ c.puts = q /\ c.put = sys[p].put
    BY <1>2 DEF CallType
  <2> HIDE DEF c
  <2>6. Consistent(c) /\ c.put = "no" /\ c.pc \notin DirPc \cup NodePc
    BY <1>2, <2>2, <2>5, InumFacts DEF Consistent, DirPc, NodePc, WalkPc
  <2>7. \A j \in Inum : Is(c.dp, j) + Is(c.ip, j) + Is(Put1(c.puts), j) + Is(Put2(c.puts), j)
                        = Is(sys[p].dp, j) + Is(sys[p].ip, j) + Is(old, j)
    <3>1. CASE old = 0
      BY <2>2, <2>5, <3>1, IsFacts
    <3>2. CASE old # 0
      BY <2>2, <2>5, <3>2, IsFacts
    <3> QED
      BY <3>1, <3>2
  <2>8. sys'[p] = c
    BY <1>3, <2>3, <2>4, <2>6, MovesTo
  <2>9. LocksMove(p)
    <3>1. CASE old = 0
      BY <1>2, <1>3, <1>6, <2>6, <2>8, <3>1, LocksStay
    <3>2. CASE old # 0
      <4>1. /\ ilock' \in [Inum -> Process \cup {Nobody}]
            /\ \A j \in Inum : ilock'[j] # ilock[j] => ilock[j] \in {Nobody, p} /\ ilock'[j] \in {Nobody, p}
            /\ \A j \in Inum : ilock'[j] = p => j = d
        BY <1>1, <1>2, <1>3, <1>6, <3>2, LocksOne
      <4>2. Put2(sys'[p].puts) = d
        BY <2>2, <2>5, <2>8, <3>2
      <4>3. \A j \in Inum : ilock'[j] = p => j \in MayHold(p)'
        BY <4>1, <4>2 DEF MayHold
      <4> QED
        BY <2>6, <2>8, <4>1, <4>3 DEF LocksMove
    <3> QED
      BY <3>1, <3>2
  <2>10. IF old = 0 THEN UNCHANGED ref ELSE Iget(old)
    BY <1>6
  <2> QED
    BY <1>1, <1>2, <1>4, <2>1, <2>3, <2>4, <2>6, <2>7, <2>9, <2>10, GoKeeps
<1> QED
  BY <1>5, <1>6 DEF LinkNew, old

LEMMA UnlinkStep ==
  ASSUME InodesAssumption, IInv, NEW p \in Process, Unlink(p)
  PROVE  IInv'
<1> DEFINE d == sys[p].dp
           i == Lookup(d, sys[p].name)
           c == [sys[p] EXCEPT !.pc = "child", !.ip = i]
<1>1. /\ AtPc(p, "parent") /\ sys[p].call = "unlink" /\ ilock[d] = Nobody /\ ~Untyped(d) /\ Fetched(d)
      /\ UNCHANGED <<disk, ent, cwd, file>>
  BY DEF Unlink, Ilock, fs
<1>2. /\ sys[p] \in CallType /\ Consistent(sys[p]) /\ sys[p].pc = "parent" /\ sys[p].put = "no"
      /\ sys[p].puts = <<>> /\ Put1(sys[p].puts) = 0 /\ Put2(sys[p].puts) = 0
      /\ d \in Inum /\ sys[p].ip = 0 /\ sys[p].name \in Elem /\ \A j \in Inum : ilock[j] # p
  BY <1>1, AtFacts DEF WalkPc, DirPc, NodePc
<1>3. TypesOK
  BY DEF IInv
<1>4. CopiesMove({d}) /\ valid'[d] /\ EntriesMove /\ i \in InumOrNone
  BY <1>1, <1>2, <1>3, CopyLoads, EntriesStay, LookupIs
<1>5. CASE Done(p, <<d>>) /\ UNCHANGED <<ref, ilock>>
  <2>1. <<d>> \in Puts /\ Put1(<<d>>) = d /\ Put2(<<d>>) = 0
    BY <1>2, NewPuts
  <2> QED
    BY <1>1, <1>2, <1>4, <1>5, <2>1, DoneKeeps
<1>6. CASE i # 0 /\ Iget(i) /\ Hold(p, d) /\ sys' = [sys EXCEPT ![p].pc = "child", ![p].ip = i]
  <2>1. (IF i = 0 THEN UNCHANGED ref ELSE Iget(i)) /\ i \in Inum /\ i # 0
    BY <1>4, <1>6 DEF InumOrNone
  <2>2. sys' = [sys EXCEPT ![p] = c]
    BY <1>6
  <2> HIDE DEF i
  <2>3. c \in CallType
    BY <1>2, <1>4 DEF CallType, DirPc
  <2>4. /\ c.pc = "child" /\ c.ip = i /\ c.dp = d /\ c.puts = sys[p].puts /\ c.put = sys[p].put
        /\ c.name = sys[p].name
    BY <1>2 DEF CallType
  <2> HIDE DEF c
  <2>5. Consistent(c) /\ c.put = "no" /\ c.pc \in DirPc /\ c.pc \notin NodePc
    BY <1>2, <2>1, <2>4, InumFacts DEF Consistent, DirPc, NodePc, WalkPc
  <2>6. \A j \in Inum : Is(c.dp, j) + Is(c.ip, j) + Is(Put1(c.puts), j) + Is(Put2(c.puts), j)
                        = Is(sys[p].dp, j) + Is(sys[p].ip, j) + Is(i, j)
    BY <1>2, <2>4, IsFacts
  <2>7. sys'[p] = c
    BY <1>3, <2>2, <2>3, <2>5, MovesTo
  <2>8. LocksMove(p)
    <3>1. /\ ilock' \in [Inum -> Process \cup {Nobody}] /\ ilock'[d] = p
          /\ \A j \in Inum : ilock'[j] # ilock[j] => ilock[j] \in {Nobody, p} /\ ilock'[j] \in {Nobody, p}
          /\ \A j \in Inum : ilock'[j] = p => j = d
      BY <1>1, <1>2, <1>3, <1>6, LocksOne
    <3>2. \A j \in Inum : ilock'[j] = p => j \in MayHold(p)'
      BY <2>4, <2>5, <2>7, <3>1 DEF MayHold
    <3> QED
      BY <1>4, <2>4, <2>5, <2>7, <3>1, <3>2 DEF LocksMove
  <2>9. {d} \in SUBSET Inum
    BY <1>2
  <2> QED
    BY <1>1, <1>4, <2>1, <2>2, <2>3, <2>5, <2>6, <2>8, <2>9, GoKeeps
<1> QED
  BY <1>5, <1>6 DEF Unlink

\* iupdate() of two inodes: the one that p has locked and the one it locks.
LEMMA CopiesUpdate ==
  ASSUME InodesAssumption, IInv, NEW p \in Process, NEW l \in DirPc, AtPc(p, l),
         ilock[sys[p].ip] = Nobody, ~Untyped(sys[p].ip),
         NEW f, DOMAIN f = {sys[p].dp, sys[p].ip}, Iupdate(f),
         \A j \in {sys[p].dp, sys[p].ip} : IsNode(f[j]) /\ f[j].type # "none"
  PROVE  CopiesMove({sys[p].dp, sys[p].ip}) /\ \A j \in {sys[p].dp, sys[p].ip} : valid'[j]
<1> DEFINE d == sys[p].dp
           i == sys[p].ip
<1>1. d \in Inum /\ i \in Inum /\ sys[p].put = "no" /\ ilock[d] = p /\ valid[d]
  BY AtFacts, HoldsDir
<1>2. ~Freed(d) /\ ~Freed(i)
  BY <1>1, Sees DEF Untyped
<1>3. ref[d] > 0 /\ ref[i] > 0
  BY <1>1, InHand
<1>4. TypesOK
  BY DEF IInv
<1>5. /\ valid' \in [Inum -> BOOLEAN]
      /\ mem' = [j \in Inum |-> mem'[j]] /\ disk' = [j \in Inum |-> disk'[j]]
      /\ \A j \in Inum : IsNode(mem'[j]) /\ IsNode(disk'[j])
      /\ \A j \in {d, i} : valid'[j] /\ mem'[j] = f[j] /\ disk'[j] = f[j]
      /\ \A j \in Inum \ {d, i} : valid'[j] = valid[j] /\ mem'[j] = mem[j] /\ disk'[j] = disk[j]
  <2>1. DOMAIN f = {d, i} /\ IsNode(f[d]) /\ IsNode(f[i]) /\ Iupdate(f)
    OBVIOUS
  <2> HIDE DEF d, i
  <2> QED
    BY <1>1, <1>4, <2>1, UpdatesTwo
<1> QED
  BY <1>1, <1>2, <1>3, <1>5 DEF CopiesMove

LEMMA UnlinkChildStep ==
  ASSUME InodesAssumption, IInv, NEW p \in Process, UnlinkChild(p)
  PROVE  IInv'
<1> DEFINE d == sys[p].dp
           i == sys[p].ip
           n == sys[p].name
           f == [j \in {d, i} |-> IF j = d /\ Inode(i).type = "dir" THEN Links(d, -1) ELSE Inode(j)]
           c == [sys[p] EXCEPT !.pc = "unlinked", !.dp = 0, !.puts = <<d>>]
<1>1. /\ AtPc(p, "child") /\ ilock[i] = Nobody /\ ~Untyped(i) /\ UNCHANGED <<ref, cwd, file>>
  BY DEF UnlinkChild, Ilock
<1>2. /\ sys[p] \in CallType /\ Consistent(sys[p]) /\ sys[p].pc = "child" /\ sys[p].put = "no"
      /\ d \in Inum /\ i \in Inum /\ "child" \in DirPc
  BY <1>1, AtFacts DEF DirPc
<1>3. ilock[d] = p /\ valid[d] /\ ~Untyped(d) /\ \A j \in Inum : ilock[j] = p => j = d
  BY <1>1, <1>2, HoldsDir DEF Untyped
<1>4. TypesOK
  BY DEF IInv
<1>5. CASE Fetched(i) /\ Done(p, <<i, d>>) /\ UNCHANGED <<disk, ent, ilock>>
  <2>1. CopiesMove({i}) /\ EntriesMove
    BY <1>1, <1>2, <1>4, <1>5, CopyLoads, EntriesStay
  <2>2. <<i, d>> \in Puts /\ Put1(<<i, d>>) = i /\ Put2(<<i, d>>) = d
    BY <1>2, NewPuts
  <2> QED
    BY <1>1, <1>2, <1>3, <1>5, <2>1, <2>2, DoneKeeps
<1>6. CASE /\ Pass(p, d, i) /\ ent' = [ent EXCEPT ![d][n] = 0] /\ Iupdate(f)
           /\ sys' = [sys EXCEPT ![p].pc = "unlinked", ![p].dp = 0, ![p].puts = <<d>>]
  <2>1. EntriesMove
    BY <1>2, <1>4, <1>6, EntryMoves DEF InumOrNone
  <2>2. /\ IsNode(Inode(d)) /\ Inode(d).type # "none" /\ IsNode(Links(d, -1)) /\ Links(d, -1).type # "none"
        /\ IsNode(Inode(i)) /\ Inode(i).type # "none"
    BY <1>1, <1>2, <1>3, Sees, LinksNode
  <2>3. DOMAIN f = {d, i} /\ \A j \in {d, i} : IsNode(f[j]) /\ f[j].type # "none"
    BY <2>2
  <2>4. Iupdate(f)
    BY <1>6
  <2> HIDE DEF f
  <2>5. CopiesMove({d, i}) /\ valid'[i]
    BY <1>1, <1>2, <2>3, <2>4, CopiesUpdate
  <2>6. <<d>> \in Puts /\ <<d>> # <<>> /\ Put1(<<d>>) = d /\ Put2(<<d>>) = 0
    BY <1>2, NewPuts
  <2>7. sys' = [sys EXCEPT ![p] = c]
    BY <1>6
  <2>8. c \in CallType
    BY <1>2, <2>6 DEF CallType, NodePc, InumOrNone
  <2>9. c.pc = "unlinked" /\ c.ip = i /\ c.dp = 0 /\ c.puts = <<d>> /\ c.put = sys[p].put
    BY <1>2 DEF CallType
  <2> HIDE DEF c
  <2>10. Consistent(c) /\ c.put = "no" /\ c.pc \notin DirPc /\ c.pc \in NodePc
    BY <1>2, <2>6, <2>9, InumFacts DEF Consistent, DirPc, NodePc, WalkPc
  <2>11. \A j \in Inum : Is(c.dp, j) + Is(c.ip, j) + Is(Put1(c.puts), j) + Is(Put2(c.puts), j)
                        = Is(sys[p].dp, j) + Is(sys[p].ip, j) + Is(0, j)
    BY <1>2, <2>6, <2>9, IsFacts
  <2>12. sys'[p] = c
    BY <1>4, <2>7, <2>8, <2>10, MovesTo
  <2>13. LocksMove(p)
    <3>1. /\ ilock' \in [Inum -> Process \cup {Nobody}] /\ ilock'[i] = p /\ i # d
          /\ \A j \in Inum : ilock'[j] # ilock[j] => ilock[j] \in {Nobody, p} /\ ilock'[j] \in {Nobody, p}
          /\ \A j \in Inum : ilock'[j] = p => j = i
      BY <1>1, <1>2, <1>3, <1>4, <1>6, LocksPass
    <3>2. \A j \in Inum : ilock'[j] = p => j \in MayHold(p)'
      BY <2>9, <2>10, <2>12, <3>1 DEF MayHold
    <3> QED
      BY <2>5, <2>6, <2>9, <2>10, <2>12, <3>1, <3>2 DEF LocksMove
  <2>14. {d, i} \in SUBSET Inum /\ 0 \in InumOrNone
    BY <1>2 DEF InumOrNone
  <2> QED
    BY <1>1, <2>1, <2>5, <2>7, <2>8, <2>10, <2>11, <2>13, <2>14, GoKeeps
<1> QED
  BY <1>5, <1>6 DEF UnlinkChild

\* releasesleep() of i.
LEMMA LocksFree ==
  ASSUME InodesAssumption, TypesOK, NEW p \in Process, NEW i \in Inum, ilock[i] = p,
         \A j \in Inum : ilock[j] = p => j = i, ilock' = [ilock EXCEPT ![i] = Nobody]
  PROVE  /\ ilock' \in [Inum -> Process \cup {Nobody}]
         /\ \A j \in Inum : ilock'[j] # ilock[j] => ilock[j] \in {Nobody, p} /\ ilock'[j] \in {Nobody, p}
         /\ \A j \in Inum : ilock'[j] # p
BY InumFacts DEF TypesOK

LEMMA UnlinkedStep ==
  ASSUME InodesAssumption, IInv, NEW p \in Process, Unlinked(p)
  PROVE  IInv'
<1> DEFINE i == sys[p].ip
<1>1. /\ AtPc(p, "unlinked") /\ Iupdate(Only(i, Links(i, -1))) /\ ilock' = [ilock EXCEPT ![i] = Nobody]
      /\ Done(p, <<i>>) /\ UNCHANGED <<ent, ref, cwd, file>>
  BY DEF Unlinked
<1>2. sys[p].put = "no" /\ sys[p].dp = 0 /\ i \in Inum /\ "unlinked" \in NodePc
  BY <1>1, AtFacts DEF WalkPc, DirPc, NodePc
<1>3. ilock[i] = p /\ ~Untyped(i) /\ \A j \in Inum : ilock[j] = p => j = i
  BY <1>1, <1>2, HoldsNode DEF Untyped
<1>4. TypesOK
  BY DEF IInv
<1>5. IsNode(Links(i, -1)) /\ Links(i, -1).type # "none"
  BY <1>2, <1>3, LinksNode
<1>6. CopiesMove({i}) /\ EntriesMove /\ FilesMove(p)
  BY <1>1, <1>2, <1>3, <1>4, <1>5, CopyUpdates, EntriesStay, FilesStay
<1>7. <<i>> \in Puts /\ Put1(<<i>>) = i /\ Put2(<<i>>) = 0
  BY <1>2, NewPuts
<1>8. /\ ilock' \in [Inum -> Process \cup {Nobody}]
      /\ \A j \in Inum : ilock'[j] # ilock[j] => ilock[j] \in {Nobody, p} /\ ilock'[j] \in {Nobody, p}
      /\ \A j \in Inum : ilock'[j] # p
  BY <1>1, <1>2, <1>3, <1>4, LocksFree
<1>9. \A j \in Inum : Is(cwd'[p], j) + Is(file'[p], j) + Is(Put1(<<i>>), j) + Is(Put2(<<i>>), j)
                      = Is(cwd[p], j) + Is(file[p], j) + Is(sys[p].dp, j) + Is(sys[p].ip, j)
  BY <1>1, <1>2, <1>7, IsFacts
<1>10. \A j \in Inum : ilock'[j] = p => j = Put2(<<i>>)
  BY <1>8
<1>11. {i} \in SUBSET Inum /\ UNCHANGED ref
  BY <1>1, <1>2
<1> QED
  BY <1>1, <1>6, <1>7, <1>8, <1>9, <1>10, <1>11, DoneStep

LEMMA CreateExistsStep ==
  ASSUME InodesAssumption, IInv, NEW p \in Process, CreateExists(p)
  PROVE  IInv'
<1> DEFINE i == sys[p].ip
<1>1. /\ AtPc(p, "exists") /\ ilock[i] = Nobody /\ ~Untyped(i) /\ Fetched(i)
      /\ UNCHANGED <<disk, ent, ref, ilock, cwd>>
  BY DEF CreateExists, Ilock, fs
<1>2. sys[p].put = "no" /\ sys[p].dp = 0 /\ i \in Inum /\ \A j \in Inum : ilock[j] # p
  BY <1>1, AtFacts DEF WalkPc, DirPc, NodePc
<1>3. CopiesMove({i}) /\ EntriesMove /\ ilock' \in [Inum -> Process \cup {Nobody}]
  BY <1>1, <1>2, CopyLoads, EntriesStay DEF IInv, TypesOK
<1>4. CASE file[p] = 0 /\ file' = [file EXCEPT ![p] = i] /\ Done(p, <<>>)
  BY <1>1, <1>2, <1>3, <1>4, OpensWith
<1>5. CASE Done(p, <<i>>) /\ UNCHANGED file
  <2>1. <<i>> \in Puts /\ Put1(<<i>>) = i /\ Put2(<<i>>) = 0
    BY <1>2, NewPuts
  <2> QED
    BY <1>1, <1>2, <1>3, <1>5, <2>1, DoneKeeps
<1> QED
  BY <1>4, <1>5 DEF CreateExists

LEMMA CreateFailsStep ==
  ASSUME InodesAssumption, IInv, NEW p \in Process, CreateFails(p)
  PROVE  IInv'
<1> DEFINE d == sys[p].dp
           i == sys[p].ip
<1>1. /\ AtPc(p, "new") /\ ilock[i] = Nobody /\ ~Untyped(i) /\ Done(p, <<i, d>>)
      /\ UNCHANGED <<ent, ref, ilock, cwd, file>>
  BY DEF CreateFails, Ilock
<1>2. sys[p].put = "no" /\ d \in Inum /\ i \in Inum /\ "new" \in DirPc
  BY <1>1, AtFacts DEF DirPc
<1>3. \A j \in Inum : ilock[j] = p => j = d
  BY <1>1, <1>2, HoldsDir
<1>4. PICK S : Iupdate(Only(i, [Inode(i) EXCEPT !.nlink = 0, !.addrs = S]))
  BY DEF CreateFails
<1>5. IsNode(Inode(i)) /\ Inode(i).type # "none"
  BY <1>1, <1>2, Sees
<1> DEFINE m == Inode(i)
           n == [m EXCEPT !.nlink = 0, !.addrs = S]
<1>6. IsNode(n) /\ n.type # "none" /\ Iupdate(Only(i, n))
  <2>1. IsNode(m) /\ m.type # "none" /\ Iupdate(Only(i, n))
    BY <1>4, <1>5
  <2> HIDE DEF m
  <2>2. IsNode(n) /\ n.type = m.type
    <3> DEFINE e == [m EXCEPT !.nlink = 0]
    <3>1. n = [e EXCEPT !.addrs = S]
      OBVIOUS
    <3>2. IsNode(e) /\ e.type = m.type
      BY <2>1, NodeChanges
    <3> HIDE DEF e, n
    <3> QED
      BY <3>1, <3>2, NodeChanges
  <2> QED
    BY <2>1, <2>2
<1> HIDE DEF n
<1>7. CopiesMove({i})
  BY <1>1, <1>2, <1>6, CopyUpdates
<1>8. EntriesMove
  BY <1>1, EntriesStay DEF IInv
<1>9. <<i, d>> \in Puts /\ Put1(<<i, d>>) = i /\ Put2(<<i, d>>) = d
  BY <1>2, NewPuts
<1> QED
  BY <1>1, <1>2, <1>3, <1>7, <1>8, <1>9, DoneKeeps

LEMMA CreateOpensStep ==
  ASSUME InodesAssumption, IInv, NEW p \in Process, CreateOpens(p)
  PROVE  IInv'
<1> DEFINE i == sys[p].ip
<1>1. /\ AtPc(p, "made") /\ ilock' = [ilock EXCEPT ![i] = Nobody] /\ UNCHANGED <<disk, ent, ref, valid, mem, cwd>>
  BY DEF CreateOpens, fs
<1>2. sys[p].dp = 0 /\ i \in Inum /\ "made" \in NodePc
  BY <1>1, AtFacts DEF WalkPc, DirPc, NodePc
<1>3. ilock[i] = p /\ \A j \in Inum : ilock[j] = p => j = i
  BY <1>1, <1>2, HoldsNode
<1>4. TypesOK
  BY DEF IInv
<1>5. CopiesMove({}) /\ EntriesMove
  BY <1>1, <1>4, CopiesStay, EntriesStay
<1>6. /\ ilock' \in [Inum -> Process \cup {Nobody}]
      /\ \A j \in Inum : ilock'[j] # ilock[j] => ilock[j] \in {Nobody, p} /\ ilock'[j] \in {Nobody, p}
      /\ \A j \in Inum : ilock'[j] # p
  BY <1>1, <1>2, <1>3, <1>4, LocksFree
<1>7. CASE file[p] = 0 /\ file' = [file EXCEPT ![p] = i] /\ Done(p, <<>>)
  BY <1>1, <1>2, <1>5, <1>6, <1>7, OpensWith
<1>8. CASE Done(p, <<i>>) /\ UNCHANGED file
  <2>1. <<i>> \in Puts /\ Put1(<<i>>) = i /\ Put2(<<i>>) = 0
    BY <1>2, NewPuts
  <2>2. FilesMove(p)
    BY <1>1, <1>4, <1>8, FilesStay
  <2>3. \A j \in Inum : Is(cwd'[p], j) + Is(file'[p], j) + Is(Put1(<<i>>), j) + Is(Put2(<<i>>), j)
                        = Is(cwd[p], j) + Is(file[p], j) + Is(sys[p].dp, j) + Is(sys[p].ip, j)
    BY <1>1, <1>2, <1>8, <2>1, IsFacts
  <2> QED
    BY <1>1, <1>5, <1>6, <1>8, <2>1, <2>2, <2>3, DoneStep
<1> QED
  BY <1>7, <1>8 DEF CreateOpens

LEMMA WriteStep ==
  ASSUME InodesAssumption, IInv, NEW p \in Process, Write(p)
  PROVE  IInv'
<1> DEFINE i == file[p]
           n == [Inode(i) EXCEPT !.addrs = @ \cup {First(FreeBlocks)}]
<1>1. /\ AtPc(p, "idle") /\ i # 0 /\ ilock[i] = Nobody /\ ~Untyped(i) /\ Iupdate(Only(i, n))
      /\ UNCHANGED <<ent, ref, ilock, sys, cwd, file>>
  BY DEF Write, Ilock
<1>2. /\ sys[p] \in CallType /\ Consistent(sys[p]) /\ sys[p].pc = "idle" /\ sys[p].put = "no"
      /\ Put1(sys[p].puts) = 0 /\ Put2(sys[p].puts) = 0 /\ i \in Inum
  BY <1>1, AtFacts DEF InumOrNone
<1>3. TypesOK
  BY DEF IInv
<1>4. IsNode(n) /\ n.type # "none"
  <2> DEFINE m == Inode(i)
             S == m.addrs \cup {First(FreeBlocks)}
  <2>1. IsNode(m) /\ m.type # "none"
    BY <1>1, <1>2, Sees
  <2>2. n = [m EXCEPT !.addrs = S]
    OBVIOUS
  <2> HIDE DEF m, S, n
  <2> QED
    BY <2>1, <2>2, NodeChanges
<1> HIDE DEF n
<1>5. CopiesMove({i}) /\ EntriesMove
  BY <1>1, <1>2, <1>3, <1>4, CopyUpdates, EntriesStay
<1>6. sys' = [sys EXCEPT ![p] = sys[p]]
  BY <1>1, <1>3 DEF TypesOK
<1>7. \A j \in Inum : Is(sys[p].dp, j) + Is(sys[p].ip, j) + Is(Put1(sys[p].puts), j) + Is(Put2(sys[p].puts), j)
                      = Is(sys[p].dp, j) + Is(sys[p].ip, j) + Is(0, j)
  BY <1>2, IsFacts
<1>8. "idle" \notin DirPc \cup NodePc /\ 0 \in InumOrNone /\ {i} \in SUBSET Inum
  BY <1>2 DEF DirPc, NodePc, InumOrNone
<1> QED
  BY <1>1, <1>2, <1>5, <1>6, <1>7, <1>8, GoFree

\* A set of numbers has a least one.
LEMMA LeastOf ==
  ASSUME NEW S \in SUBSET Nat, S # {}
  PROVE  \E n \in S : \A m \in S : ~(m < n)
<1> DEFINE R == OpToRel(<, Nat)
<1>1. IsWellFoundedOn(R, Nat)
  BY NatLessThanWellFounded
<1>2. ASSUME NEW m \in S, NEW n \in S, m < n PROVE <<m, n>> \in R
  BY <1>2 DEF OpToRel
<1> HIDE DEF R
<1>3. PICK n \in S : \A m \in S : ~(<<m, n>> \in R)
  BY <1>1, WFMin
<1> QED
  BY <1>2, <1>3

\* The scan finds one of the set, if there is one.
LEMMA FirstIs ==
  ASSUME NEW S \in SUBSET Nat, S # {}
  PROVE  First(S) \in S
<1>1. PICK n \in S : \A m \in S : ~(m < n)
  BY LeastOf
<1>2. \A m \in S : n <= m
  BY <1>1
<1> QED
  BY <1>2 DEF First

\* Where create() is when it has found no name: the directory is locked, and p has no
\* other inode in hand.
LEMMA CreateStep ==
  ASSUME InodesAssumption, IInv, NEW p \in Process, Create(p)
  PROVE  IInv'
<1> DEFINE d == sys[p].dp
           i == Lookup(d, sys[p].name)
<1>1. /\ AtPc(p, "parent") /\ sys[p].call \in {"create", "mkdir"} /\ ilock[d] = Nobody /\ ~Untyped(d)
      /\ Fetched(d) /\ UNCHANGED <<ent, cwd, file>>
  BY DEF Create, Ilock
<1>2. /\ sys[p] \in CallType /\ Consistent(sys[p]) /\ sys[p].pc = "parent" /\ sys[p].put = "no"
      /\ sys[p].puts = <<>> /\ Put1(sys[p].puts) = 0 /\ Put2(sys[p].puts) = 0
      /\ d \in Inum /\ sys[p].ip = 0 /\ sys[p].name \in Elem /\ \A j \in Inum : ilock[j] # p
  BY <1>1, AtFacts DEF WalkPc, DirPc, NodePc
<1>3. TypesOK
  BY DEF IInv
<1>4. EntriesMove /\ i \in InumOrNone /\ {d} \in SUBSET Inum
  BY <1>1, <1>2, <1>3, EntriesStay, LookupIs
<1>5. <<d>> \in Puts /\ <<d>> # <<>> /\ Put1(<<d>>) = d /\ Put2(<<d>>) = 0
  BY <1>2, NewPuts
<1>6. CASE Done(p, <<d>>) /\ UNCHANGED <<disk, ref, ilock>>
  <2>1. CopiesMove({d})
    BY <1>1, <1>2, <1>6, CopyLoads
  <2> QED
    BY <1>1, <1>2, <1>4, <1>5, <1>6, <2>1, DoneKeeps
<1>7. CASE /\ i # 0 /\ Iget(i) /\ UNCHANGED <<disk, ilock>>
           /\ sys' = [sys EXCEPT ![p].pc = "exists", ![p].ip = i, ![p].dp = 0, ![p].puts = <<d>>]
  <2> DEFINE c == [sys[p] EXCEPT !.pc = "exists", !.ip = i, !.dp = 0, !.puts = <<d>>]
  <2>1. CopiesMove({d})
    BY <1>1, <1>2, <1>7, CopyLoads
  <2>2. (IF i = 0 THEN UNCHANGED ref ELSE Iget(i)) /\ i # 0 /\ UNCHANGED ilock
    BY <1>7
  <2>3. sys' = [sys EXCEPT ![p] = c]
    BY <1>7
  <2> HIDE DEF i
  <2>4. c \in CallType
    BY <1>2, <1>4, <1>5 DEF CallType, OtherPc, InumOrNone
  <2>5. c.pc = "exists" /\ c.ip = i /\ c.dp = 0 /\ c.puts = <<d>> /\ c.put = sys[p].put
    BY <1>2 DEF CallType
  <2> HIDE DEF c
  <2>6. Consistent(c) /\ c.put = "no" /\ c.pc \notin DirPc \cup NodePc
    BY <1>2, <1>5, <2>2, <2>5, InumFacts DEF Consistent, DirPc, NodePc, WalkPc
  <2>7. \A j \in Inum : Is(c.dp, j) + Is(c.ip, j) + Is(Put1(c.puts), j) + Is(Put2(c.puts), j)
                        = Is(sys[p].dp, j) + Is(sys[p].ip, j) + Is(i, j)
    BY <1>2, <1>5, <2>5, IsFacts
  <2>8. "parent" \notin DirPc \cup NodePc
    BY DEF DirPc, NodePc
  <2> QED
    BY <1>1, <1>4, <2>1, <2>2, <2>3, <2>4, <2>6, <2>7, <2>8, GoFree
<1>8. CASE /\ FreeInodes # {} /\ Hold(p, d)
           /\ disk' = [disk EXCEPT ![First(FreeInodes)] =
                [FreeNode EXCEPT !.type = IF sys[p].call = "mkdir" THEN "dir" ELSE "file"]]
           /\ Iget(First(FreeInodes))
           /\ sys' = [sys EXCEPT ![p].pc = "new", ![p].ip = First(FreeInodes)]
  <2> DEFINE n == First(FreeInodes)
             t == IF sys[p].call = "mkdir" THEN "dir" ELSE "file"
             m == [FreeNode EXCEPT !.type = t]
             c == [sys[p] EXCEPT !.pc = "new", !.ip = n]
  <2>1. n \in Inum /\ disk[n].type = "none"
    <3>1. FreeInodes \in SUBSET Nat
      BY DEF FreeInodes, Inum
    <3>2. n \in FreeInodes
      BY <1>8, <3>1, FirstIs
    <3> QED
      BY <3>2 DEF FreeInodes
  <2>2. IsNode(m)
    <3> HIDE DEF t
    <3>1. IsNode([type |-> "none", nlink |-> 0, addrs |-> {}])
      BY DEF IsNode
    <3> QED
      BY NodeChanges, <3>1 DEF FreeNode
  <2>3. ref[d] > 0 /\ ~Freed(d) /\ Inode(d) = disk[d] /\ disk[d].type # "none" /\ n # d
    BY <1>1, <1>2, <2>1, InHand, Sees
  <2>4. disk' = [disk EXCEPT ![n] = m] /\ Iget(n) /\ sys' = [sys EXCEPT ![p] = c]
    BY <1>8
  <2> HIDE DEF n, m
  <2>5. CopiesMove({d}) /\ valid'[d]
    <3>1. /\ disk' = [j \in Inum |-> disk'[j]] /\ \A j \in Inum : IsNode(disk'[j])
          /\ \A j \in Inum \ {n} : disk'[j] = disk[j]
      BY <1>3, <2>1, <2>2, <2>4 DEF TypesOK
    <3>2. /\ valid' \in [Inum -> BOOLEAN] /\ mem' = [j \in Inum |-> mem'[j]]
          /\ \A j \in Inum : IsNode(mem'[j])
          /\ valid'[d] /\ mem'[d] = disk[d]
          /\ \A j \in Inum \ {d} : valid'[j] = valid[j] /\ mem'[j] = mem[j]
      BY <1>1, <1>2, <1>3, <2>3, LoadsOne
    <3> QED
      BY <1>2, <2>1, <2>3, <3>1, <3>2 DEF CopiesMove
  <2>6. (IF n = 0 THEN UNCHANGED ref ELSE Iget(n)) /\ n \in InumOrNone
    BY <2>1, <2>4, InumFacts DEF InumOrNone
  <2>7. c \in CallType
    BY <1>2, <2>6 DEF CallType, DirPc
  <2>8. /\ c.pc = "new" /\ c.ip = n /\ c.dp = d /\ c.puts = sys[p].puts /\ c.put = sys[p].put
        /\ c.name = sys[p].name
    BY <1>2 DEF CallType
  <2> HIDE DEF c
  <2>9. Consistent(c) /\ c.put = "no" /\ c.pc \in DirPc /\ c.pc \notin NodePc
    BY <1>2, <2>1, <2>8, InumFacts DEF Consistent, DirPc, NodePc, WalkPc
  <2>10. \A j \in Inum : Is(c.dp, j) + Is(c.ip, j) + Is(Put1(c.puts), j) + Is(Put2(c.puts), j)
                         = Is(sys[p].dp, j) + Is(sys[p].ip, j) + Is(n, j)
    BY <1>2, <2>8, IsFacts
  <2>11. sys'[p] = c
    BY <1>3, <2>4, <2>7, <2>9, MovesTo
  <2>12. LocksMove(p)
    <3>1. /\ ilock' \in [Inum -> Process \cup {Nobody}] /\ ilock'[d] = p
          /\ \A j \in Inum : ilock'[j] # ilock[j] => ilock[j] \in {Nobody, p} /\ ilock'[j] \in {Nobody, p}
          /\ \A j \in Inum : ilock'[j] = p => j = d
      BY <1>1, <1>2, <1>3, <1>8, LocksOne
    <3>2. \A j \in Inum : ilock'[j] = p => j \in MayHold(p)'
      BY <2>8, <2>9, <2>11, <3>1 DEF MayHold
    <3> QED
      BY <2>5, <2>8, <2>9, <2>11, <3>1, <3>2 DEF LocksMove
  <2> QED
    BY <1>1, <1>4, <2>4, <2>5, <2>6, <2>7, <2>9, <2>10, <2>12, GoKeeps
<1> QED
  BY <1>6, <1>7, <1>8 DEF Create

LEMMA CreateNewStep ==
  ASSUME InodesAssumption, IInv, NEW p \in Process, CreateNew(p)
  PROVE  IInv'
<1> DEFINE d == sys[p].dp
           i == sys[p].ip
           dir == sys[p].call = "mkdir"
           own == IF dir THEN {First(FreeBlocks)} ELSE {}
           b == First(FreeBlocks \ own)
           own_ == [Inode(i) EXCEPT !.nlink = 1, !.addrs = own]
           grown == [Grown(d, b) EXCEPT !.nlink = IF dir THEN @ + 1 ELSE @]
           f == [j \in {d, i} |-> IF j = i THEN own_ ELSE grown]
<1>1. /\ AtPc(p, "new") /\ ilock[i] = Nobody /\ ~Untyped(i) /\ Pass(p, d, i) /\ Iupdate(f)
      /\ ent' = [ent EXCEPT ![i] = [NoEntries EXCEPT ![".."] = IF dir THEN d ELSE 0],
                            ![d][sys[p].name] = i]
      /\ UNCHANGED <<ref, cwd, file>>
  BY DEF CreateNew, Ilock
<1>2. /\ sys[p] \in CallType /\ Consistent(sys[p]) /\ sys[p].pc = "new" /\ sys[p].put = "no"
      /\ d \in Inum /\ i \in Inum /\ "new" \in DirPc
  BY <1>1, AtFacts DEF DirPc
<1>3. ilock[d] = p /\ valid[d] /\ ~Untyped(d) /\ \A j \in Inum : ilock[j] = p => j = d
  BY <1>1, <1>2, HoldsDir DEF Untyped
<1>4. TypesOK
  BY DEF IInv
<1>5. EntriesMove
  <2> DEFINE e == [NoEntries EXCEPT ![".."] = IF dir THEN d ELSE 0]
             g == [ent EXCEPT ![i] = e]
  <2>1. e \in [Name \cup {".."} -> InumOrNone]
    BY <1>2 DEF NoEntries, InumOrNone
  <2>2. ent' = [g EXCEPT ![d][sys[p].name] = i]
    BY <1>1
  <2> HIDE DEF e
  <2>3. g \in [Inum -> [Name \cup {".."} -> InumOrNone]]
    BY <1>2, <1>4, <2>1 DEF TypesOK
  <2> HIDE DEF g
  <2> QED
    BY <1>2, <2>2, <2>3 DEF EntriesMove, InumOrNone
<1>6. IsNode(own_) /\ own_.type # "none"
  <2> DEFINE m == Inode(i)
             e == [m EXCEPT !.nlink = 1]
  <2>1. IsNode(m) /\ m.type # "none"
    BY <1>1, <1>2, Sees
  <2>2. own_ = [e EXCEPT !.addrs = own]
    OBVIOUS
  <2> HIDE DEF m
  <2>3. IsNode(e) /\ e.type = m.type
    BY <2>1, NodeChanges
  <2> HIDE DEF e, own_, own
  <2> QED
    BY <2>1, <2>2, <2>3, NodeChanges
<1>7. IsNode(grown) /\ grown.type # "none"
  <2> DEFINE m == Grown(d, b)
             k == IF dir THEN m.nlink + 1 ELSE m.nlink
  <2>1. IsNode(m) /\ m.type # "none"
    BY <1>2, <1>3, GrownNode
  <2>2. grown = [m EXCEPT !.nlink = k]
    OBVIOUS
  <2> HIDE DEF m, k, grown
  <2> QED
    BY <2>1, <2>2, NodeChanges
<1> HIDE DEF own_, grown
<1>8. DOMAIN f = {d, i} /\ (\A j \in {d, i} : IsNode(f[j]) /\ f[j].type # "none") /\ Iupdate(f)
  BY <1>1, <1>6, <1>7
<1> HIDE DEF f
<1>9. CopiesMove({d, i}) /\ valid'[i]
  BY <1>1, <1>2, <1>8, CopiesUpdate
<1>10. /\ ilock' \in [Inum -> Process \cup {Nobody}] /\ ilock'[i] = p /\ i # d
       /\ \A j \in Inum : ilock'[j] # ilock[j] => ilock[j] \in {Nobody, p} /\ ilock'[j] \in {Nobody, p}
       /\ \A j \in Inum : ilock'[j] = p => j = i
  BY <1>1, <1>2, <1>3, <1>4, LocksPass
<1>11. CASE Done(p, <<d, i>>)
  <2>1. <<d, i>> \in Puts /\ Put1(<<d, i>>) = d /\ Put2(<<d, i>>) = i
    BY <1>2, NewPuts
  <2>2. FilesMove(p)
    BY <1>1, <1>4, FilesStay
  <2>3. \A j \in Inum : Is(cwd'[p], j) + Is(file'[p], j) + Is(Put1(<<d, i>>), j) + Is(Put2(<<d, i>>), j)
                        = Is(cwd[p], j) + Is(file[p], j) + Is(sys[p].dp, j) + Is(sys[p].ip, j)
    BY <1>1, <2>1, IsFacts
  <2>4. \A j \in Inum : ilock'[j] = p => j = Put2(<<d, i>>)
    BY <1>10, <2>1
  <2>5. {d, i} \in SUBSET Inum
    BY <1>2
  <2> QED
    BY <1>1, <1>5, <1>9, <1>10, <1>11, <2>1, <2>2, <2>3, <2>4, <2>5, DoneStep
<1>12. CASE sys' = [sys EXCEPT ![p].pc = "made", ![p].dp = 0, ![p].puts = <<d>>]
  <2> DEFINE c == [sys[p] EXCEPT !.pc = "made", !.dp = 0, !.puts = <<d>>]
  <2>1. <<d>> \in Puts /\ <<d>> # <<>> /\ Put1(<<d>>) = d /\ Put2(<<d>>) = 0
    BY <1>2, NewPuts
  <2>2. sys' = [sys EXCEPT ![p] = c]
    BY <1>12
  <2>3. c \in CallType
    BY <1>2, <2>1 DEF CallType, NodePc, InumOrNone
  <2>4. c.pc = "made" /\ c.ip = i /\ c.dp = 0 /\ c.puts = <<d>> /\ c.put = sys[p].put
    BY <1>2 DEF CallType
  <2> HIDE DEF c
  <2>5. Consistent(c) /\ c.put = "no" /\ c.pc \notin DirPc /\ c.pc \in NodePc
    BY <1>2, <2>1, <2>4, InumFacts DEF Consistent, DirPc, NodePc, WalkPc
  <2>6. \A j \in Inum : Is(c.dp, j) + Is(c.ip, j) + Is(Put1(c.puts), j) + Is(Put2(c.puts), j)
                        = Is(sys[p].dp, j) + Is(sys[p].ip, j) + Is(0, j)
    BY <2>1, <2>4, IsFacts
  <2>7. sys'[p] = c
    BY <1>4, <2>2, <2>3, <2>5, MovesTo
  <2>8. LocksMove(p)
    <3>1. \A j \in Inum : ilock'[j] = p => j \in MayHold(p)'
      BY <1>10, <2>4, <2>5, <2>7 DEF MayHold
    <3> QED
      BY <1>9, <1>10, <2>1, <2>4, <2>5, <2>7, <3>1 DEF LocksMove
  <2>9. {d, i} \in SUBSET Inum /\ 0 \in InumOrNone
    BY <1>2 DEF InumOrNone
  <2> QED
    BY <1>1, <1>5, <1>9, <2>2, <2>3, <2>5, <2>6, <2>8, <2>9, GoKeeps
<1> QED
  BY <1>11, <1>12 DEF CreateNew

-----------------------------------------------------------------------------

LEMMA SameStep ==
  ASSUME IInv, UNCHANGED <<disk, ent, ref, valid, mem, ilock, sys, cwd, file>>
  PROVE  IInv'
<1>1. TypesOK'
  BY DEF IInv, TypesOK
<1>2. CallsOK'
  BY DEF IInv, CallsOK
<1>3. Counted'
  <2>1. \A p \in Process : Pointers(p)' = Pointers(p)
    BY DEF Pointers
  <2>2. Uses' = Uses
    BY <2>1 DEF Uses
  <2>3. \A i \in Inum : To(i)' = To(i)
    BY <2>2 DEF To
  <2> QED
    BY <2>3 DEF IInv, Counted, Inum
<1>4. LocksOK'
  BY DEF IInv, LocksOK, MayHold, Holds
<1>5. CopiesOK'
  BY DEF IInv, CopiesOK, Freed
<1> QED
  BY <1>1, <1>2, <1>3, <1>4, <1>5 DEF IInv

\* Where p is when it is putting an inode a, and maybe another one next.
LEMMA PutFacts ==
  ASSUME InodesAssumption, IInv, NEW p \in Process, NEW s, Putting(p, s)
  PROVE  /\ sys[p] \in CallType /\ Consistent(sys[p]) /\ sys[p].put = s
         /\ Put(p) = Put1(sys[p].puts) /\ Put(p) \in Inum /\ ref[Put(p)] > 0
         /\ sys[p].puts \in Puts /\ sys[p].puts # <<>>
         /\ sys[p].pc \notin DirPc
         /\ sys[p].pc \in NodePc => /\ ilock[sys[p].ip] = p /\ valid[sys[p].ip] /\ sys[p].ip \in Inum
                                    /\ Put(p) # sys[p].ip /\ Put2(sys[p].puts) = 0
<1>1. /\ sys[p] \in CallType /\ Consistent(sys[p]) /\ sys[p].put = s /\ sys[p].puts \in Puts
      /\ sys[p].puts # <<>>
  BY DEF Putting, IInv, TypesOK, CallsOK, CallType
<1>2. Put(p) = Put1(sys[p].puts) /\ Put(p) \in Inum
  BY <1>1, PutsAre DEF Put
<1>3. ref[Put(p)] > 0
  BY <1>2, InHand
<1>4. sys[p].pc \notin DirPc
  BY <1>1 DEF Consistent, DirPc
<1>5. ASSUME sys[p].pc \in NodePc
      PROVE  /\ ilock[sys[p].ip] = p /\ valid[sys[p].ip] /\ sys[p].ip \in Inum
             /\ Put(p) # sys[p].ip /\ Put2(sys[p].puts) = 0
  <2>1. ilock[sys[p].ip] = p /\ valid[sys[p].ip] /\ Put1(sys[p].puts) # sys[p].ip
    BY <1>5 DEF IInv, LocksOK, Holds
  <2>2. sys[p].ip \in Inum /\ Put2(sys[p].puts) = 0
    BY <1>1, <1>5 DEF Consistent, NodePc, CallType, InumOrNone
  <2> QED
    BY <1>2, <2>1, <2>2
<1> QED
  BY <1>1, <1>2, <1>3, <1>4, <1>5

\* What the calls of q hold, wherever it is.
LEMMA HeldAre ==
  ASSUME InodesAssumption, IInv, NEW q \in Process
  PROVE  /\ sys[q].pc \in DirPc => ilock[sys[q].dp] = q /\ valid[sys[q].dp] /\ sys[q].dp \in Inum
         /\ sys[q].pc \in NodePc => /\ ilock[sys[q].ip] = q /\ valid[sys[q].ip] /\ sys[q].ip \in Inum
                                    /\ Put1(sys[q].puts) # sys[q].ip
         /\ sys[q].put \in {"free", "freed"} => ilock[Put1(sys[q].puts)] = q /\ Put1(sys[q].puts) \in Inum
<1>1. sys[q] \in CallType /\ Consistent(sys[q])
  BY DEF IInv, TypesOK, CallsOK
<1>2. /\ sys[q].pc \in DirPc => sys[q].dp \in Inum
      /\ sys[q].pc \in NodePc => sys[q].ip \in Inum
      /\ sys[q].put \in {"free", "freed"} => Put1(sys[q].puts) \in Inum
  BY <1>1, PutsAre DEF Consistent, CallType, InumOrNone
<1> QED
  BY <1>2 DEF IInv, LocksOK, Holds

\* iput() goes from one of its steps to the next: nothing of the call changes but put.
LEMMA PutMoves ==
  ASSUME InodesAssumption, IInv, NEW p \in Process, NEW s, Putting(p, s), NEW t \in PutPc,
         sys' = [sys EXCEPT ![p].put = t], UNCHANGED <<ref, cwd, file>>
  PROVE  /\ sys' \in [Process -> CallType] /\ CallsOK' /\ Counted'
         /\ sys'[p].pc = sys[p].pc /\ sys'[p].dp = sys[p].dp /\ sys'[p].ip = sys[p].ip
         /\ sys'[p].puts = sys[p].puts /\ sys'[p].put = t
         /\ \A q \in Process \ {p} : sys'[q] = sys[q]
         /\ cwd' \in [Process -> Inum] /\ file' \in [Process -> InumOrNone] /\ ref' \in [Inum -> Int]
<1> DEFINE c == [sys[p] EXCEPT !.put = t]
<1>1. sys[p] \in CallType /\ Consistent(sys[p]) /\ sys[p].puts # <<>>
  BY PutFacts
<1>2. c \in CallType
  BY <1>1 DEF CallType
<1>3. /\ c.pc = sys[p].pc /\ c.call = sys[p].call /\ c.new = sys[p].new /\ c.name = sys[p].name
      /\ c.dp = sys[p].dp /\ c.ip = sys[p].ip /\ c.puts = sys[p].puts /\ c.put = t
  BY <1>1 DEF CallType
<1>4. TypesOK
  BY DEF IInv
<1>5. sys' = [sys EXCEPT ![p] = c]
  OBVIOUS
<1> HIDE DEF c
<1>6. sys' \in [Process -> CallType] /\ sys'[p] = c /\ \A q \in Process \ {p} : sys'[q] = sys[q]
  BY <1>2, <1>4, <1>5 DEF TypesOK
<1>7. Consistent(c)
  BY <1>1, <1>3 DEF Consistent
<1>8. CallsOK'
  BY <1>6, <1>7 DEF IInv, CallsOK
<1>9. Counted'
  <2>1. \A q \in Process : Pointers(q)' = Pointers(q)
    BY <1>3, <1>6 DEF Pointers
  <2>2. Uses' = Uses
    BY <2>1 DEF Uses
  <2>3. \A i \in Inum : To(i)' = To(i)
    BY <2>2 DEF To
  <2> QED
    BY <2>3 DEF IInv, Counted, Inum
<1> QED
  BY <1>3, <1>4, <1>6, <1>8, <1>9 DEF TypesOK

\* A step of iput() of p: what it must do with the locks, and to the copies of those that
\* others have locked.
LEMMA PutStep ==
  ASSUME InodesAssumption, IInv, NEW p \in Process, TypesOK', CallsOK', Counted', CopiesOK',
         \A q \in Process \ {p} : sys'[q] = sys[q],
         \A j \in Inum : ilock'[j] # ilock[j] => ilock[j] \in {Nobody, p} /\ ilock'[j] \in {Nobody, p},
         \A j \in Inum : ilock'[j] = p => j \in MayHold(p)',
         \A q \in Process \ {p} : \A j \in Inum :
           valid[j] /\ ilock[j] = q /\ j \in {sys[q].dp, sys[q].ip} => valid'[j],
         sys'[p].pc \notin DirPc,
         sys'[p].pc \in NodePc => /\ ilock'[sys'[p].ip] = p /\ valid'[sys'[p].ip]
                                  /\ Put1(sys'[p].puts) # sys'[p].ip,
         sys'[p].put \in {"free", "freed"} => ilock'[Put1(sys'[p].puts)] = p
  PROVE  IInv'
<1>1. TypesOK /\ LocksOK
  BY DEF IInv
<1>2. ASSUME NEW j \in Inum, ilock'[j] # Nobody PROVE j \in MayHold(ilock[j])'
  <2>1. CASE ilock'[j] = p
    BY <2>1
  <2>2. CASE ilock'[j] # p
    <3>1. ilock'[j] = ilock[j] /\ ilock[j] \in Process \ {p}
      BY <1>1, <1>2, <2>2 DEF TypesOK
    <3>2. j \in MayHold(ilock[j])
      BY <1>1, <1>2, <3>1 DEF LocksOK
    <3> QED
      BY <3>1, <3>2 DEF MayHold
  <2> QED
    BY <2>1, <2>2
<1>3. ASSUME NEW q \in Process
      PROVE  /\ sys'[q].pc \in DirPc => ilock'[sys'[q].dp] = q /\ valid'[sys'[q].dp]
             /\ sys'[q].pc \in NodePc => /\ ilock'[sys'[q].ip] = q /\ valid'[sys'[q].ip]
                                         /\ Put1(sys'[q].puts) # sys'[q].ip
             /\ sys'[q].put \in {"free", "freed"} => ilock'[Put1(sys'[q].puts)] = q
  <2>1. CASE q = p
    BY <2>1
  <2>2. CASE q # p
    <3>1. \A j \in Inum : ilock[j] = q => ilock'[j] = q
      BY <2>2, InumFacts
    <3>2. /\ sys[q].pc \in DirPc => ilock[sys[q].dp] = q /\ valid[sys[q].dp] /\ sys[q].dp \in Inum
          /\ sys[q].pc \in NodePc => /\ ilock[sys[q].ip] = q /\ valid[sys[q].ip] /\ sys[q].ip \in Inum
                                     /\ Put1(sys[q].puts) # sys[q].ip
          /\ sys[q].put \in {"free", "freed"} => ilock[Put1(sys[q].puts)] = q /\ Put1(sys[q].puts) \in Inum
      BY HeldAre
    <3>3. sys'[q] = sys[q]
      BY <2>2
    <3> QED
      BY <2>2, <3>1, <3>2, <3>3
  <2> QED
    BY <2>1, <2>2
<1>4. LocksOK'
  BY <1>2, <1>3 DEF LocksOK, Holds
<1> QED
  BY <1>4 DEF IInv

LEMMA IputLocksStep ==
  ASSUME InodesAssumption, IInv, NEW p \in Process, IputLocks(p)
  PROVE  IInv'
<1> DEFINE a == Put(p)
<1>1. /\ Putting(p, "no") /\ ilock[a] = Nobody /\ Hold(p, a) /\ sys' = [sys EXCEPT ![p].put = "free"]
      /\ UNCHANGED <<disk, ent, ref, valid, mem, cwd, file>>
  BY DEF IputLocks, fs
<1>2. /\ sys[p].put = "no" /\ a = Put1(sys[p].puts) /\ a \in Inum /\ sys[p].pc \notin DirPc
      /\ sys[p].pc \in NodePc => /\ ilock[sys[p].ip] = p /\ valid[sys[p].ip] /\ sys[p].ip \in Inum
                                 /\ a # sys[p].ip
  BY <1>1, PutFacts
<1>3. "free" \in PutPc
  BY DEF PutPc
<1>4. /\ sys' \in [Process -> CallType] /\ CallsOK' /\ Counted'
      /\ sys'[p].pc = sys[p].pc /\ sys'[p].dp = sys[p].dp /\ sys'[p].ip = sys[p].ip
      /\ sys'[p].puts = sys[p].puts /\ sys'[p].put = "free"
      /\ \A q \in Process \ {p} : sys'[q] = sys[q]
      /\ cwd' \in [Process -> Inum] /\ file' \in [Process -> InumOrNone] /\ ref' \in [Inum -> Int]
  BY <1>1, <1>3, PutMoves
<1>5. TypesOK /\ LocksOK /\ CopiesOK
  BY DEF IInv
<1> HIDE DEF a
<1>6. /\ ilock' \in [Inum -> Process \cup {Nobody}] /\ ilock'[a] = p
      /\ \A j \in Inum : ilock'[j] # ilock[j] => ilock[j] \in {Nobody, p} /\ ilock'[j] \in {Nobody, p}
      /\ \A j \in Inum : ilock'[j] = p => j = a \/ ilock[j] = p
      /\ \A j \in Inum \ {a} : ilock'[j] = ilock[j]
  BY <1>1, <1>2, <1>5 DEF TypesOK, Hold
<1>7. TypesOK'
  BY <1>1, <1>4, <1>5, <1>6 DEF TypesOK
<1>8. ASSUME NEW j \in Inum, ilock'[j] = p PROVE j \in MayHold(p)'
  <2>1. CASE j = a
    BY <1>2, <1>4, <2>1 DEF MayHold
  <2>2. CASE ilock[j] = p
    <3>1. j \in MayHold(p)
      BY <1>5, <2>2, InumFacts DEF LocksOK
    <3> QED
      BY <1>2, <1>4, <3>1 DEF MayHold
  <2> QED
    BY <1>6, <1>8, <2>1, <2>2
<1>9. \A j \in Inum : Freed(j)' <=> Freed(j)
  BY <1>2, <1>4 DEF Freed
<1>10. CopiesOK'
  BY <1>1, <1>5, <1>9 DEF CopiesOK
<1> QED
  BY <1>1, <1>2, <1>4, <1>6, <1>7, <1>8, <1>10, PutStep

LEMMA IputFreesStep ==
  ASSUME InodesAssumption, IInv, NEW p \in Process, IputFrees(p)
  PROVE  IInv'
<1> DEFINE a == Put(p)
           n == [[mem[a] EXCEPT !.type = "none"] EXCEPT !.addrs = {}]
<1>1. /\ Putting(p, "free") /\ Iupdate(Only(a, n)) /\ ent' = [ent EXCEPT ![a] = NoEntries]
      /\ sys' = [sys EXCEPT ![p].put = "freed"] /\ UNCHANGED <<ref, ilock, cwd, file>>
  BY DEF IputFrees, Itrunc
<1>2. /\ sys[p].put = "free" /\ a = Put1(sys[p].puts) /\ a \in Inum /\ ref[a] > 0 /\ sys[p].pc \notin DirPc
      /\ sys[p].pc \in NodePc => ilock[sys[p].ip] = p /\ valid[sys[p].ip] /\ sys[p].ip \in Inum /\ a # sys[p].ip
  BY <1>1, PutFacts
<1>3. "freed" \in PutPc
  BY DEF PutPc
<1>4. /\ sys' \in [Process -> CallType] /\ CallsOK' /\ Counted'
      /\ sys'[p].pc = sys[p].pc /\ sys'[p].dp = sys[p].dp /\ sys'[p].ip = sys[p].ip
      /\ sys'[p].puts = sys[p].puts /\ sys'[p].put = "freed"
      /\ \A q \in Process \ {p} : sys'[q] = sys[q]
      /\ cwd' \in [Process -> Inum] /\ file' \in [Process -> InumOrNone] /\ ref' \in [Inum -> Int]
  BY <1>1, <1>3, PutMoves
<1>5. TypesOK /\ LocksOK /\ CopiesOK
  BY DEF IInv
<1> HIDE DEF a
<1>6. IsNode(n)
  <2> DEFINE m == mem[a]
             e == [m EXCEPT !.type = "none"]
  <2>1. IsNode(m)
    BY <1>2, <1>5 DEF TypesOK
  <2>2. n = [e EXCEPT !.addrs = {}]
    OBVIOUS
  <2> HIDE DEF m
  <2>3. IsNode(e)
    BY <2>1, NodeChanges
  <2> HIDE DEF e, n
  <2> QED
    BY <2>2, <2>3, NodeChanges
<1> HIDE DEF n
<1>7. /\ valid' \in [Inum -> BOOLEAN]
      /\ mem' = [j \in Inum |-> mem'[j]] /\ disk' = [j \in Inum |-> disk'[j]]
      /\ \A j \in Inum : IsNode(mem'[j]) /\ IsNode(disk'[j])
      /\ valid'[a] /\ mem'[a] = n /\ disk'[a] = n
      /\ \A j \in Inum \ {a} : valid'[j] = valid[j] /\ mem'[j] = mem[j] /\ disk'[j] = disk[j]
  BY <1>1, <1>2, <1>5, <1>6, UpdatesOne
<1>8. TypesOK'
  <2>1. ent' \in [Inum -> [Name \cup {".."} -> InumOrNone]]
    BY <1>1, <1>5 DEF TypesOK, NoEntries, InumOrNone
  <2> QED
    BY <1>1, <1>4, <1>5, <1>7, <2>1 DEF TypesOK
<1>9. ASSUME NEW j \in Inum, ilock'[j] = p PROVE j \in MayHold(p)'
  <2>1. j \in MayHold(p)
    BY <1>1, <1>5, <1>9, InumFacts DEF LocksOK
  <2> QED
    BY <1>2, <1>4, <2>1 DEF MayHold
<1>10. ilock'[a] = p
  BY <1>1, <1>2, <1>5 DEF LocksOK
<1>11. \A j \in Inum : Freed(j)' <=> (Freed(j) \/ j = a)
  BY <1>2, <1>4 DEF Freed
<1>12. CopiesOK'
  <2>1. ASSUME NEW j \in Inum, valid'[j]
        PROVE  ref'[j] > 0 /\ (Freed(j)' \/ (mem'[j] = disk'[j] /\ disk'[j].type # "none"))
    <3>1. CASE j = a
      BY <1>1, <1>2, <1>11, <3>1
    <3>2. CASE j # a
      BY <1>1, <1>5, <1>7, <1>11, <2>1, <3>2 DEF CopiesOK
    <3> QED
      BY <3>1, <3>2
  <2> QED
    BY <2>1 DEF CopiesOK
<1>13. \A j \in Inum : valid[j] => valid'[j]
  BY <1>7
<1>14. \A j \in Inum : ilock'[j] = ilock[j]
  BY <1>1
<1> QED
  BY <1>2, <1>4, <1>8, <1>9, <1>10, <1>12, <1>13, <1>14, PutStep

LEMMA IputInvalidatesStep ==
  ASSUME InodesAssumption, IInv, NEW p \in Process, IputInvalidates(p)
  PROVE  IInv'
<1> DEFINE a == Put(p)
<1>1. /\ Putting(p, "freed") /\ valid' = [valid EXCEPT ![a] = FALSE] /\ mem' = [mem EXCEPT ![a] = FreeNode]
      /\ ilock' = [ilock EXCEPT ![a] = Nobody] /\ sys' = [sys EXCEPT ![p].put = "drop"]
      /\ UNCHANGED <<disk, ent, ref, cwd, file>>
  BY DEF IputInvalidates, fs
<1>2. /\ sys[p].put = "freed" /\ a = Put1(sys[p].puts) /\ a \in Inum /\ ref[a] > 0 /\ sys[p].pc \notin DirPc
      /\ sys[p].pc \in NodePc => ilock[sys[p].ip] = p /\ valid[sys[p].ip] /\ sys[p].ip \in Inum /\ a # sys[p].ip
  BY <1>1, PutFacts
<1>3. "drop" \in PutPc
  BY DEF PutPc
<1>4. /\ sys' \in [Process -> CallType] /\ CallsOK' /\ Counted'
      /\ sys'[p].pc = sys[p].pc /\ sys'[p].dp = sys[p].dp /\ sys'[p].ip = sys[p].ip
      /\ sys'[p].puts = sys[p].puts /\ sys'[p].put = "drop"
      /\ \A q \in Process \ {p} : sys'[q] = sys[q]
      /\ cwd' \in [Process -> Inum] /\ file' \in [Process -> InumOrNone] /\ ref' \in [Inum -> Int]
  BY <1>1, <1>3, PutMoves
<1>5. TypesOK /\ LocksOK /\ CopiesOK
  BY DEF IInv
<1> HIDE DEF a
<1>6. IsNode(FreeNode)
  BY DEF IsNode, FreeNode
<1>7. TypesOK'
  BY <1>1, <1>4, <1>5, <1>6 DEF TypesOK
<1>8. ilock[a] = p
  BY <1>2, <1>5 DEF LocksOK
<1>9. /\ ilock'[a] = Nobody /\ ~valid'[a]
      /\ \A j \in Inum \ {a} : ilock'[j] = ilock[j] /\ valid'[j] = valid[j] /\ mem'[j] = mem[j]
  BY <1>1, <1>2, <1>5 DEF TypesOK
<1>10. ASSUME NEW j \in Inum, ilock'[j] = p PROVE j \in MayHold(p)'
  <2>1. j # a /\ ilock[j] = p
    BY <1>9, <1>10, InumFacts
  <2>2. j \in MayHold(p)
    BY <1>5, <2>1, InumFacts DEF LocksOK
  <2> QED
    BY <1>2, <1>4, <2>1, <2>2 DEF MayHold
<1>11. \A j \in Inum \ {a} : Freed(j)' <=> Freed(j)
  BY <1>2, <1>4 DEF Freed
<1>12. CopiesOK'
  <2>1. ASSUME NEW j \in Inum, valid'[j]
        PROVE  ref'[j] > 0 /\ (Freed(j)' \/ (mem'[j] = disk'[j] /\ disk'[j].type # "none"))
    BY <1>1, <1>5, <1>9, <1>11, <2>1 DEF CopiesOK
  <2> QED
    BY <2>1 DEF CopiesOK
<1>13. \A j \in Inum : ilock'[j] # ilock[j] => ilock[j] \in {Nobody, p} /\ ilock'[j] \in {Nobody, p}
  BY <1>8, <1>9
<1>14. ASSUME NEW q \in Process \ {p}, NEW j \in Inum, valid[j], ilock[j] = q
       PROVE  valid'[j]
  BY <1>8, <1>9, <1>14
<1>15. sys'[p].pc \in NodePc => /\ ilock'[sys'[p].ip] = p /\ valid'[sys'[p].ip]
                                /\ Put1(sys'[p].puts) # sys'[p].ip
  BY <1>2, <1>4, <1>9
<1> QED
  BY <1>2, <1>4, <1>7, <1>10, <1>12, <1>13, <1>14, <1>15, PutStep

\* The pointer to a goes.
LEMMA CountDrops ==
  ASSUME InodesAssumption, TypesOK, Counted, NEW p \in Process, NEW a \in Inum,
         \A q \in Process \ {p} : sys'[q] = sys[q], UNCHANGED <<cwd, file>>,
         sys'[p].dp = sys[p].dp, sys'[p].ip = sys[p].ip,
         Put1(sys[p].puts) = a, Put1(sys'[p].puts) = Put2(sys[p].puts), Put2(sys'[p].puts) = 0,
         ref' = [ref EXCEPT ![a] = @ - 1]
  PROVE  Counted'
<1>1. \A q \in Process \ {p} : Pointers(q)' = Pointers(q)
  BY DEF Pointers
<1>2. ASSUME NEW j \in Inum PROVE ref'[j] = ref[j] + (Tally(Pointers(p)', j) - Tally(Pointers(p), j))
  <2> DEFINE x == Is(cwd[p], j)
             y == Is(file[p], j)
             z == Is(sys[p].dp, j)
             v == Is(sys[p].ip, j)
             w == Is(a, j)
             e == Is(Put2(sys[p].puts), j)
             o == Is(0, j)
             s == Tally(Pointers(p), j)
             t == Tally(Pointers(p)', j)
  <2>1. s = x + y + z + v + w + e /\ t = x + y + z + v + e + o
    BY TallyIs
  <2>2. /\ x \in Int /\ y \in Int /\ z \in Int /\ v \in Int /\ w \in Int /\ e \in Int /\ o = 0
    BY IsFacts
  <2>3. ref[j] \in Int /\ ref'[j] = ref[j] - w
    BY DEF TypesOK, Is, One
  <2> HIDE DEF x, y, z, v, w, e, o, s, t
  <2>4. ref'[j] = ref[j] + (t - s)
    BY <2>1, <2>2, <2>3
  <2> QED
    BY <2>4 DEF s, t
<1> QED
  BY <1>1, <1>2, CountMoves

LEMMA DroppedStep ==
  ASSUME InodesAssumption, IInv, NEW p \in Process, NEW s \in {"no", "drop"}, Putting(p, s), Dropped(p),
         UNCHANGED <<disk, ent, cwd, file>>
  PROVE  IInv'
<1> DEFINE a == Put(p)
           r == sys[p].puts
           c == [sys[p] EXCEPT !.puts = Tail(@), !.put = "no"]
<1>1. /\ ref' = [ref EXCEPT ![a] = @ - 1] /\ valid' = [valid EXCEPT ![a] = @ /\ ref[a] > 1]
      /\ mem' = [mem EXCEPT ![a] = IF ref[a] > 1 THEN @ ELSE FreeNode] /\ sys' = [sys EXCEPT ![p] = c]
      /\ ilock' = [j \in Inum |-> IF ilock[j] = p /\ Len(r) > 1 /\ r[2] = j THEN Nobody ELSE ilock[j]]
  BY DEF Dropped
<1>2. /\ sys[p] \in CallType /\ Consistent(sys[p]) /\ sys[p].put = s /\ s # "freed" /\ s # "free"
      /\ a = Put1(r) /\ a \in Inum /\ ref[a] > 0 /\ r \in Puts /\ r # <<>> /\ sys[p].pc \notin DirPc
      /\ sys[p].pc \in NodePc => /\ ilock[sys[p].ip] = p /\ valid[sys[p].ip] /\ sys[p].ip \in Inum
                                 /\ a # sys[p].ip /\ Put2(r) = 0
  BY PutFacts
<1>3. /\ Tail(r) \in Puts /\ Put1(Tail(r)) = Put2(r) /\ Put2(Tail(r)) = 0
      /\ Put2(r) # 0 => Len(r) > 1 /\ r[2] = Put2(r)
      /\ Len(r) > 1 => r[2] = Put2(r)
  BY <1>2, PutsAre
<1>4. TypesOK /\ LocksOK /\ CopiesOK /\ Counted
  BY DEF IInv
<1>5. c \in CallType
  BY <1>2, <1>3 DEF CallType, PutPc
<1>6. /\ c.pc = sys[p].pc /\ c.call = sys[p].call /\ c.new = sys[p].new /\ c.name = sys[p].name
      /\ c.dp = sys[p].dp /\ c.ip = sys[p].ip /\ c.puts = Tail(r) /\ c.put = "no"
  BY <1>2 DEF CallType
<1> HIDE DEF a, c
<1>7. sys' \in [Process -> CallType] /\ sys'[p] = c /\ \A q \in Process \ {p} : sys'[q] = sys[q]
  BY <1>1, <1>4, <1>5 DEF TypesOK
<1>8. Consistent(c)
  BY <1>2, <1>3, <1>6 DEF Consistent
<1>9. CallsOK'
  BY <1>7, <1>8 DEF IInv, CallsOK
<1>10. Counted'
  BY <1>1, <1>2, <1>3, <1>4, <1>6, <1>7, CountDrops
<1>11. IsNode(FreeNode)
  BY DEF IsNode, FreeNode
<1>12. /\ ref' \in [Inum -> Int] /\ valid' \in [Inum -> BOOLEAN] /\ ref'[a] = ref[a] - 1
       /\ mem' = [j \in Inum |-> mem'[j]] /\ \A j \in Inum : IsNode(mem'[j])
       /\ valid'[a] => valid[a] /\ ref[a] > 1 /\ mem'[a] = mem[a]
       /\ \A j \in Inum \ {a} : ref'[j] = ref[j] /\ valid'[j] = valid[j] /\ mem'[j] = mem[j]
  <2>1. /\ ref \in [Inum -> Int] /\ valid \in [Inum -> BOOLEAN] /\ mem = [j \in Inum |-> mem[j]]
        /\ \A j \in Inum : IsNode(mem[j])
    BY <1>4 DEF TypesOK
  <2>2. ref' \in [Inum -> Int] /\ ref'[a] = ref[a] - 1 /\ \A j \in Inum \ {a} : ref'[j] = ref[j]
    BY <1>1, <1>2, <2>1
  <2> DEFINE more == ref[a] > 1
             copy == IF more THEN mem[a] ELSE FreeNode
             stays == valid[a] /\ more
  <2>3. valid' = [valid EXCEPT ![a] = stays] /\ stays \in BOOLEAN
    BY <1>1
  <2>4. mem' = [mem EXCEPT ![a] = copy] /\ IsNode(copy)
    BY <1>1, <1>2, <1>11, <2>1
  <2>5. valid[a] \in BOOLEAN
    BY <1>2, <2>1
  <2> HIDE DEF copy, stays
  <2>6. valid' \in [Inum -> BOOLEAN] /\ valid'[a] = stays /\ \A j \in Inum \ {a} : valid'[j] = valid[j]
    BY <1>2, <2>1, <2>3
  <2>7. /\ mem' = [j \in Inum |-> mem'[j]] /\ mem'[a] = copy /\ \A j \in Inum : IsNode(mem'[j])
        /\ \A j \in Inum \ {a} : mem'[j] = mem[j]
    BY <1>2, <2>1, <2>4
  <2>8. stays => valid[a] /\ ref[a] > 1 /\ copy = mem[a]
    BY DEF stays, copy
  <2> QED
    BY <2>2, <2>6, <2>7, <2>8
<1>13. /\ ilock' \in [Inum -> Process \cup {Nobody}]
       /\ \A j \in Inum : ilock'[j] # ilock[j] => ilock[j] = p /\ ilock'[j] = Nobody
       /\ \A j \in Inum : ilock'[j] = p => ilock[j] = p /\ j # Put2(r)
       /\ \A j \in Inum : ilock[j] = p /\ j # Put2(r) => ilock'[j] = p
  BY <1>1, <1>3, <1>4, InumFacts DEF TypesOK
<1>14. TypesOK'
  BY <1>4, <1>7, <1>12, <1>13 DEF TypesOK
<1>15. ASSUME NEW j \in Inum, ilock'[j] = p PROVE j \in MayHold(p)'
  <2>1. j \in MayHold(p) /\ j # Put2(r)
    BY <1>4, <1>13, <1>15, InumFacts DEF LocksOK
  <2> QED
    BY <1>2, <1>6, <1>7, <2>1 DEF MayHold
<1>16. \A j \in Inum : Freed(j)' <=> Freed(j)
  BY <1>2, <1>6, <1>7 DEF Freed
<1>17. CopiesOK'
  <2>1. ASSUME NEW j \in Inum, valid'[j]
        PROVE  ref'[j] > 0 /\ (Freed(j)' \/ (mem'[j] = disk'[j] /\ disk'[j].type # "none"))
    <3>1. CASE j = a
      <4>1. ref[a] \in Int /\ ref[a] > 1 /\ valid[a] /\ mem'[a] = mem[a] /\ ref'[a] = ref[a] - 1
        BY <1>2, <1>4, <1>12, <2>1, <3>1 DEF TypesOK
      <4>2. ref'[a] > 0
        BY <4>1
      <4> QED
        BY <1>2, <1>4, <1>16, <3>1, <4>1, <4>2 DEF CopiesOK
    <3>2. CASE j # a
      BY <1>4, <1>12, <1>16, <2>1, <3>2 DEF CopiesOK
    <3> QED
      BY <3>1, <3>2
  <2> QED
    BY <2>1 DEF CopiesOK
<1>18. ASSUME NEW q \in Process \ {p}, NEW j \in Inum, valid[j], j \in {sys[q].dp, sys[q].ip}
       PROVE  valid'[j]
  <2>1. CASE j = a
    <3>1. \E k \in Field : Pointers(q)[k] = a
      BY <1>18, <2>1 DEF Pointers, Field
    <3>2. "put1" \in Field /\ Pointers(p)["put1"] = a
      BY <1>2 DEF Pointers, Field
    <3>3. ref[a] > 1
      BY <1>2, <1>4, <1>18, <3>1, <3>2, PointerCounts
    <3> QED
      BY <1>1, <1>2, <1>4, <1>18, <2>1, <3>3 DEF TypesOK
  <2>2. CASE j # a
    BY <1>12, <1>18, <2>2
  <2> QED
    BY <2>1, <2>2
<1>19. sys'[p].pc \in NodePc => /\ ilock'[sys'[p].ip] = p /\ valid'[sys'[p].ip]
                                /\ Put1(sys'[p].puts) # sys'[p].ip
  BY <1>2, <1>3, <1>6, <1>7, <1>12, <1>13, InumFacts
<1>20. sys'[p].pc \notin DirPc /\ sys'[p].put \notin {"free", "freed"}
  BY <1>2, <1>6, <1>7
<1>21. \A j \in Inum : ilock'[j] # ilock[j] => ilock[j] \in {Nobody, p} /\ ilock'[j] \in {Nobody, p}
  BY <1>13
<1> QED
  BY <1>7, <1>9, <1>10, <1>14, <1>15, <1>17, <1>18, <1>19, <1>20, <1>21, PutStep

-----------------------------------------------------------------------------

LEMMA InodesInitIInv ==
  ASSUME InodesAssumption, InodesInit
  PROVE  IInv
<1>1. /\ ROOTINO \in Inum /\ 0 \notin Inum /\ IsFiniteSet(Process) /\ Nobody \notin Process
      /\ Cardinality(Process) \in Nat
  BY InumFacts, FS_CardinalityType
<1>2. Idle \in CallType /\ Consistent(Idle) /\ Idle.pc = "idle" /\ Idle.dp = 0 /\ Idle.ip = 0
      /\ Idle.puts = <<>> /\ Idle.put = "no"
  <2>1. [Idle EXCEPT !.puts = <<>>] = Idle
    BY DEF Idle
  <2>2. <<>> \in Puts
    BY DEF Puts
  <2>3. Idle.dp = 0 /\ Idle.ip = 0 /\ Idle.pc = "idle" /\ Idle.put = "no" /\ Idle.puts = <<>>
    BY DEF Idle
  <2> HIDE DEF Idle
  <2> QED
    BY <2>1, <2>2, <2>3, IdleIs
<1>3. TypesOK
  <2> DEFINE root == [type |-> "dir", nlink |-> 1, addrs |-> {1}]
             e == [NoEntries EXCEPT ![".."] = ROOTINO]
  <2>1. IsNode(root) /\ IsNode(FreeNode)
    BY DEF IsNode, FreeNode
  <2>2. disk = [i \in Inum |-> IF i = ROOTINO THEN root ELSE FreeNode] /\ mem = [i \in Inum |-> FreeNode]
    BY DEF InodesInit
  <2> HIDE DEF root
  <2>3. /\ disk = [i \in Inum |-> disk[i]] /\ mem = [i \in Inum |-> mem[i]]
        /\ \A i \in Inum : IsNode(disk[i]) /\ IsNode(mem[i])
    BY <2>1, <2>2
  <2>4. NoEntries \in [Name \cup {".."} -> InumOrNone] /\ e \in [Name \cup {".."} -> InumOrNone]
    BY <1>1 DEF NoEntries, InumOrNone
  <2>5. ent = [i \in Inum |-> IF i = ROOTINO THEN e ELSE NoEntries]
    BY DEF InodesInit
  <2> HIDE DEF e
  <2>6. ent \in [Inum -> [Name \cup {".."} -> InumOrNone]]
    BY <2>4, <2>5
  <2>7. /\ ref \in [Inum -> Int] /\ valid \in [Inum -> BOOLEAN] /\ ilock \in [Inum -> Process \cup {Nobody}]
        /\ cwd \in [Process -> Inum] /\ file \in [Process -> InumOrNone] /\ sys \in [Process -> CallType]
    BY <1>1, <1>2 DEF InodesInit, InumOrNone
  <2> QED
    BY <2>3, <2>6, <2>7 DEF TypesOK
<1>4. /\ \A p \in Process : sys[p] = Idle /\ cwd[p] = ROOTINO /\ file[p] = 0
      /\ \A i \in Inum : ilock[i] = Nobody /\ ~valid[i] /\ ref[i] = IF i = ROOTINO THEN Cardinality(Process) ELSE 0
  BY DEF InodesInit
<1>5. Put1(<<>>) = 0 /\ Put2(<<>>) = 0
  BY <1>1, NewPuts
<1>6. CallsOK
  BY <1>2, <1>4 DEF CallsOK
<1>7. LocksOK
  BY <1>2, <1>4 DEF LocksOK, DirPc, NodePc
<1>8. CopiesOK
  BY <1>4 DEF CopiesOK
<1>9. Counted
  <2> DEFINE f == [p \in Process |-> <<p, "cwd", ROOTINO>>]
  <2>1. ASSUME NEW i \in Inum, NEW u
        PROVE  u \in To(i) <=> i = ROOTINO /\ \E p \in Process : u = <<p, "cwd", ROOTINO>>
    <3>1. u \in To(i) <=> \E p \in Process : \E k \in Field : u = <<p, k, i>> /\ Pointers(p)[k] = i
      BY UsesAre
    <3>2. ASSUME NEW p \in Process
          PROVE  /\ Pointers(p)["cwd"] = ROOTINO /\ Pointers(p)["file"] = 0 /\ Pointers(p)["dp"] = 0
                 /\ Pointers(p)["ip"] = 0 /\ Pointers(p)["put1"] = 0 /\ Pointers(p)["put2"] = 0
      BY <1>2, <1>4, <1>5 DEF Pointers
    <3> QED
      BY <1>1, <3>1, <3>2 DEF Field
  <2>2. ASSUME NEW i \in Inum, i # ROOTINO PROVE ref[i] = Cardinality(To(i))
    <3>1. To(i) = {}
      BY <2>1, <2>2
    <3> QED
      BY <1>4, <2>2, <3>1, FS_EmptySet
  <2>3. ref[ROOTINO] = Cardinality(To(ROOTINO))
    <3>1. f \in Bijection(Process, To(ROOTINO))
      <4>1. \A u : u \in To(ROOTINO) <=> \E p \in Process : u = f[p]
        BY <1>1, <2>1
      <4>2. f \in [Process -> To(ROOTINO)] /\ \A p, q \in Process : f[p] = f[q] => p = q
        BY <4>1
      <4> HIDE DEF f
      <4>3. f \in Injection(Process, To(ROOTINO))
        BY <4>2 DEF Injection, IsInjective
      <4>4. f \in Surjection(Process, To(ROOTINO))
        BY <4>1, <4>2 DEF Surjection
      <4> QED
        BY <4>3, <4>4 DEF Bijection
    <3>2. Cardinality(To(ROOTINO)) = Cardinality(Process)
      BY <1>1, <3>1, FS_Bijection DEF ExistsBijection
    <3> QED
      BY <1>1, <1>4, <3>2
  <2> QED
    BY <2>2, <2>3 DEF Counted
<1> QED
  BY <1>3, <1>6, <1>7, <1>8, <1>9 DEF IInv

LEMMA InodesNextIInv ==
  ASSUME InodesAssumption, IInv, [InodesNext]_inodeVars
  PROVE  IInv'
<1>1. CASE UNCHANGED inodeVars
  BY <1>1, SameStep DEF inodeVars, fs, itable
<1>2. ASSUME NEW p \in Process, Panic(p) PROVE IInv'
  BY <1>2, SameStep DEF Panic, fs, itable
<1>3. ASSUME NEW p \in Process, IputDrops(p) PROVE IInv'
  BY <1>3, DroppedStep DEF IputDrops, fs
<1>4. ASSUME NEW p \in Process, IputLast(p) PROVE IInv'
  BY <1>4, DroppedStep DEF IputLast, fs
<1> QED
  BY <1>1, <1>2, <1>3, <1>4, BeginStep, WalkOnStep, WalkFailsStep, WalkParentStep, OpenStep, ChdirStep,
     LinkOldStep, LinkNewStep, LinkBadStep, UnlinkStep, UnlinkChildStep, UnlinkedStep, CreateStep,
     CreateExistsStep, CreateNewStep, CreateFailsStep, CreateOpensStep, WriteStep, CloseStep,
     IputLocksStep, IputFreesStep, IputInvalidatesStep DEF InodesNext

\* Who has i locked has a pointer to it.
LEMMA HoldersPoint ==
  ASSUME InodesAssumption, IInv, NEW i \in Inum, ilock[i] # Nobody
  PROVE  /\ ilock[i] \in Process /\ i \in MayHold(ilock[i])
         /\ \E k \in Field : Pointers(ilock[i])[k] = i
<1>1. ilock[i] \in Process /\ i \in MayHold(ilock[i])
  BY DEF IInv, LocksOK, TypesOK
<1> QED
  BY <1>1 DEF MayHold, Pointers, Field

LEMMA IInvRefs ==
  ASSUME InodesAssumption, IInv
  PROVE  RefsExact
<1>1. ASSUME NEW i \in Inum PROVE ref[i] = Cardinality({u \in Uses : u[3] = i})
  BY DEF IInv, Counted, To
<1>2. ASSUME NEW i \in Inum, ilock[i] # Nobody PROVE \E u \in Uses : u[1] = ilock[i] /\ u[3] = i
  <2>1. PICK k \in Field : Pointers(ilock[i])[k] = i
    BY <1>2, HoldersPoint
  <2>2. ilock[i] \in Process
    BY <1>2, HoldersPoint
  <2>3. <<ilock[i], k, i>> \in To(i)
    BY <2>1, <2>2, UsesAre
  <2> QED
    BY <2>3 DEF To
<1> QED
  BY <1>1, <1>2 DEF RefsExact

LEMMA IInvTable ==
  ASSUME InodesAssumption, IInv
  PROVE  TableExact
<1>1. ASSUME NEW i \in Inum, valid[i], ilock[i] = Nobody
      PROVE  ref[i] > 0 /\ mem[i] = disk[i] /\ disk[i].type # "none"
  <2>1. ~Freed(i)
    <3>1. SUFFICES ASSUME NEW q \in Process, sys[q].put = "freed", Put1(sys[q].puts) = i PROVE FALSE
      BY DEF Freed
    <3>2. ilock[i] = q
      BY <3>1 DEF IInv, LocksOK
    <3> QED
      BY <1>1, <3>2, InumFacts
  <2> QED
    BY <1>1, <2>1 DEF IInv, CopiesOK
<1>2. ASSUME NEW p \in Process, Putting(p, "no"), LastReference(Put(p)), ilock[Put(p)] # Nobody
      PROVE  FALSE
  <2> DEFINE a == Put(p)
             q == ilock[a]
  <2>1. /\ Consistent(sys[p]) /\ sys[p].put = "no" /\ a = Put1(sys[p].puts) /\ a \in Inum
        /\ sys[p].puts # <<>> /\ sys[p].pc \notin DirPc
        /\ sys[p].pc \in NodePc => a # sys[p].ip
    BY <1>2, PutFacts
  <2>2. "put1" \in Field /\ Pointers(p)["put1"] = a
    BY <2>1 DEF Pointers, Field
  <2>3. q \in Process /\ a \in MayHold(q) /\ \E k \in Field : Pointers(q)[k] = a
    BY <1>2, <2>1, HoldersPoint
  <2>4. \E k \in Field : Pointers(q)[k] = a /\ (q # p \/ k # "put1")
    <3>1. CASE q # p
      BY <2>3, <3>1
    <3>2. CASE q = p
      <4>1. a = Put2(sys[p].puts)
        BY <2>1, <2>3, <3>2 DEF MayHold
      <4>2. Pointers(p)["put2"] = a /\ "put2" \in Field
        BY <4>1 DEF Pointers, Field
      <4> QED
        BY <3>2, <4>2
    <3> QED
      BY <3>1, <3>2
  <2>5. ref[a] \in Int /\ ref[a] > 1
    BY <2>1, <2>2, <2>3, <2>4, PointerCounts DEF IInv
  <2>6. ref[a] = 1
    BY <1>2 DEF LastReference
  <2> QED
    BY <2>5, <2>6
<1> QED
  BY <1>1, <1>2 DEF TableExact

\* ip->ref counts the pointers to the entry, whoever has an inode locked has a pointer to
\* it, a copy in the table that nobody has locked is the inode on the disk, in use there,
\* and iput() (fs.c:337-362) does not wait for a sleep lock with itable.lock held: with
\* ip->ref = 1 nobody can have it. For every path that is walked, ".." included.
THEOREM TableAlways ==
  ASSUME InodesAssumption
  PROVE  InodesSpec => [](RefsExact /\ TableExact)
<1>1. InodesInit => IInv
  BY InodesInitIInv
<1>2. IInv /\ [InodesNext]_inodeVars => IInv'
  BY InodesNextIInv
<1>3. IInv => RefsExact /\ TableExact
  BY IInvRefs, IInvTable
<1> QED
  BY <1>1, <1>2, <1>3, PTL DEF InodesSpec

-----------------------------------------------------------------------------

\* Links, names and blocks.

\* The pointers of p, but for the one that iput() has freed.
Live(p) ==
  [cwd |-> cwd[p], file |-> file[p], dp |-> sys[p].dp, ip |-> sys[p].ip,
   put1 |-> IF sys[p].put \in {"freed", "drop"} THEN 0 ELSE Put1(sys[p].puts),
   put2 |-> Put2(sys[p].puts)]
\* Nobody points to i, but p at k; create() has i in the making.
Sole(p, k, i) == \A q \in Process : \A l \in Field : Live(q)[l] = i => q = p /\ l = k
IsNew(i) == \E p \in Process : sys[p].pc = "new" /\ sys[p].ip = i

\* What a call knows of the inodes that it has: what it has found under a lock stays true when
\* it has let go of it, whatever the others do.  The name that sys_unlink() is to remove is there,
\* what create() has made is seen by nobody else, what iput() is to free is nobody else's.
CallOf(p) ==
  /\ sys[p].pc = "bad" => sys[p].call = "link"
  /\ sys[p].pc \in {"child", "unlinked"} => sys[p].call = "unlink"
  /\ sys[p].pc \in {"exists", "new", "made"} => sys[p].call \in {"create", "mkdir"}
Downward(p) ==
  /\ \A k \in 1 .. Len(sys[p].path) : sys[p].path[k] # ".."
  /\ \A k \in 1 .. Len(sys[p].new) : sys[p].new[k] # ".."
  /\ sys[p].pc \in {"parent", "child", "new"} => sys[p].name # ".."
Typed(p) ==
  /\ \A k \in Field : Live(p)[k] # 0 => disk[Live(p)[k]].type # "none"
  /\ sys[p].pc \in {"parent", "child", "new"} => disk[sys[p].dp].type = "dir"
  /\ sys[p].call = "link" /\ sys[p].ip # 0 => disk[sys[p].ip].type = "file"
Removes(p) ==
  sys[p].pc = "child" => sys[p].name \in Name /\ ent[sys[p].dp][sys[p].name] = sys[p].ip
Makes(p) ==
  sys[p].pc = "new" =>
    LET i == sys[p].ip IN
    /\ sys[p].name \in Name /\ ent[sys[p].dp][sys[p].name] = 0
    /\ disk[i].nlink = 0 /\ disk[i].addrs = {} /\ \A n \in Name : ent[i][n] = 0
    /\ disk[i].type = "dir" <=> sys[p].call = "mkdir"
    /\ Sole(p, "ip", i)
Frees(p) ==
  LET i == Put1(sys[p].puts) IN
  /\ sys[p].put = "free" => valid[i] /\ disk[i].nlink = 0 /\ Sole(p, "put1", i)
  /\ sys[p].put = "freed" => disk[i].type = "none" \/ IsNew(i)
Local(p) ==
  CallOf(p) /\ Downward(p) /\ Typed(p) /\ Removes(p) /\ Makes(p) /\ Frees(p)

\* What the disk says.
NodesOK ==
  \A i \in Inum :
    /\ disk[i].type \in {"none", "file", "dir"} /\ disk[i].nlink \in Int /\ disk[i].addrs \subseteq Block
    /\ disk[i].type = "none" => disk[i].nlink = 0 /\ disk[i].addrs = {}
    /\ \A n \in Name : ent[i][n] # 0 => disk[i].type = "dir" /\ disk[ent[i][n]].type # "none"
\* Each block in use has one inode.
BlocksOK ==
  /\ used = UNION {disk[i].addrs : i \in Inum}
  /\ \A i, j \in Inum : i # j => disk[i].addrs \cap disk[j].addrs = {}
\* The links that LinksExact counts.  An inode that is lost has too many, never too few.
Count(i) ==
  Cardinality(Named(i)) + Cardinality(Below(i)) + Cardinality(Counting(i))
  + (IF i = ROOTINO THEN 1 ELSE 0)
LinksOK ==
  \A i \in Inum : disk[i].nlink >= Count(i) /\ (i \notin lost => disk[i].nlink = Count(i))
\* An inode without a link is in the table, so that the last iput() finds it.
UnusedOK ==
  \A i \in Inum :
    disk[i].type # "none" /\ disk[i].nlink = 0 /\ i \notin lost => valid[i] \/ IsNew(i)
LInv ==
  /\ ~panicked /\ \A p \in Process : Local(p)
  /\ NodesOK /\ BlocksOK /\ LinksOK /\ UnusedOK

\* What a step of p may do: it takes pointers to inodes that have a name, it changes the
\* inodes that it has locked, and it lets one go in the making only if nobody has it locked.
Gains(p) ==
  \A k \in Field : LET j == Live(p)'[k] IN
    \/ j \in {0, ROOTINO} \/ \E l \in Field : Live(p)[l] = j
    \/ \E d \in Inum : \E n \in Name : ent[d][n] = j
    \/ disk[j].type = "none"
Writes(p, j) ==
  \/ disk[j].type = "none" /\ sys'[p].pc = "new" /\ sys'[p].ip = j /\ ent'[j] = ent[j]
  \/ /\ ilock[j] \in {Nobody, p} /\ \E k \in Field : Live(p)[k] = j
     /\ disk'[j].type = disk[j].type \/ (sys[p].put = "free" /\ Put1(sys[p].puts) = j)
StepOf(p) ==
  /\ \A q \in Process \ {p} : sys'[q] = sys[q] /\ cwd'[q] = cwd[q] /\ file'[q] = file[q]
  /\ Gains(p)
  /\ \A j \in Inum : disk'[j] # disk[j] \/ ent'[j] # ent[j] => Writes(p, j)
  /\ sys[p].pc = "new" =>
       ilock[sys[p].ip] = Nobody \/ (sys'[p].pc = "new" /\ sys'[p].ip = sys[p].ip)
  /\ \A j \in Inum : valid[j] /\ ~valid'[j] =>
       ilock[j] = p \/ (ref[j] <= 1 /\ Put1(sys[p].puts) = j)

-----------------------------------------------------------------------------

\* What Live(p) consists of.
LEMMA LiveAre ==
  ASSUME InodesAssumption, TypesOK, NEW p \in Process
  PROVE  /\ \A k \in Field : Live(p)[k] \in InumOrNone
         /\ \A k \in Field : Live(p)[k] # 0 => Pointers(p)[k] = Live(p)[k]
         /\ Live(p)["cwd"] = cwd[p] /\ Live(p)["file"] = file[p]
         /\ Live(p)["dp"] = sys[p].dp /\ Live(p)["ip"] = sys[p].ip
         /\ Live(p)["put2"] = Put2(sys[p].puts)
         /\ sys[p].put \in {"no", "free"} => Live(p)["put1"] = Put1(sys[p].puts)
         /\ sys[p].put \in {"freed", "drop"} => Live(p)["put1"] = 0
         /\ {"cwd", "file", "dp", "ip", "put1", "put2"} = Field
<1>1. sys[p] \in CallType /\ cwd[p] \in InumOrNone /\ file[p] \in InumOrNone
  BY DEF TypesOK, InumOrNone
<1>2. sys[p].dp \in InumOrNone /\ sys[p].ip \in InumOrNone /\ sys[p].puts \in Puts /\ 0 \in InumOrNone
  BY <1>1 DEF CallType, InumOrNone
<1>3. Put1(sys[p].puts) \in InumOrNone /\ Put2(sys[p].puts) \in InumOrNone
  BY <1>2, PutsAre DEF InumOrNone
<1> QED
  BY <1>1, <1>2, <1>3 DEF Live, Pointers, Field

\* An inode without a link has no name, and is not the root.
LEMMA NoName ==
  ASSUME InodesAssumption, IInv, LInv, NEW i \in Inum, disk[i].nlink = 0
  PROVE  i # ROOTINO /\ \A d \in Inum : \A n \in Name : ent[d][n] # i
<1>1. IsFiniteSet(Inum) /\ IsFiniteSet(Name) /\ IsFiniteSet(Process) /\ 0 \notin Inum
  BY InumFacts DEF InodesAssumption
<1>2. IsFiniteSet(Inum \X Name)
  BY <1>1, FS_Product
<1>3. IsFiniteSet(Named(i)) /\ IsFiniteSet(Below(i)) /\ IsFiniteSet(Counting(i))
  BY <1>1, <1>2, FS_Subset DEF Named, Below, Counting
<1>4. Cardinality(Named(i)) \in Nat /\ Cardinality(Below(i)) \in Nat /\ Cardinality(Counting(i)) \in Nat
  BY <1>3, FS_CardinalityType
<1>5. Count(i) <= 0
  BY DEF LInv, LinksOK, NodesOK
<1>6. i # ROOTINO /\ Cardinality(Named(i)) = 0
  BY <1>4, <1>5 DEF Count
<1>7. Named(i) = {}
  BY <1>3, <1>6, FS_EmptySet
<1>8. ASSUME NEW d \in Inum, NEW n \in Name, ent[d][n] = i PROVE FALSE
  <2>1. disk[d].type = "dir"
    BY <1>1, <1>8 DEF LInv, NodesOK
  <2>2. <<d, n>> \in Named(i)
    BY <1>8, <2>1 DEF Named
  <2> QED
    BY <1>7, <2>2
<1> QED
  BY <1>6, <1>8

\* While only one has a pointer to an inode without a link, nobody else gets one.
LEMMA SoleStays ==
  ASSUME InodesAssumption, IInv, LInv, NEW p \in Process, StepOf(p), NEW q \in Process \ {p},
         NEW k \in Field, NEW i \in Inum, Sole(q, k, i), disk[i].nlink = 0, disk[i].type # "none"
  PROVE  Sole(q, k, i)'
<1>1. SUFFICES ASSUME NEW r \in Process, NEW l \in Field, Live(r)'[l] = i PROVE r = q /\ l = k
  BY DEF Sole
<1>2. CASE r # p
  <2>1. Live(r)' = Live(r)
    BY <1>2 DEF StepOf, Live
  <2> QED
    BY <1>1, <2>1 DEF Sole
<1>3. CASE r = p
  <2>1. i # ROOTINO /\ i # 0 /\ \A d \in Inum : \A n \in Name : ent[d][n] # i
    BY NoName, InumFacts
  <2>2. \E m \in Field : Live(p)[m] = i
    BY <1>1, <1>3, <2>1 DEF StepOf, Gains
  <2> QED
    BY <2>2 DEF Sole
<1> QED
  BY <1>2, <1>3

\* What the other calls know stays true.
LEMMA OthersKeep ==
  ASSUME InodesAssumption, IInv, LInv, NEW p \in Process, StepOf(p), NEW q \in Process \ {p}
  PROVE  Local(q)'
<1>1. /\ sys'[q] = sys[q] /\ cwd'[q] = cwd[q] /\ file'[q] = file[q] /\ Live(q)' = Live(q)
      /\ Local(q) /\ sys[q] \in CallType /\ Consistent(sys[q]) /\ TypesOK
  BY DEF StepOf, Live, LInv, IInv, TypesOK, CallsOK
<1>2. /\ \A k \in Field : Live(q)[k] \in InumOrNone
      /\ Live(q)["dp"] = sys[q].dp /\ Live(q)["ip"] = sys[q].ip /\ {"dp", "ip", "put1"} \subseteq Field
      /\ sys[q].put = "free" => Live(q)["put1"] = Put1(sys[q].puts)
  BY <1>1, LiveAre
<1>3. /\ sys[q].pc \in DirPc => ilock[sys[q].dp] = q /\ sys[q].dp \in Inum
      /\ sys[q].put \in {"free", "freed"} => ilock[Put1(sys[q].puts)] = q /\ Put1(sys[q].puts) \in Inum
  BY HeldAre
<1>4. Nobody \notin Process /\ 0 \notin Inum
  BY InumFacts
<1>5. ASSUME NEW k \in Field, Live(q)[k] # 0
      PROVE  LET j == Live(q)[k] IN
             /\ j \in Inum /\ disk[j].type # "none" /\ disk'[j].type = disk[j].type
             /\ ilock[j] = q => disk'[j] = disk[j] /\ ent'[j] = ent[j]
  <2> DEFINE j == Live(q)[k]
  <2>1. j \in Inum /\ disk[j].type # "none"
    BY <1>1, <1>2, <1>5 DEF Local, Typed, InumOrNone
  <2>2. disk'[j] # disk[j] \/ ent'[j] # ent[j] => ilock[j] \in {Nobody, p}
    BY <2>1 DEF StepOf, Writes
  <2>3. ASSUME disk'[j].type # disk[j].type PROVE FALSE
    <3>1. sys[p].put = "free" /\ Put1(sys[p].puts) = j
      BY <2>1, <2>3 DEF StepOf, Writes
    <3>2. Sole(p, "put1", j)
      BY <3>1 DEF LInv, Local, Frees
    <3> QED
      BY <3>2 DEF Sole
  <2> QED
    BY <1>4, <2>1, <2>2, <2>3
<1>6. CallOf(q)' /\ Downward(q)'
  BY <1>1 DEF Local, CallOf, Downward
<1>7. Typed(q)'
  <2>1. \A k \in Field : Live(q)[k] # 0 => disk'[Live(q)[k]].type = disk[Live(q)[k]].type
    BY <1>5
  <2>2. sys[q].pc \in {"parent", "child", "new"} => sys[q].dp # 0
    BY <1>1, <1>4 DEF Consistent, WalkPc, DirPc
  <2>3. /\ sys[q].pc \in {"parent", "child", "new"} => disk'[sys[q].dp].type = disk[sys[q].dp].type
        /\ sys[q].ip # 0 => disk'[sys[q].ip].type = disk[sys[q].ip].type
    BY <1>2, <2>1, <2>2
  <2> QED
    BY <1>1, <2>1, <2>3 DEF Local, Typed
<1>8. sys[q].pc \in DirPc => disk'[sys[q].dp] = disk[sys[q].dp] /\ ent'[sys[q].dp] = ent[sys[q].dp]
  BY <1>2, <1>3, <1>4, <1>5
<1>9. Removes(q)'
  BY <1>1, <1>8 DEF Local, Removes, DirPc
<1>10. Makes(q)'
  <2>0. PICK i : i = sys[q].ip
    OBVIOUS
  <2>1. SUFFICES ASSUME sys[q].pc = "new"
                 PROVE  /\ disk'[i] = disk[i] /\ ent'[i] = ent[i] /\ Sole(q, "ip", i)'
                        /\ ent'[sys[q].dp] = ent[sys[q].dp]
    BY <1>1, <2>0 DEF Local, Makes, Sole
  <2>2. Sole(q, "ip", i) /\ disk[i].nlink = 0
    BY <1>1, <2>0, <2>1 DEF Local, Makes
  <2>3. i \in Inum /\ disk[i].type # "none"
    <3>1. i # 0
      BY <1>1, <2>0, <2>1 DEF Consistent, DirPc
    <3> QED
      BY <1>2, <1>5, <2>0, <3>1
  <2>4. \A k \in Field : Live(p)[k] # i
    BY <2>2 DEF Sole
  <2>5. disk'[i] = disk[i] /\ ent'[i] = ent[i]
    BY <2>3, <2>4 DEF StepOf, Writes
  <2> QED
    BY <1>2, <1>8, <2>1, <2>2, <2>3, <2>5, SoleStays DEF DirPc
<1>11. Frees(q)'
  <2>0. PICK i : i = Put1(sys[q].puts)
    OBVIOUS
  <2>1. ASSUME sys[q].put = "free"
        PROVE  valid'[i] /\ disk'[i].nlink = 0 /\ Sole(q, "put1", i)'
    <3>1. i \in Inum /\ ilock[i] = q /\ valid[i] /\ disk[i].nlink = 0 /\ Sole(q, "put1", i)
      BY <1>1, <1>3, <2>0, <2>1 DEF Local, Frees
    <3>2. Live(q)["put1"] = i /\ "put1" \in Field /\ i # 0
      BY <1>2, <1>4, <2>0, <2>1, <3>1
    <3>3. disk'[i] = disk[i] /\ disk[i].type # "none"
      BY <1>5, <3>1, <3>2
    <3>4. ASSUME ~valid'[i] PROVE FALSE
      <4>1. ref[i] <= 1 /\ Put1(sys[p].puts) = i
        BY <3>1, <3>4 DEF StepOf
      <4>2. Pointers(p)["put1"] = i /\ Pointers(q)["put1"] = i /\ p # q
        BY <2>0, <4>1 DEF Pointers
      <4>3. ref[i] \in Int /\ ref[i] > 1
        BY <3>1, <3>2, <4>2, PointerCounts DEF IInv
      <4> QED
        BY <4>1, <4>3
    <3> QED
      BY <3>1, <3>2, <3>3, <3>4, SoleStays
  <2>2. ASSUME sys[q].put = "freed"
        PROVE  disk'[i].type = "none" \/ IsNew(i)'
    <3>1. i \in Inum /\ ilock[i] = q /\ (disk[i].type = "none" \/ IsNew(i))
      BY <1>1, <1>3, <2>0, <2>2 DEF Local, Frees
    <3>2. CASE IsNew(i)
      <4>1. PICK r \in Process : sys[r].pc = "new" /\ sys[r].ip = i
        BY <3>2 DEF IsNew
      <4>2. sys'[r].pc = "new" /\ sys'[r].ip = i
        BY <1>4, <3>1, <4>1 DEF StepOf
      <4> QED
        BY <4>2 DEF IsNew
    <3>3. CASE disk[i].type = "none"
      <4>1. disk'[i] = disk[i] \/ Writes(p, i)
        BY <3>1 DEF StepOf
      <4>2. Writes(p, i) => IsNew(i)'
        BY <1>4, <3>1 DEF Writes, IsNew
      <4> QED
        BY <3>3, <4>1, <4>2
    <3> QED
      BY <3>1, <3>2, <3>3
  <2> QED
    BY <1>1, <2>0, <2>1, <2>2 DEF Frees, Sole
<1> QED
  BY <1>6, <1>7, <1>9, <1>10, <1>11 DEF Local

-----------------------------------------------------------------------------

\* The inode of which p counts a link that no name has, if it does.
Pending(p) ==
  IF sys[p].pc = "unlinked" \/ (sys[p].call = "link" /\ sys[p].pc # "idle") THEN sys[p].ip ELSE 0

\* Each process counts at most one link that no name has.
LEMMA CountingIs ==
  ASSUME InodesAssumption, NEW i \in Inum
  PROVE  /\ Counting(i) = {q \in Process : Pending(q) = i}
         /\ Counting(i)' = {q \in Process : Pending(q)' = i}
<1>1. i # 0
  BY InumFacts
<1>2. Counting(i) = {q \in Process : Pending(q) = i}
  BY <1>1 DEF Counting, Pending
<1>3. Counting(i)' = {q \in Process : Pending(q)' = i}
  BY <1>1 DEF Counting, Pending
<1> QED
  BY <1>2, <1>3

\* A step of p leaves alone what the others count.
LEMMA PendingStays ==
  ASSUME NEW p \in Process, StepOf(p)
  PROVE  \A q \in Process \ {p} : Pending(q)' = Pending(q)
BY DEF StepOf, Pending

\* A step of p that leaves the disk alone.
LEMMA StaticStep ==
  ASSUME InodesAssumption, IInv, LInv, NEW p \in Process, StepOf(p), Local(p)', UNCHANGED fs,
         lost \subseteq lost', ~panicked', Pending(p)' = Pending(p), sys[p].pc # "new",
         \A j \in Inum : valid[j] /\ ~valid'[j] =>
           j \in lost' \/ disk[j].type = "none" \/ disk[j].nlink # 0 \/ IsNew(j)'
  PROVE  LInv'
<1>1. UNCHANGED <<disk, ent, used>>
  BY DEF fs
<1>2. \A q \in Process : Local(q)'
  BY OthersKeep
<1>3. NodesOK' /\ BlocksOK'
  BY <1>1 DEF LInv, NodesOK, BlocksOK, Inum, Block
<1>4. LinksOK'
  <2>1. ASSUME NEW i \in Inum PROVE Count(i)' = Count(i)
    <3>1. Named(i)' = Named(i) /\ Below(i)' = Below(i)
      BY <1>1 DEF Named, Below, Inum
    <3>2. \A q \in Process : Pending(q)' = Pending(q)
      BY PendingStays
    <3>3. Counting(i)' = Counting(i)
      BY <3>2, CountingIs
    <3> QED
      BY <3>1, <3>3 DEF Count, ROOTINO
  <2> QED
    BY <1>1, <2>1 DEF LInv, LinksOK, Inum
<1>5. UnusedOK'
  <2>1. SUFFICES ASSUME NEW i \in Inum, disk[i].type # "none", disk[i].nlink = 0, i \notin lost', ~valid'[i]
                 PROVE  IsNew(i)'
    BY <1>1 DEF UnusedOK, Inum
  <2>2. valid[i] => IsNew(i)'
    BY <2>1
  <2>3. ASSUME IsNew(i) PROVE IsNew(i)'
    <3>1. PICK q \in Process : sys[q].pc = "new" /\ sys[q].ip = i
      BY <2>3 DEF IsNew
    <3> QED
      BY <3>1 DEF IsNew, StepOf
  <2> QED
    BY <2>1, <2>2, <2>3 DEF LInv, UnusedOK
<1> QED
  BY <1>2, <1>3, <1>4, <1>5 DEF LInv

\* The pointers that p has come from those it had, from the root or from a name.
Takes(p) ==
  \A k \in Field : LET j == Live(p)'[k] IN
    \/ j \in {0, ROOTINO} \/ \E l \in Field : Live(p)[l] = j
    \/ \E d \in Inum : \E n \in Name : ent[d][n] = j

\* The root is never freed.
LEMMA RootTyped ==
  ASSUME InodesAssumption, IInv, LInv
  PROVE  disk[ROOTINO].type # "none"
<1>1. ROOTINO \in Inum
  BY InumFacts
<1>2. disk[ROOTINO].nlink # 0
  BY <1>1, NoName
<1> QED
  BY <1>1, <1>2 DEF LInv, NodesOK

\* So all the pointers that p has after such a step are to files and directories.
LEMMA TakesTyped ==
  ASSUME InodesAssumption, IInv, LInv, NEW p \in Process, Takes(p),
         \A j \in Inum : disk[j].type # "none" => disk'[j].type # "none"
  PROVE  Gains(p) /\ \A k \in Field : Live(p)'[k] # 0 => disk'[Live(p)'[k]].type # "none"
<1>1. Gains(p)
  BY DEF Takes, Gains
<1>2. ASSUME NEW k \in Field, Live(p)'[k] # 0
      PROVE  disk'[Live(p)'[k]].type # "none"
  <2> DEFINE j == Live(p)'[k]
  <2>1. TypesOK /\ ROOTINO \in Inum
    BY InumFacts DEF IInv
  <2>2. CASE j = ROOTINO
    BY <2>1, <2>2, RootTyped
  <2>3. CASE \E l \in Field : Live(p)[l] = j
    <3>1. j \in Inum
      BY <1>2, <2>1, <2>3, LiveAre DEF InumOrNone
    <3>2. disk[j].type # "none"
      BY <1>2, <2>3 DEF LInv, Local, Typed
    <3> QED
      BY <3>1, <3>2
  <2>4. CASE \E d \in Inum : \E n \in Name : ent[d][n] = j
    <3>1. PICK d \in Inum, n \in Name : ent[d][n] = j
      BY <2>4
    <3>2. j \in Inum
      BY <1>2, <2>1, <3>1 DEF TypesOK, InumOrNone
    <3>3. disk[j].type # "none"
      BY <1>2, <3>1 DEF LInv, NodesOK
    <3> QED
      BY <3>2, <3>3
  <2> QED
    BY <1>2, <2>2, <2>3, <2>4 DEF Takes
<1> QED
  BY <1>1, <1>2

\* Such a step of a call.
LEMMA CallStatic ==
  ASSUME InodesAssumption, IInv, LInv, NEW p \in Process, UNCHANGED <<fs, lost, panicked>>,
         \A q \in Process \ {p} : sys'[q] = sys[q] /\ cwd'[q] = cwd[q] /\ file'[q] = file[q],
         \A j \in Inum : valid[j] => valid'[j], sys[p].pc # "new", Pending(p)' = Pending(p), Takes(p),
         CallOf(p)', Downward(p)', Removes(p)', sys'[p].pc # "new", sys'[p].put = "no",
         sys'[p].pc \in {"parent", "child"} => disk[sys'[p].dp].type = "dir",
         sys'[p].call = "link" /\ sys'[p].ip # 0 => disk[sys'[p].ip].type = "file"
  PROVE  LInv'
<1>1. UNCHANGED <<disk, ent, used>>
  BY DEF fs
<1>2. Gains(p) /\ \A k \in Field : Live(p)'[k] # 0 => disk'[Live(p)'[k]].type # "none"
  BY <1>1, TakesTyped
<1>3. StepOf(p)
  BY <1>1, <1>2 DEF StepOf
<1>4. Typed(p)'
  BY <1>1, <1>2 DEF Typed, Field
<1>5. Makes(p)' /\ Frees(p)'
  BY DEF Makes, Frees
<1>6. Local(p)'
  BY <1>4, <1>5 DEF Local
<1>7. ~panicked'
  BY DEF LInv
<1> QED
  BY <1>3, <1>6, <1>7, StaticStep

\* The call is over.
LEMMA IdleLocal ==
  ASSUME NEW p \in Process, NEW q \in Puts, TypesOK, Done(p, q)
  PROVE  /\ CallOf(p)' /\ Downward(p)' /\ Removes(p)' /\ Makes(p)' /\ Frees(p)' /\ Pending(p)' = 0
         /\ sys'[p].pc = "idle" /\ sys'[p].call = "none" /\ sys'[p].put = "no"
         /\ sys'[p].dp = 0 /\ sys'[p].ip = 0 /\ sys'[p].puts = q
         /\ \A r \in Process \ {p} : sys'[r] = sys[r]
<1> DEFINE c == [Idle EXCEPT !.puts = q]
<1>1. c = [pc |-> "idle", call |-> "none", path |-> <<>>, new |-> <<>>, name |-> "none",
           dp |-> 0, ip |-> 0, puts |-> q, put |-> "no"]
  BY DEF Idle
<1>2. sys' = [sys EXCEPT ![p] = c]
  BY DEF Done
<1> HIDE DEF c
<1>3. sys'[p] = c /\ \A r \in Process \ {p} : sys'[r] = sys[r]
  BY <1>2 DEF TypesOK
<1>4. Len(<<>>) = 0
  OBVIOUS
<1>5. Downward(p)'
  BY <1>1, <1>3, <1>4 DEF Downward
<1> QED
  BY <1>1, <1>3, <1>5 DEF CallOf, Removes, Makes, Frees, Pending

\* The end of a call that leaves the disk alone.
LEMMA DoneStatic ==
  ASSUME InodesAssumption, IInv, LInv, NEW p \in Process, NEW l, AtPc(p, l), l # "new",
         NEW q \in Puts, Done(p, q), UNCHANGED <<fs, lost, panicked>>,
         \A r \in Process \ {p} : cwd'[r] = cwd[r] /\ file'[r] = file[r],
         \A j \in Inum : valid[j] => valid'[j], Pending(p) = 0,
         \A j \in {cwd'[p], file'[p], Put1(q), Put2(q)} :
           j \in {0, cwd[p], file[p], sys[p].dp, sys[p].ip}
           \/ \E d \in Inum : \E n \in Name : ent[d][n] = j
  PROVE  LInv'
<1>1. TypesOK /\ sys[p].pc = l
  BY DEF IInv, AtPc
<1>2. /\ CallOf(p)' /\ Downward(p)' /\ Removes(p)' /\ Pending(p)' = 0
      /\ sys'[p].pc = "idle" /\ sys'[p].call = "none" /\ sys'[p].put = "no"
      /\ sys'[p].dp = 0 /\ sys'[p].ip = 0 /\ sys'[p].puts = q
      /\ \A r \in Process \ {p} : sys'[r] = sys[r]
  BY <1>1, IdleLocal
<1>3. Takes(p)
  <2>1. \A k \in Field : Live(p)'[k] \in {0, cwd'[p], file'[p], Put1(q), Put2(q)}
    BY <1>2 DEF Live, Field
  <2>2. \A j \in {cwd[p], file[p], sys[p].dp, sys[p].ip} : \E k \in Field : Live(p)[k] = j
    BY <1>1, LiveAre
  <2> QED
    BY <2>1, <2>2 DEF Takes
<1> QED
  BY <1>1, <1>2, <1>3, CallStatic

-----------------------------------------------------------------------------

\* The rest of a path without ".." has none either.
LEMMA TailDown ==
  ASSUME NEW S, NEW s \in Seq(S), s # <<>>, \A k \in 1 .. Len(s) : s[k] # ".."
  PROVE  Head(s) # ".." /\ \A k \in 1 .. Len(Tail(s)) : Tail(s)[k] # ".."
<1>1. Head(s) = s[1] /\ Len(s) \in Nat /\ Len(s) >= 1 /\ Len(Tail(s)) = Len(s) - 1
  OBVIOUS
<1>2. ASSUME NEW k \in 1 .. Len(Tail(s)) PROVE Tail(s)[k] # ".."
  <2>1. Tail(s)[k] = s[k + 1] /\ k + 1 \in 1 .. Len(s)
    BY <1>1
  <2> QED
    BY <2>1
<1> QED
  BY <1>1, <1>2

\* Neither has the part after the "/" (skipelem).
LEMMA RestDown ==
  ASSUME InodesAssumption, PathsGoDown, TypesOK, NEW p \in Process, NEW path \in Path
  PROVE  \A k \in 1 .. Len(Rest(path)) : Rest(path)[k] # ".."
<1>1. path \in Seq(Elem \cup {"/"}) /\ path # <<>>
  BY PathFacts DEF InodesAssumption
<1>2. \A k \in 1 .. Len(path) : path[k] # ".."
  BY DEF PathsGoDown
<1> QED
  BY <1>1, <1>2, TailDown DEF Rest

\* A name that is found is a name in a directory, or the directory itself.
LEMMA LookupNames ==
  ASSUME NEW d \in Inum, NEW n \in Elem, n # ".."
  PROVE  /\ n = "." => Lookup(d, n) = d
         /\ n # "." => n \in Name /\ Lookup(d, n) = ent[d][n]
BY DEF Lookup, Elem

\* ilock() only adds a copy.
LEMMA FetchedKeeps ==
  ASSUME TypesOK, NEW i \in Inum, Fetched(i)
  PROVE  \A j \in Inum : valid[j] => valid'[j]
BY DEF TypesOK, Fetched

\* What a process without a call has in hand.
LEMMA IdleItself ==
  Idle \in CallType /\ Idle.ip = 0 /\ Idle.puts = <<>> /\ Idle.put = "no"
<1>1. [Idle EXCEPT !.puts = <<>>] = Idle
  BY DEF Idle
<1>2. <<>> \in Puts
  BY DEF Puts
<1>3. Idle.ip = 0 /\ Idle.puts = <<>> /\ Idle.put = "no"
  BY DEF Idle
<1>4. Idle \in CallType
  <2>1. [Idle EXCEPT !.puts = <<>>] \in CallType
    BY <1>2, IdleIs
  <2> QED
    BY <1>1, <2>1
<1> QED
  BY <1>3, <1>4

\* The actions that leave the links alone, one by one: namex() and its callers.
LEMMA BeginLinks ==
  ASSUME InodesAssumption, PathsGoDown, IInv, LInv, NEW p \in Process,
         NEW k \in Call, NEW path \in Path, NEW new \in Path, Begin(p, k, path, new)
  PROVE  LInv'
<1> DEFINE s == StartOf(p, path)
           r == Rest(path)
           m == IF k = "link" THEN new ELSE <<>>
           c == [Idle EXCEPT !.pc = "walk", !.call = k, !.path = r, !.new = m, !.dp = s]
<1>1. /\ AtPc(p, "idle") /\ UNCHANGED <<fs, lost, panicked, valid, cwd, file>>
      /\ sys' = [sys EXCEPT ![p] = c]
  BY DEF Begin
<1>2. TypesOK /\ sys[p].pc = "idle" /\ sys[p].ip = 0
  BY <1>1, AtFacts DEF IInv
<1>4. s \in {ROOTINO, cwd[p]}
  BY DEF StartOf
<1>5. /\ \A j \in 1 .. Len(r) : r[j] # ".."
      /\ \A j \in 1 .. Len(m) : m[j] # ".."
  BY <1>2, RestDown DEF PathsGoDown
<1> HIDE DEF s, r, m
<1>3. /\ c.pc = "walk" /\ c.call = k /\ c.path = r /\ c.new = m /\ c.dp = s
      /\ c.ip = 0 /\ c.puts = <<>> /\ c.put = "no"
  BY IdleItself DEF CallType
<1> HIDE DEF c
<1>6. sys'[p] = c /\ \A q \in Process \ {p} : sys'[q] = sys[q]
  BY <1>1, <1>2 DEF TypesOK
<1>7. Put1(<<>>) = 0 /\ Put2(<<>>) = 0
  BY DEF Put1, Put2
<1>8. Takes(p)
  <2>1. \A j \in Field : Live(p)'[j] \in {0, ROOTINO, cwd[p], file[p]}
    BY <1>1, <1>3, <1>4, <1>6, <1>7 DEF Live, Field
  <2>2. \A j \in {cwd[p], file[p]} : \E l \in Field : Live(p)[l] = j
    BY <1>2, LiveAre
  <2> QED
    BY <2>1, <2>2 DEF Takes
<1>9. CallOf(p)' /\ Downward(p)' /\ Removes(p)'
  BY <1>3, <1>5, <1>6 DEF CallOf, Downward, Removes
<1>10. Pending(p)' = 0 /\ Pending(p) = 0
  BY <1>2, <1>3, <1>6 DEF Pending
<1> QED
  BY <1>1, <1>2, <1>3, <1>6, <1>8, <1>9, <1>10, CallStatic

\* namex(): the next directory.
LEMMA WalkOnLinks ==
  ASSUME InodesAssumption, IInv, LInv, NEW p \in Process, WalkOn(p)
  PROVE  LInv'
<1> DEFINE d == sys[p].dp
           n == Head(sys[p].path)
           next == Lookup(d, n)
           c == [sys[p] EXCEPT !.dp = next, !.path = Tail(@), !.puts = <<d>>]
<1>1. /\ AtPc(p, "walk") /\ sys[p].path # <<>> /\ Fetched(d)
      /\ UNCHANGED <<fs, lost, panicked, cwd, file>>
      /\ sys' = [sys EXCEPT ![p] = c]
  BY DEF WalkOn, WalkEnds
<1>2. /\ TypesOK /\ sys[p] \in CallType /\ sys[p].pc = "walk" /\ sys[p].puts = <<>> /\ sys[p].put = "no"
      /\ d \in Inum
  BY <1>1, AtFacts DEF IInv, WalkPc
<1>3. Local(p)
  BY DEF LInv
<1>4. /\ sys[p].path \in Seq(Elem) /\ n \in Elem /\ n # ".."
      /\ \A k \in 1 .. Len(Tail(sys[p].path)) : Tail(sys[p].path)[k] # ".."
  <2>1. sys[p].path \in Seq(Elem)
    BY <1>2 DEF CallType
  <2>2. \A k \in 1 .. Len(sys[p].path) : sys[p].path[k] # ".."
    BY <1>3 DEF Local, Downward
  <2> QED
    BY <1>1, <2>1, <2>2, TailDown, PathStep
<1>5. next = d \/ \E e \in Inum : \E m \in Name : ent[e][m] = next
  BY <1>2, <1>4, LookupNames
<1>6. /\ c.pc = sys[p].pc /\ c.call = sys[p].call /\ c.new = sys[p].new /\ c.name = sys[p].name
      /\ c.ip = sys[p].ip /\ c.dp = next /\ c.puts = <<d>> /\ c.put = sys[p].put
      /\ c.path = Tail(sys[p].path)
  BY <1>2 DEF CallType
<1> HIDE DEF c, next
<1>7. sys'[p] = c /\ \A q \in Process \ {p} : sys'[q] = sys[q]
  BY <1>1, <1>2 DEF TypesOK
<1>8. Put1(<<d>>) = d /\ Put2(<<d>>) = 0
  BY <1>2, NewPuts
<1>9. Takes(p)
  <2>1. \A k \in Field : Live(p)'[k] \in {0, next, d, cwd[p], file[p], sys[p].ip}
    BY <1>1, <1>6, <1>7, <1>8 DEF Live, Field
  <2>2. \A j \in {cwd[p], file[p], d, sys[p].ip} : \E l \in Field : Live(p)[l] = j
    BY <1>2, LiveAre
  <2>3. next = d \/ \E e \in Inum : \E m \in Name : ent[e][m] = next
    BY <1>5
  <2> QED
    BY <2>1, <2>2, <2>3 DEF Takes
<1>10. CallOf(p)' /\ Downward(p)' /\ Removes(p)' /\ Pending(p)' = Pending(p)
  BY <1>2, <1>3, <1>4, <1>6, <1>7 DEF CallOf, Downward, Removes, Pending, Local
<1>11. sys'[p].call = "link" /\ sys'[p].ip # 0 => disk[sys'[p].ip].type = "file"
  BY <1>3, <1>6, <1>7 DEF Local, Typed
<1>12. \A j \in Inum : valid[j] => valid'[j]
  BY <1>1, <1>2, FetchedKeeps
<1> QED
  BY <1>1, <1>2, <1>6, <1>7, <1>9, <1>10, <1>11, <1>12, CallStatic

\* namex(): no such name, or no directory.
LEMMA WalkFailsLinks ==
  ASSUME InodesAssumption, IInv, LInv, NEW p \in Process, WalkFails(p)
  PROVE  LInv'
<1> DEFINE d == sys[p].dp
           c == [sys[p] EXCEPT !.pc = "bad", !.path = <<>>, !.dp = 0, !.puts = <<d>>]
<1>1. AtPc(p, "walk") /\ UNCHANGED <<fs, lost, panicked, cwd, file>> /\ NotFound(p)
  BY DEF WalkFails
<1>2. /\ TypesOK /\ sys[p] \in CallType /\ Consistent(sys[p]) /\ sys[p].pc = "walk" /\ sys[p].puts = <<>>
      /\ sys[p].put = "no" /\ d \in Inum
  BY <1>1, AtFacts DEF IInv, WalkPc
<1>3. \A j \in Inum : valid[j] => valid'[j]
  BY <1>2, FetchedKeeps DEF WalkFails
<1>4. <<d>> \in Puts /\ Put1(<<d>>) = d /\ Put2(<<d>>) = 0
  BY <1>2, NewPuts
<1>5. CASE sys[p].call = "link" /\ sys[p].ip # 0
  <2>1. sys' = [sys EXCEPT ![p] = c]
    BY <1>1, <1>5 DEF NotFound
  <2>2. /\ c.pc = "bad" /\ c.call = sys[p].call /\ c.new = sys[p].new /\ c.path = <<>>
        /\ c.ip = sys[p].ip /\ c.dp = 0 /\ c.puts = <<d>> /\ c.put = sys[p].put
    BY <1>2 DEF CallType
  <2> HIDE DEF c
  <2>3. sys'[p] = c /\ \A q \in Process \ {p} : sys'[q] = sys[q]
    BY <1>2, <2>1 DEF TypesOK
  <2>4. Takes(p)
    <3>1. \A k \in Field : Live(p)'[k] \in {0, d, cwd[p], file[p], sys[p].ip}
      BY <1>1, <1>4, <2>2, <2>3 DEF Live, Field
    <3>2. \A j \in {cwd[p], file[p], d, sys[p].ip} : \E l \in Field : Live(p)[l] = j
      BY <1>2, LiveAre
    <3> QED
      BY <3>1, <3>2 DEF Takes
  <2>5. Local(p)
    BY DEF LInv
  <2>6. Len(<<>>) = 0
    OBVIOUS
  <2>7. CallOf(p)' /\ Downward(p)' /\ Removes(p)' /\ Pending(p)' = Pending(p)
    BY <1>2, <1>5, <2>2, <2>3, <2>5, <2>6 DEF CallOf, Downward, Removes, Pending, Local
  <2>8. disk[sys'[p].ip].type = "file"
    BY <1>5, <2>2, <2>3, <2>5 DEF Local, Typed
  <2> QED
    BY <1>1, <1>2, <1>3, <2>2, <2>3, <2>4, <2>7, <2>8, CallStatic
<1>6. CASE ~(sys[p].call = "link" /\ sys[p].ip # 0)
  <2>1. Done(p, <<d>>)
    BY <1>1, <1>6 DEF NotFound
  <2>2. Pending(p) = 0
    BY <1>2, <1>6 DEF Pending
  <2>3. \A j \in {cwd'[p], file'[p], Put1(<<d>>), Put2(<<d>>)} : j \in {0, cwd[p], file[p], sys[p].dp, sys[p].ip}
    BY <1>1, <1>4
  <2> QED
    BY <1>1, <1>3, <1>4, <2>1, <2>2, <2>3, DoneStatic
<1> QED
  BY <1>5, <1>6

\* nameiparent().
LEMMA WalkParentLinks ==
  ASSUME InodesAssumption, IInv, LInv, NEW p \in Process, WalkParent(p)
  PROVE  LInv'
<1> DEFINE d == sys[p].dp
           n == Head(sys[p].path)
           c == [sys[p] EXCEPT !.pc = "parent", !.path = <<>>, !.name = n]
<1>1. /\ AtPc(p, "walk") /\ sys[p].path # <<>> /\ WantsParent(p) /\ Fetched(d)
      /\ ilock[d] = Nobody /\ ~Untyped(d) /\ Inode(d).type = "dir"
      /\ UNCHANGED <<fs, lost, panicked, cwd, file>> /\ sys' = [sys EXCEPT ![p] = c]
  <2>1. sys[p].path = <<>> => Len(sys[p].path) # 1
    OBVIOUS
  <2> QED
    BY <2>1 DEF WalkParent, LastElement, Ilock
<1>2. /\ TypesOK /\ sys[p] \in CallType /\ Consistent(sys[p]) /\ sys[p].pc = "walk" /\ sys[p].puts = <<>>
      /\ sys[p].put = "no" /\ d \in Inum
  BY <1>1, AtFacts DEF IInv, WalkPc
<1>3. \A j \in Inum : valid[j] => valid'[j]
  BY <1>1, <1>2, FetchedKeeps
<1>4. disk[d].type = "dir"
  BY <1>1, <1>2, Sees
<1>5. Local(p)
  BY DEF LInv
<1>6. n # ".."
  <2>1. sys[p].path \in Seq(Elem)
    BY <1>2 DEF CallType
  <2>2. \A k \in 1 .. Len(sys[p].path) : sys[p].path[k] # ".."
    BY <1>5 DEF Local, Downward
  <2> QED
    BY <1>1, <2>1, <2>2, TailDown
<1>7. /\ c.pc = "parent" /\ c.call = sys[p].call /\ c.new = sys[p].new /\ c.path = <<>> /\ c.name = n
      /\ c.ip = sys[p].ip /\ c.dp = d /\ c.puts = <<>> /\ c.put = sys[p].put
  BY <1>2 DEF CallType
<1> HIDE DEF c
<1>8. sys'[p] = c /\ \A q \in Process \ {p} : sys'[q] = sys[q]
  BY <1>1, <1>2 DEF TypesOK
<1>9. Takes(p)
  <2>1. Put1(<<>>) = 0 /\ Put2(<<>>) = 0
    BY DEF Put1, Put2
  <2>2. \A k \in Field : Live(p)'[k] \in {0, d, cwd[p], file[p], sys[p].ip}
    BY <1>1, <1>7, <1>8, <2>1 DEF Live, Field
  <2>3. \A j \in {cwd[p], file[p], d, sys[p].ip} : \E l \in Field : Live(p)[l] = j
    BY <1>2, LiveAre
  <2> QED
    BY <2>2, <2>3 DEF Takes
<1>10. CallOf(p)' /\ Downward(p)' /\ Removes(p)' /\ Pending(p)' = Pending(p)
  <2>1. Len(<<>>) = 0
    OBVIOUS
  <2> QED
    BY <1>2, <1>5, <1>6, <1>7, <1>8, <2>1 DEF CallOf, Downward, Removes, Pending, Local
<1>11. sys'[p].call = "link" /\ sys'[p].ip # 0 => disk[sys'[p].ip].type = "file"
  BY <1>5, <1>7, <1>8 DEF Local, Typed
<1> QED
  BY <1>1, <1>2, <1>3, <1>4, <1>7, <1>8, <1>9, <1>10, <1>11, CallStatic

\* sys_chdir().
LEMMA ChdirLinks ==
  ASSUME InodesAssumption, IInv, LInv, NEW p \in Process, Chdir(p)
  PROVE  LInv'
<1> DEFINE i == sys[p].dp
<1>1. /\ AtPc(p, "walk") /\ sys[p].call = "chdir" /\ Fetched(i) /\ UNCHANGED <<fs, lost, panicked, file>>
  BY DEF Chdir, Found
<1>2. TypesOK /\ sys[p].pc = "walk" /\ i \in Inum /\ cwd[p] \in Inum
  BY <1>1, AtFacts DEF IInv, WalkPc
<1>3. /\ \A j \in Inum : valid[j] => valid'[j]
      /\ Pending(p) = 0
  BY <1>1, <1>2, FetchedKeeps DEF Pending
<1>4. /\ <<i>> \in Puts /\ Put1(<<i>>) = i /\ Put2(<<i>>) = 0
      /\ <<cwd[p]>> \in Puts /\ Put1(<<cwd[p]>>) = cwd[p] /\ Put2(<<cwd[p]>>) = 0
  BY <1>2, NewPuts
<1>5. CASE cwd' = [cwd EXCEPT ![p] = i] /\ Done(p, <<cwd[p]>>)
  <2>1. cwd'[p] = i /\ \A q \in Process \ {p} : cwd'[q] = cwd[q]
    BY <1>2, <1>5 DEF TypesOK
  <2>2. \A j \in {cwd'[p], file'[p], Put1(<<cwd[p]>>), Put2(<<cwd[p]>>)} :
          j \in {0, cwd[p], file[p], sys[p].dp, sys[p].ip}
    BY <1>1, <1>4, <2>1
  <2>3. \A q \in Process \ {p} : cwd'[q] = cwd[q] /\ file'[q] = file[q]
    BY <1>1, <2>1
  <2> QED
    BY <1>1, <1>3, <1>4, <1>5, <2>2, <2>3, DoneStatic
<1>6. CASE Done(p, <<i>>) /\ UNCHANGED cwd
  <2>1. \A j \in {cwd'[p], file'[p], Put1(<<i>>), Put2(<<i>>)} : j \in {0, cwd[p], file[p], sys[p].dp, sys[p].ip}
    BY <1>1, <1>4, <1>6
  <2> QED
    BY <1>1, <1>3, <1>4, <1>6, <2>1, DoneStatic
<1> QED
  BY <1>5, <1>6 DEF Chdir

\* A call that is over has opened i, or has it to put.
LEMMA OpensStatic ==
  ASSUME InodesAssumption, IInv, LInv, NEW p \in Process, NEW l, AtPc(p, l), l # "new",
         UNCHANGED <<fs, lost, panicked, cwd>>, \A j \in Inum : valid[j] => valid'[j], Pending(p) = 0,
         NEW i \in Inum, i \in {sys[p].dp, sys[p].ip},
         \/ file' = [file EXCEPT ![p] = i] /\ Done(p, <<>>)
         \/ Done(p, <<i>>) /\ UNCHANGED file
  PROVE  LInv'
<1>1. TypesOK
  BY DEF IInv
<1>2. /\ <<>> \in Puts /\ Put1(<<>>) = 0 /\ Put2(<<>>) = 0
      /\ <<i>> \in Puts /\ Put1(<<i>>) = i /\ Put2(<<i>>) = 0
  BY NewPuts
<1>3. CASE file' = [file EXCEPT ![p] = i] /\ Done(p, <<>>)
  <2>1. file'[p] = i /\ \A q \in Process \ {p} : cwd'[q] = cwd[q] /\ file'[q] = file[q]
    BY <1>1, <1>3 DEF TypesOK
  <2>2. \A j \in {cwd'[p], file'[p], Put1(<<>>), Put2(<<>>)} : j \in {0, cwd[p], file[p], sys[p].dp, sys[p].ip}
    BY <1>2, <2>1
  <2> QED
    BY <1>2, <1>3, <2>1, <2>2, DoneStatic
<1>4. CASE Done(p, <<i>>) /\ UNCHANGED file
  <2>1. \A j \in {cwd'[p], file'[p], Put1(<<i>>), Put2(<<i>>)} : j \in {0, cwd[p], file[p], sys[p].dp, sys[p].ip}
    BY <1>2, <1>4
  <2> QED
    BY <1>2, <1>4, <2>1, DoneStatic
<1> QED
  BY <1>3, <1>4

\* create() finds the name.
LEMMA CreateExistsLinks ==
  ASSUME InodesAssumption, IInv, LInv, NEW p \in Process, CreateExists(p)
  PROVE  LInv'
<1> DEFINE i == sys[p].ip
<1>1. /\ AtPc(p, "exists") /\ Fetched(i) /\ UNCHANGED <<fs, lost, panicked, cwd>>
      /\ \/ file' = [file EXCEPT ![p] = i] /\ Done(p, <<>>)
         \/ Done(p, <<i>>) /\ UNCHANGED file
  BY DEF CreateExists
<1>2. TypesOK /\ sys[p].pc = "exists" /\ i \in Inum /\ Local(p)
  BY <1>1, AtFacts DEF IInv, LInv
<1>3. /\ \A j \in Inum : valid[j] => valid'[j]
      /\ Pending(p) = 0
  BY <1>1, <1>2, FetchedKeeps DEF Pending, Local, CallOf
<1> QED
  BY <1>1, <1>2, <1>3, OpensStatic

\* sys_open() has its new file.
LEMMA CreateOpensLinks ==
  ASSUME InodesAssumption, IInv, LInv, NEW p \in Process, CreateOpens(p)
  PROVE  LInv'
<1> DEFINE i == sys[p].ip
<1>1. /\ AtPc(p, "made") /\ UNCHANGED <<fs, lost, panicked, cwd, valid>>
      /\ \/ file' = [file EXCEPT ![p] = i] /\ Done(p, <<>>)
         \/ Done(p, <<i>>) /\ UNCHANGED file
  BY DEF CreateOpens
<1>2. TypesOK /\ sys[p].pc = "made" /\ i \in Inum /\ Local(p)
  BY <1>1, AtFacts DEF IInv, LInv, NodePc
<1>3. /\ \A j \in Inum : valid[j] => valid'[j]
      /\ Pending(p) = 0
  BY <1>1, <1>2 DEF Pending, Local, CallOf
<1> QED
  BY <1>1, <1>2, <1>3, OpensStatic

\* fileclose().
LEMMA CloseLinks ==
  ASSUME InodesAssumption, IInv, LInv, NEW p \in Process, Close(p)
  PROVE  LInv'
<1> DEFINE i == file[p]
<1>1. /\ AtPc(p, "idle") /\ i # 0 /\ file' = [file EXCEPT ![p] = 0] /\ Done(p, <<i>>)
      /\ UNCHANGED <<fs, valid, cwd, lost, panicked>>
  BY DEF Close, itable
<1>2. TypesOK /\ sys[p].pc = "idle" /\ i \in Inum
  BY <1>1, AtFacts DEF IInv, InumOrNone
<1>3. file'[p] = 0 /\ \A q \in Process \ {p} : cwd'[q] = cwd[q] /\ file'[q] = file[q]
  BY <1>1, <1>2 DEF TypesOK
<1>4. <<i>> \in Puts /\ Put1(<<i>>) = i /\ Put2(<<i>>) = 0
  BY <1>2, NewPuts
<1>5. /\ \A j \in Inum : valid[j] => valid'[j]
      /\ Pending(p) = 0
  BY <1>1, <1>2, AtFacts DEF Pending
<1>6. \A j \in {cwd'[p], file'[p], Put1(<<i>>), Put2(<<i>>)} : j \in {0, cwd[p], file[p], sys[p].dp, sys[p].ip}
  BY <1>1, <1>3, <1>4
<1> QED
  BY <1>1, <1>3, <1>4, <1>5, <1>6, DoneStatic

\* sys_unlink() up to the lock of the inode.
LEMMA UnlinkLinks ==
  ASSUME InodesAssumption, IInv, LInv, NEW p \in Process, Unlink(p)
  PROVE  LInv'
<1> DEFINE d == sys[p].dp
           n == sys[p].name
           i == Lookup(d, n)
           c == [sys[p] EXCEPT !.pc = "child", !.ip = i]
<1>1. /\ AtPc(p, "parent") /\ sys[p].call = "unlink" /\ Fetched(d) /\ UNCHANGED <<fs, lost, panicked, cwd, file>>
      /\ \/ Done(p, <<d>>)
         \/ n \notin {".", ".."} /\ sys' = [sys EXCEPT ![p] = c]
  BY DEF Unlink
<1>2. /\ TypesOK /\ sys[p] \in CallType /\ Consistent(sys[p]) /\ sys[p].pc = "parent" /\ sys[p].puts = <<>>
      /\ sys[p].put = "no" /\ d \in Inum /\ n \in Elem /\ Local(p)
  BY <1>1, AtFacts DEF IInv, LInv, WalkPc
<1>3. /\ \A j \in Inum : valid[j] => valid'[j]
      /\ Pending(p) = 0
  BY <1>1, <1>2, FetchedKeeps DEF Pending
<1>4. CASE Done(p, <<d>>)
  <2>1. <<d>> \in Puts /\ Put1(<<d>>) = d /\ Put2(<<d>>) = 0
    BY <1>2, NewPuts
  <2>2. \A j \in {cwd'[p], file'[p], Put1(<<d>>), Put2(<<d>>)} : j \in {0, cwd[p], file[p], sys[p].dp, sys[p].ip}
    BY <1>1, <2>1
  <2> QED
    BY <1>1, <1>3, <1>4, <2>1, <2>2, DoneStatic
<1>5. CASE n \notin {".", ".."} /\ sys' = [sys EXCEPT ![p] = c]
  <2>1. n \in Name /\ i = ent[d][n]
    BY <1>2, <1>5, LookupNames
  <2>2. /\ c.pc = "child" /\ c.call = "unlink" /\ c.new = sys[p].new /\ c.path = sys[p].path /\ c.name = n
        /\ c.ip = i /\ c.dp = d /\ c.puts = <<>> /\ c.put = "no"
    BY <1>1, <1>2 DEF CallType
  <2> HIDE DEF c, i
  <2>3. sys'[p] = c /\ \A q \in Process \ {p} : sys'[q] = sys[q]
    BY <1>2, <1>5 DEF TypesOK
  <2>4. Takes(p)
    <3>1. Put1(<<>>) = 0 /\ Put2(<<>>) = 0
      BY DEF Put1, Put2
    <3>2. \A k \in Field : Live(p)'[k] \in {0, d, cwd[p], file[p], i}
      BY <1>1, <2>2, <2>3, <3>1 DEF Live, Field
    <3>3. \A j \in {cwd[p], file[p], d} : \E l \in Field : Live(p)[l] = j
      BY <1>2, LiveAre
    <3>4. \E e \in Inum : \E m \in Name : ent[e][m] = i
      BY <1>2, <2>1
    <3> QED
      BY <3>2, <3>3, <3>4 DEF Takes
  <2>5. CallOf(p)' /\ Downward(p)' /\ Pending(p)' = 0
    BY <1>2, <1>5, <2>2, <2>3 DEF CallOf, Downward, Pending, Local
  <2>6. Removes(p)'
    BY <1>1, <2>1, <2>2, <2>3 DEF Removes, fs
  <2>7. disk[d].type = "dir"
    BY <1>2 DEF Local, Typed
  <2> QED
    BY <1>1, <1>2, <1>3, <2>2, <2>3, <2>4, <2>5, <2>6, <2>7, CallStatic
<1> QED
  BY <1>1, <1>4, <1>5

-----------------------------------------------------------------------------

\* What changes on the disk, one part after the other.
LEMMA UnusedMoves ==
  ASSUME LInv, NEW p \in Process, \A q \in Process \ {p} : sys'[q] = sys[q], lost \subseteq lost',
         NEW D \in SUBSET Inum,
         \A j \in D : valid'[j] \/ IsNew(j)' \/ disk'[j].type = "none" \/ j \in lost',
         \A j \in Inum \ D : disk'[j] = disk[j] /\ (valid[j] => valid'[j]),
         sys[p].pc = "new" => sys[p].ip \in D
  PROVE  UnusedOK'
<1>1. SUFFICES ASSUME NEW i \in Inum, disk'[i].type # "none", disk'[i].nlink = 0, i \notin lost', ~valid'[i]
               PROVE  IsNew(i)'
  BY DEF UnusedOK, Inum
<1>2. CASE i \in D
  BY <1>1, <1>2
<1>3. CASE i \notin D
  <2>1. valid[i] \/ IsNew(i)
    BY <1>1, <1>3 DEF LInv, UnusedOK
  <2>2. PICK q \in Process : sys[q].pc = "new" /\ sys[q].ip = i
    BY <1>1, <1>3, <2>1 DEF IsNew
  <2>3. q # p
    BY <1>3, <2>2
  <2> QED
    BY <2>2, <2>3 DEF IsNew
<1> QED
  BY <1>2, <1>3

\* Each inode gets the blocks add[i], which nobody has used.
LEMMA BlocksGrow ==
  ASSUME BlocksOK, NEW add, \A i \in Inum : add[i] \cap used = {},
         \A i, j \in Inum : i # j => add[i] \cap add[j] = {},
         \A i \in Inum : disk'[i].addrs = disk[i].addrs \cup add[i],
         used' = used \cup UNION {add[i] : i \in Inum}
  PROVE  BlocksOK'
<1>1. used' = UNION {disk'[i].addrs : i \in Inum}
  BY DEF BlocksOK
<1>2. \A i \in Inum : disk[i].addrs \subseteq used
  BY DEF BlocksOK
<1>3. ASSUME NEW i \in Inum, NEW j \in Inum, i # j PROVE disk'[i].addrs \cap disk'[j].addrs = {}
  <2>1. disk[i].addrs \cap disk[j].addrs = {}
    BY <1>3 DEF BlocksOK
  <2>2. disk[i].addrs \cap add[j] = {} /\ add[i] \cap disk[j].addrs = {} /\ add[i] \cap add[j] = {}
    BY <1>2, <1>3
  <2> QED
    BY <2>1, <2>2
<1> QED
  BY <1>1, <1>3 DEF BlocksOK, Inum

\* One inode gets blocks, or none.
LEMMA BlocksGrowOne ==
  ASSUME BlocksOK, NEW i \in Inum, NEW S, S \cap used = {}, disk'[i].addrs = disk[i].addrs \cup S,
         \A j \in Inum \ {i} : disk'[j].addrs = disk[j].addrs, used' = used \cup S
  PROVE  BlocksOK'
<1> DEFINE add == [j \in Inum |-> IF j = i THEN S ELSE {}]
<1>1. UNION {add[j] : j \in Inum} = S
  OBVIOUS
<1>2. /\ \A j \in Inum : add[j] \cap used = {} /\ disk'[j].addrs = disk[j].addrs \cup add[j]
      /\ \A j, k \in Inum : j # k => add[j] \cap add[k] = {}
  OBVIOUS
<1> HIDE DEF add
<1> QED
  BY <1>1, <1>2, BlocksGrow

\* Steps on the blocks of inodes: none changes hands, ...
LEMMA BlocksStay ==
  ASSUME BlocksOK, \A j \in Inum : disk'[j].addrs = disk[j].addrs, used' = used
  PROVE  BlocksOK'
BY DEF BlocksOK, Inum

\* ... or itrunc() gives back those of one inode.
LEMMA BlocksFreed ==
  ASSUME BlocksOK, NEW i \in Inum, disk'[i].addrs = {},
         \A j \in Inum \ {i} : disk'[j].addrs = disk[j].addrs, used' = used \ disk[i].addrs
  PROVE  BlocksOK'
<1>1. used' = UNION {disk'[j].addrs : j \in Inum}
  <2>1. ASSUME NEW b PROVE b \in used' <=> \E j \in Inum : b \in disk'[j].addrs
    BY DEF BlocksOK
  <2>2. \A b : b \in UNION {disk'[j].addrs : j \in Inum} <=> \E j \in Inum : b \in disk'[j].addrs
    OBVIOUS
  <2> QED
    BY <2>1, <2>2
<1>2. \A j, k \in Inum : j # k => disk'[j].addrs \cap disk'[k].addrs = {}
  BY DEF BlocksOK
<1> QED
  BY <1>1, <1>2 DEF BlocksOK, Inum

\* An inode whose links nobody can count any more has enough of them.
LEMMA LinksMove ==
  ASSUME LInv, lost \subseteq lost',
         \A i \in Inum : Count(i) \in Int /\ Count(i)' \in Int,
         \A i \in Inum : disk[i].nlink \in Int /\ disk'[i].nlink \in Int,
         \A i \in Inum : disk'[i].nlink - disk[i].nlink = Count(i)' - Count(i)
  PROVE  LinksOK'
<1>1. ASSUME NEW i \in Inum
      PROVE  disk'[i].nlink >= Count(i)' /\ (i \notin lost' => disk'[i].nlink = Count(i)')
  <2>1. disk[i].nlink >= Count(i) /\ (i \notin lost => disk[i].nlink = Count(i))
    BY DEF LInv, LinksOK
  <2> QED
    BY <2>1
<1> QED
  BY <1>1 DEF LinksOK, Inum

\* The links of an inode are finitely many.
LEMMA CountParts ==
  ASSUME InodesAssumption, NEW i \in Inum
  PROVE  /\ IsFiniteSet(Named(i)) /\ IsFiniteSet(Below(i)) /\ IsFiniteSet(Counting(i))
         /\ Cardinality(Named(i)) \in Nat /\ Cardinality(Below(i)) \in Nat /\ Cardinality(Counting(i)) \in Nat
         /\ Count(i) \in Nat
         /\ Cardinality(Named(i)') \in Nat /\ Cardinality(Below(i)') \in Nat /\ Cardinality(Counting(i)') \in Nat
         /\ Count(i)' \in Nat
<1>1. IsFiniteSet(Inum) /\ IsFiniteSet(Name) /\ IsFiniteSet(Process)
  BY InumFacts DEF InodesAssumption
<1>2. IsFiniteSet(Inum \X Name)
  BY <1>1, FS_Product
<1>3. IsFiniteSet(Named(i)) /\ IsFiniteSet(Below(i)) /\ IsFiniteSet(Counting(i))
  BY <1>1, <1>2, FS_Subset DEF Named, Below, Counting
<1>4. IsFiniteSet(Named(i)') /\ IsFiniteSet(Below(i)') /\ IsFiniteSet(Counting(i)')
  BY <1>1, <1>2, FS_Subset DEF Named, Below, Counting, Inum
<1>5. /\ Cardinality(Named(i)) \in Nat /\ Cardinality(Below(i)) \in Nat /\ Cardinality(Counting(i)) \in Nat
      /\ Cardinality(Named(i)') \in Nat /\ Cardinality(Below(i)') \in Nat /\ Cardinality(Counting(i)') \in Nat
  BY <1>3, <1>4, FS_CardinalityType
<1> QED
  BY <1>3, <1>5 DEF Count

\* What p counts is one link of one inode, whatever it was before.
LEMMA CountingMoves ==
  ASSUME InodesAssumption, NEW p \in Process, \A q \in Process \ {p} : sys'[q] = sys[q], NEW i \in Inum
  PROVE  Cardinality(Counting(i)') = Cardinality(Counting(i)) + One(Pending(p)' = i) - One(Pending(p) = i)
<1> DEFINE S == {q \in Process \ {p} : Pending(q) = i}
           a == Pending(p) = i
           b == Pending(p)' = i
<1>1. IsFiniteSet(S) /\ p \notin S
  BY InumFacts, FS_Subset
<1>2. \A q \in Process \ {p} : Pending(q)' = Pending(q)
  BY DEF Pending
<1>3. Counting(i) = S \cup (IF a THEN {p} ELSE {})
  BY CountingIs
<1>4. Counting(i)' = S \cup (IF b THEN {p} ELSE {})
  BY <1>2, CountingIs
<1> HIDE DEF S
<1>5. a \in BOOLEAN /\ b \in BOOLEAN
  OBVIOUS
<1> HIDE DEF a, b
<1>6. Cardinality(Counting(i)) = Cardinality(S) + One(a)
  BY <1>1, <1>3, <1>5, OneMore
<1>7. Cardinality(Counting(i)') = Cardinality(S) + One(b)
  BY <1>1, <1>4, <1>5, OneMore
<1>8. Cardinality(S) \in Nat
  BY <1>1, FS_CardinalityType
<1>9. Cardinality(Counting(i)') = Cardinality(Counting(i)) + One(b) - One(a)
  BY <1>6, <1>7, <1>8 DEF One
<1> QED
  BY <1>9 DEF a, b

\* Typed(p) of the whole disk: no inode in use changes what it is.
KeepType == \A j \in Inum : disk[j].type # "none" => disk'[j].type = disk[j].type

\* The names of i, without a word on where they are.
LEMMA NamedAre ==
  ASSUME InodesAssumption, NodesOK, NEW i \in Inum
  PROVE  Named(i) = {x \in Inum \X Name : ent[x[1]][x[2]] = i}
BY InumFacts DEF NodesOK, Named

\* As long as no entry and no type changes, the names of an inode stay.
LEMMA SameEntries ==
  ASSUME InodesAssumption, TypesOK, NodesOK, NodesOK', KeepType,
         \A d \in Inum : \A n \in Name : ent'[d][n] = ent[d][n], NEW i \in Inum
  PROVE  Named(i)' = Named(i) /\ Below(i)' = Below(i)
<1>1. Named(i) = {x \in Inum \X Name : ent[x[1]][x[2]] = i}
  BY NamedAre
<1>2. Named(i)' = {x \in Inum \X Name : ent'[x[1]][x[2]] = i}
  BY InumFacts DEF NodesOK, Named, Inum
<1>3. ASSUME NEW n \in Name, ent[i][n] # 0
      PROVE  disk'[i].type = disk[i].type /\ disk'[ent[i][n]].type = disk[ent[i][n]].type
  <2>1. ent[i][n] \in Inum
    BY <1>3 DEF TypesOK, InumOrNone
  <2> QED
    BY <1>3, <2>1 DEF NodesOK, KeepType
<1>4. Below(i)' = Below(i)
  BY <1>3 DEF Below
<1> QED
  BY <1>1, <1>2, <1>4

\* Of the inodes only i changes, and its links as p counts one or not.
LEMMA NodeStep ==
  ASSUME InodesAssumption, IInv, IInv', LInv, NEW p \in Process, StepOf(p), Local(p)',
         UNCHANGED <<ent, lost, panicked>>, NEW i \in Inum,
         \A j \in Inum \ {i} : disk'[j] = disk[j] /\ (valid[j] => valid'[j]),
         valid'[i] \/ IsNew(i)', disk[i].type # "none" => disk'[i].type = disk[i].type,
         disk'[i].type \in {"file", "dir"}, disk'[i].addrs \subseteq Block,
         disk'[i].nlink = disk[i].nlink + One(Pending(p)' = i) - One(Pending(p) = i),
         \A j \in Inum \ {i} : Pending(p)' = j <=> Pending(p) = j,
         sys[p].pc = "new" => sys[p].ip = i, BlocksOK'
  PROVE  LInv'
<1>1. \A q \in Process : Local(q)'
  BY OthersKeep
<1>2. TypesOK /\ NodesOK /\ \A q \in Process \ {p} : sys'[q] = sys[q]
  BY DEF IInv, LInv, StepOf
<1>3. KeepType
  BY DEF KeepType
<1>4. \A j \in Inum : disk[j].nlink \in Int /\ disk'[j].nlink \in Int
  BY <1>2 DEF NodesOK, One
<1>5. NodesOK'
  <2>1. ASSUME NEW j \in Inum
        PROVE  /\ disk'[j].type \in {"none", "file", "dir"} /\ disk'[j].addrs \subseteq Block
               /\ disk'[j].type = "none" => disk'[j].nlink = 0 /\ disk'[j].addrs = {}
    BY <1>2 DEF NodesOK
  <2>2. ASSUME NEW j \in Inum, NEW n \in Name, ent[j][n] # 0
        PROVE  disk'[j].type = "dir" /\ disk'[ent[j][n]].type # "none"
    <3>1. ent[j][n] \in Inum
      BY <1>2, <2>2 DEF TypesOK, InumOrNone
    <3>2. disk[j].type = "dir" /\ disk[ent[j][n]].type # "none"
      BY <1>2, <2>2 DEF NodesOK
    <3> QED
      BY <1>3, <3>1, <3>2 DEF KeepType
  <2> QED
    BY <1>4, <2>1, <2>2 DEF NodesOK, Inum, Block
<1>6. UnusedOK'
  <2>1. \A j \in {i} : valid'[j] \/ IsNew(j)' \/ disk'[j].type = "none" \/ j \in lost'
    <3>1. CASE valid'[i]
      BY <3>1
    <3>2. CASE IsNew(i)'
      BY <3>2
    <3> QED
      BY <3>1, <3>2
  <2>2. {i} \in SUBSET Inum /\ (sys[p].pc = "new" => sys[p].ip \in {i}) /\ lost \subseteq lost'
    OBVIOUS
  <2> QED
    BY <1>2, <2>1, <2>2, UnusedMoves
<1>7. LinksOK'
  <2>1. \A j \in Inum : Count(j) \in Int /\ Count(j)' \in Int
    BY CountParts
  <2>2. ASSUME NEW j \in Inum PROVE disk'[j].nlink - disk[j].nlink = Count(j)' - Count(j)
    <3>1. Named(j)' = Named(j) /\ Below(j)' = Below(j)
      BY <1>2, <1>3, <1>5, SameEntries
    <3>2. /\ Cardinality(Named(j)) \in Nat /\ Cardinality(Below(j)) \in Nat
          /\ Cardinality(Counting(j)) \in Nat
      BY CountParts
    <3>3. Cardinality(Counting(j)') = Cardinality(Counting(j)) + One(Pending(p)' = j) - One(Pending(p) = j)
      BY <1>2, CountingMoves
    <3>4. disk'[j].nlink = disk[j].nlink + One(Pending(p)' = j) - One(Pending(p) = j)
      <4>1. CASE j = i
        BY <4>1
      <4>2. CASE j # i
        BY <1>4, <4>2 DEF One
      <4> QED
        BY <4>1, <4>2
    <3> DEFINE a == Cardinality(Named(j))
               b == Cardinality(Below(j))
               c == Cardinality(Counting(j))
               e == IF j = ROOTINO THEN 1 ELSE 0
    <3>5. Count(j) = a + b + c + e
      BY DEF Count
    <3>6. Count(j)' = a + b + Cardinality(Counting(j)') + e
      BY <3>1 DEF Count, ROOTINO
    <3>7. e \in Int /\ One(Pending(p)' = j) \in Int /\ One(Pending(p) = j) \in Int
      BY DEF One
    <3> HIDE DEF a, b, c, e
    <3> QED
      BY <1>4, <3>2, <3>3, <3>4, <3>5, <3>6, <3>7 DEF a, b, c
  <2>3. lost \subseteq lost'
    OBVIOUS
  <2> QED
    BY <1>4, <2>1, <2>2, <2>3, LinksMove
<1> QED
  BY <1>1, <1>5, <1>6, <1>7 DEF LInv

\* Such a step of a call, with inode i in hand.
LEMMA CallNode ==
  ASSUME InodesAssumption, IInv, IInv', LInv, NEW p \in Process, UNCHANGED <<ent, lost, panicked>>,
         \A q \in Process \ {p} : sys'[q] = sys[q] /\ cwd'[q] = cwd[q] /\ file'[q] = file[q],
         NEW i \in Inum, ilock[i] \in {Nobody, p}, \E k \in Field : Live(p)[k] = i, valid'[i],
         \A j \in Inum \ {i} : disk'[j] = disk[j] /\ (valid[j] => valid'[j]),
         disk'[i].type = disk[i].type, disk'[i].addrs \subseteq Block,
         disk'[i].nlink = disk[i].nlink + One(Pending(p)' = i) - One(Pending(p) = i),
         \A j \in Inum \ {i} : Pending(p)' = j <=> Pending(p) = j, BlocksOK',
         Takes(p), CallOf(p)', Downward(p)', Removes(p)', sys'[p].pc # "new", sys'[p].put = "no",
         sys[p].pc = "new" => sys[p].ip = i /\ ilock[i] = Nobody,
         sys'[p].pc \in {"parent", "child"} => disk[sys'[p].dp].type = "dir",
         sys'[p].call = "link" /\ sys'[p].ip # 0 => disk[sys'[p].ip].type = "file"
  PROVE  LInv'
<1>1. disk[i].type # "none" /\ disk[i].type \in {"none", "file", "dir"}
  <2>1. i # 0
    BY InumFacts
  <2>2. PICK k \in Field : Live(p)[k] = i
    OBVIOUS
  <2> QED
    BY <2>1, <2>2 DEF LInv, Local, Typed, NodesOK
<1>2. \A j \in Inum : disk'[j].type = disk[j].type
  OBVIOUS
<1>3. Gains(p) /\ \A k \in Field : Live(p)'[k] # 0 => disk'[Live(p)'[k]].type # "none"
  BY <1>2, TakesTyped
<1>4. StepOf(p)
  <2>1. ASSUME NEW j \in Inum, disk'[j] # disk[j] \/ ent'[j] # ent[j] PROVE Writes(p, j)
    <3>1. j = i
      BY <2>1
    <3> QED
      BY <1>2, <3>1 DEF Writes
  <2>2. \A j \in Inum : valid[j] => valid'[j]
    OBVIOUS
  <2> QED
    BY <1>3, <2>1, <2>2 DEF StepOf
<1>5. Typed(p)'
  <2>0. PICK a, b : a = sys'[p].dp /\ b = sys'[p].ip
    OBVIOUS
  <2>1. TypesOK' /\ sys'[p] \in CallType /\ Consistent(sys'[p])
    BY DEF IInv, TypesOK, CallsOK
  <2>2. sys'[p].pc \in {"parent", "child"} => disk'[a].type = "dir"
    <3>1. sys'[p].pc \in {"parent", "child"} => a \in Inum
      BY <2>0, <2>1 DEF Consistent, WalkPc, DirPc, CallType, InumOrNone
    <3> QED
      BY <1>2, <2>0, <3>1
  <2>3. sys'[p].call = "link" /\ b # 0 => disk'[b].type = "file"
    <3>1. b # 0 => b \in Inum
      BY <2>0, <2>1 DEF CallType, InumOrNone
    <3> QED
      BY <1>2, <2>0, <3>1
  <2> QED
    BY <1>3, <2>0, <2>2, <2>3 DEF Typed
<1>6. Makes(p)' /\ Frees(p)'
  BY DEF Makes, Frees
<1>7. Local(p)'
  BY <1>5, <1>6 DEF Local
<1> QED
  BY <1>1, <1>4, <1>7, NodeStep

\* The end of a call that has changed one inode.
LEMMA DoneNode ==
  ASSUME InodesAssumption, IInv, IInv', LInv, NEW p \in Process, NEW l, AtPc(p, l), NEW q \in Puts, Done(p, q),
         UNCHANGED <<ent, lost, panicked>>,
         \A r \in Process \ {p} : cwd'[r] = cwd[r] /\ file'[r] = file[r],
         NEW i \in Inum, ilock[i] \in {Nobody, p}, i \in {cwd[p], file[p], sys[p].dp, sys[p].ip}, valid'[i],
         \A j \in Inum \ {i} : disk'[j] = disk[j] /\ (valid[j] => valid'[j]),
         disk'[i].type = disk[i].type, disk'[i].addrs \subseteq Block,
         disk'[i].nlink = disk[i].nlink - One(Pending(p) = i), Pending(p) \in {0, i}, BlocksOK',
         l = "new" => sys[p].ip = i /\ ilock[i] = Nobody,
         \A j \in {cwd'[p], file'[p], Put1(q), Put2(q)} : j \in {0, cwd[p], file[p], sys[p].dp, sys[p].ip}
  PROVE  LInv'
<1>1. TypesOK /\ sys[p].pc = l /\ 0 \notin Inum
  BY InumFacts DEF IInv, AtPc
<1>2. /\ CallOf(p)' /\ Downward(p)' /\ Removes(p)' /\ Pending(p)' = 0
      /\ sys'[p].pc = "idle" /\ sys'[p].call = "none" /\ sys'[p].put = "no"
      /\ sys'[p].dp = 0 /\ sys'[p].ip = 0 /\ sys'[p].puts = q
      /\ \A r \in Process \ {p} : sys'[r] = sys[r]
  BY <1>1, IdleLocal
<1>3. \A j \in {cwd[p], file[p], sys[p].dp, sys[p].ip} : \E k \in Field : Live(p)[k] = j
  BY <1>1, LiveAre
<1>4. Takes(p)
  <2>1. \A k \in Field : Live(p)'[k] \in {0, cwd'[p], file'[p], Put1(q), Put2(q)}
    BY <1>2 DEF Live, Field
  <2> QED
    BY <1>3, <2>1 DEF Takes
<1>5. /\ disk'[i].nlink = disk[i].nlink + One(Pending(p)' = i) - One(Pending(p) = i)
      /\ \A j \in Inum \ {i} : Pending(p)' = j <=> Pending(p) = j
  <2>1. disk[i].nlink \in Int
    BY DEF LInv, NodesOK
  <2> QED
    BY <1>1, <1>2, <2>1 DEF One
<1> QED
  BY <1>1, <1>2, <1>3, <1>4, <1>5, CallNode

-----------------------------------------------------------------------------

\* An inode of the type of n, with k links and the blocks S.
With(n, k, S) == [type |-> n.type, nlink |-> k, addrs |-> S]

\* The fields of a node that iupdate() writes.
LEMMA WithParts ==
  ASSUME NEW n, NEW k, NEW S
  PROVE  /\ With(n, k, S).type = n.type /\ With(n, k, S).nlink = k /\ With(n, k, S).addrs = S
         /\ IsNode(With(n, k, S))
BY DEF With, IsNode

\* A node with one field changed.
LEMMA NodeIsWith ==
  ASSUME NEW n, IsNode(n), NEW k, NEW S
  PROVE  /\ [n EXCEPT !.nlink = k] = With(n, k, n.addrs)
         /\ [n EXCEPT !.addrs = S] = With(n, n.nlink, S)
         /\ [n EXCEPT !.nlink = k, !.addrs = S] = With(n, k, S)
<1> DEFINE a == n.type
           b == n.nlink
           c == n.addrs
<1>1. n = [type |-> a, nlink |-> b, addrs |-> c]
  BY DEF IsNode
<1> HIDE DEF a, b, c
<1>2. [n EXCEPT !.nlink = k] = [type |-> a, nlink |-> k, addrs |-> c]
  BY <1>1
<1>3. [n EXCEPT !.addrs = S] = [type |-> a, nlink |-> b, addrs |-> S]
  BY <1>1
<1>4. [n EXCEPT !.nlink = k, !.addrs = S] = [type |-> a, nlink |-> k, addrs |-> S]
  <2>1. [n EXCEPT !.nlink = k, !.addrs = S] = [[n EXCEPT !.nlink = k] EXCEPT !.addrs = S]
    OBVIOUS
  <2>2. [[type |-> a, nlink |-> k, addrs |-> c] EXCEPT !.addrs = S] = [type |-> a, nlink |-> k, addrs |-> S]
    OBVIOUS
  <2> QED
    BY <1>2, <2>1, <2>2
<1> QED
  BY <1>2, <1>3, <1>4 DEF With, a, b, c

\* iupdate() of the one inode that p has locked.
LEMMA NodeUpdate ==
  ASSUME InodesAssumption, IInv, NEW i \in Inum, NEW k, NEW S, Iupdate(Only(i, With(disk[i], k, S)))
  PROVE  /\ disk'[i].nlink = k /\ disk'[i].addrs = S /\ disk'[i].type = disk[i].type
         /\ valid'[i] /\ \A j \in Inum \ {i} : disk'[j] = disk[j] /\ (valid[j] => valid'[j])
<1>1. TypesOK
  BY DEF IInv
<1> DEFINE n == With(disk[i], k, S)
<1>2. n.nlink = k /\ n.addrs = S /\ n.type = disk[i].type
  BY WithParts
<1> HIDE DEF n
<1>3. disk'[i] = n /\ valid'[i] /\ \A j \in Inum \ {i} : disk'[j] = disk[j] /\ valid'[j] = valid[j]
  BY <1>1 DEF Iupdate, Only, TypesOK, n
<1> QED
  BY <1>2, <1>3

\* sys_open(), with O_TRUNC too.
LEMMA OpenLinks ==
  ASSUME InodesAssumption, IInv, IInv', LInv, NEW p \in Process, Open(p)
  PROVE  LInv'
<1> DEFINE i == sys[p].dp
<1>1. /\ AtPc(p, "walk") /\ sys[p].call = "open" /\ ilock[i] = Nobody /\ ~Untyped(i)
      /\ UNCHANGED <<ent, cwd, lost, panicked>>
  BY DEF Open, Found, Ilock
<1>2. TypesOK /\ sys[p].pc = "walk" /\ sys[p].put = "no" /\ i \in Inum
  BY <1>1, AtFacts DEF IInv, WalkPc
<1>3. Pending(p) = 0
  BY <1>1 DEF Pending, AtPc
<1>4. CASE /\ Fetched(i) /\ UNCHANGED <<disk, used>>
           /\ \/ file' = [file EXCEPT ![p] = i] /\ Done(p, <<>>)
              \/ Done(p, <<i>>) /\ UNCHANGED file
  <2>1. \A j \in Inum : valid[j] => valid'[j]
    BY <1>2, <1>4, FetchedKeeps
  <2>2. UNCHANGED <<fs, lost, panicked, cwd>>
    BY <1>1, <1>4 DEF fs
  <2> QED
    BY <1>1, <1>2, <1>3, <1>4, <2>1, <2>2, OpensStatic
<1>5. CASE Itrunc(i, Inode(i)) /\ file' = [file EXCEPT ![p] = i] /\ Done(p, <<>>)
  <2>1. /\ Inode(i) = disk[i] /\ used' = used \ disk[i].addrs
        /\ Iupdate(Only(i, With(disk[i], disk[i].nlink, {})))
    <3>1. Inode(i) = disk[i] /\ IsNode(disk[i])
      BY <1>1, <1>2, Sees
    <3>2. [disk[i] EXCEPT !.addrs = {}] = With(disk[i], disk[i].nlink, {})
      BY <3>1, NodeIsWith
    <3> QED
      BY <1>5, <3>1, <3>2 DEF Itrunc
  <2> DEFINE m == disk'[i]
  <2>2. /\ m.nlink = disk[i].nlink /\ m.addrs = {} /\ m.type = disk[i].type
        /\ valid'[i] /\ \A j \in Inum \ {i} : disk'[j] = disk[j] /\ (valid[j] => valid'[j])
    BY <1>2, <2>1, NodeUpdate
  <2>3. BlocksOK'
    BY <1>2, <2>1, <2>2, BlocksFreed DEF LInv
  <2>4. file'[p] = i /\ \A q \in Process \ {p} : cwd'[q] = cwd[q] /\ file'[q] = file[q]
    BY <1>1, <1>2, <1>5 DEF TypesOK
  <2>5. <<>> \in Puts /\ Put1(<<>>) = 0 /\ Put2(<<>>) = 0
    BY <1>2, NewPuts
  <2>6. \A j \in {cwd'[p], file'[p], Put1(<<>>), Put2(<<>>)} : j \in {0, cwd[p], file[p], sys[p].dp, sys[p].ip}
    BY <1>1, <2>4, <2>5
  <2>7. m.nlink = disk[i].nlink - One(Pending(p) = i) /\ Pending(p) \in {0, i}
    <3>1. disk[i].nlink \in Int /\ i # 0
      BY <1>2, InumFacts DEF LInv, NodesOK
    <3> QED
      BY <1>3, <2>2, <3>1 DEF One
  <2> QED
    BY <1>1, <1>2, <1>5, <2>2, <2>3, <2>4, <2>5, <2>6, <2>7, DoneNode
<1> QED
  BY <1>4, <1>5 DEF Open

\* sys_link() at bad: takes the link back.
LEMMA LinkBadLinks ==
  ASSUME InodesAssumption, IInv, IInv', LInv, NEW p \in Process, LinkBad(p)
  PROVE  LInv'
<1> DEFINE i == sys[p].ip
           k == Inode(i).nlink + (-1)
           n == [Inode(i) EXCEPT !.nlink = k]
<1>1. /\ AtPc(p, "bad") /\ ilock[i] = Nobody /\ ~Untyped(i) /\ Done(p, <<i>>)
      /\ Iupdate(Only(i, n))
      /\ UNCHANGED <<ent, used, cwd, file, lost, panicked>>
  BY DEF LinkBad, Ilock, Links
<1>2. sys[p].pc = "bad" /\ sys[p].put = "no" /\ i \in Inum /\ Local(p)
  BY <1>1, AtFacts DEF LInv
<1> HIDE DEF k
<1>3. /\ disk'[i].nlink = k /\ disk'[i].addrs = disk[i].addrs /\ disk'[i].type = disk[i].type
      /\ valid'[i] /\ \A j \in Inum \ {i} : disk'[j] = disk[j] /\ (valid[j] => valid'[j])
      /\ Inode(i) = disk[i]
  <2>1. Inode(i) = disk[i] /\ IsNode(disk[i])
    BY <1>1, <1>2, Sees
  <2>2. Iupdate(Only(i, With(disk[i], k, disk[i].addrs)))
    BY <1>1, <2>1, NodeIsWith
  <2>3. PICK m : m = k
    OBVIOUS
  <2>4. Iupdate(Only(i, With(disk[i], m, disk[i].addrs)))
    BY <2>2, <2>3
  <2>5. /\ disk'[i].nlink = m /\ disk'[i].addrs = disk[i].addrs /\ disk'[i].type = disk[i].type
        /\ valid'[i] /\ \A j \in Inum \ {i} : disk'[j] = disk[j] /\ (valid[j] => valid'[j])
    BY <1>2, <2>4, NodeUpdate
  <2> QED
    BY <2>1, <2>3, <2>5
<1>4. BlocksOK'
  BY <1>1, <1>2, <1>3, BlocksStay DEF LInv
<1>5. Pending(p) = i
  BY <1>2 DEF Pending, Local, CallOf
<1>6. disk'[i].nlink = disk[i].nlink - One(Pending(p) = i) /\ disk'[i].addrs \subseteq Block
  <2>1. disk[i].nlink \in Int /\ disk[i].addrs \subseteq Block
    BY <1>2 DEF LInv, NodesOK
  <2> QED
    BY <1>3, <1>5, <2>1 DEF One, k
<1>7. <<i>> \in Puts /\ Put1(<<i>>) = i /\ Put2(<<i>>) = 0
  BY <1>2, NewPuts
<1>8. \A j \in {cwd'[p], file'[p], Put1(<<i>>), Put2(<<i>>)} : j \in {0, cwd[p], file[p], sys[p].dp, sys[p].ip}
  BY <1>1, <1>7
<1> QED
  BY <1>1, <1>2, <1>3, <1>4, <1>5, <1>6, <1>7, <1>8, DoneNode

\* sys_unlink() takes the link of the name that it has removed.
LEMMA UnlinkedLinks ==
  ASSUME InodesAssumption, IInv, IInv', LInv, NEW p \in Process, Unlinked(p)
  PROVE  LInv'
<1> DEFINE i == sys[p].ip
           k == Inode(i).nlink + (-1)
           n == [Inode(i) EXCEPT !.nlink = k]
<1>1. /\ AtPc(p, "unlinked") /\ Done(p, <<i>>)
      /\ Iupdate(Only(i, n))
      /\ UNCHANGED <<ent, used, cwd, file, lost, panicked>>
  BY DEF Unlinked, Links
<1>2. sys[p].pc = "unlinked" /\ sys[p].put = "no" /\ i \in Inum /\ "unlinked" \in NodePc
  BY <1>1, AtFacts DEF NodePc
<1>3. ilock[i] = p /\ valid[i] /\ ~Untyped(i)
  BY <1>1, <1>2, HoldsNode DEF Untyped
<1> HIDE DEF k
<1>4. /\ disk'[i].nlink = k /\ disk'[i].addrs = disk[i].addrs /\ disk'[i].type = disk[i].type
      /\ valid'[i] /\ \A j \in Inum \ {i} : disk'[j] = disk[j] /\ (valid[j] => valid'[j])
      /\ Inode(i) = disk[i]
  <2>1. Inode(i) = disk[i] /\ IsNode(disk[i])
    BY <1>2, <1>3, Sees
  <2>2. Iupdate(Only(i, With(disk[i], k, disk[i].addrs)))
    BY <1>1, <2>1, NodeIsWith
  <2>3. PICK m : m = k
    OBVIOUS
  <2>4. Iupdate(Only(i, With(disk[i], m, disk[i].addrs)))
    BY <2>2, <2>3
  <2>5. /\ disk'[i].nlink = m /\ disk'[i].addrs = disk[i].addrs /\ disk'[i].type = disk[i].type
        /\ valid'[i] /\ \A j \in Inum \ {i} : disk'[j] = disk[j] /\ (valid[j] => valid'[j])
    BY <1>2, <2>4, NodeUpdate
  <2> QED
    BY <2>1, <2>3, <2>5
<1>5. BlocksOK'
  BY <1>1, <1>2, <1>4, BlocksStay DEF LInv
<1>6. Pending(p) = i
  BY <1>2 DEF Pending
<1>7. disk'[i].nlink = disk[i].nlink - One(Pending(p) = i) /\ disk'[i].addrs \subseteq Block
  <2>1. disk[i].nlink \in Int /\ disk[i].addrs \subseteq Block
    BY <1>2 DEF LInv, NodesOK
  <2> QED
    BY <1>4, <1>6, <2>1 DEF One, k
<1>8. <<i>> \in Puts /\ Put1(<<i>>) = i /\ Put2(<<i>>) = 0
  BY <1>2, NewPuts
<1>9. \A j \in {cwd'[p], file'[p], Put1(<<i>>), Put2(<<i>>)} : j \in {0, cwd[p], file[p], sys[p].dp, sys[p].ip}
  BY <1>1, <1>8
<1> QED
  BY <1>1, <1>2, <1>3, <1>4, <1>5, <1>6, <1>7, <1>8, <1>9, DoneNode

\* create() at fail: gives the inode back.
LEMMA CreateFailsLinks ==
  ASSUME InodesAssumption, IInv, IInv', LInv, NEW p \in Process, CreateFails(p)
  PROVE  LInv'
<1> DEFINE i == sys[p].ip
           d == sys[p].dp
           own == IF sys[p].call = "mkdir" THEN FreeBlocks ELSE {}
           n == [Inode(i) EXCEPT !.nlink = 0, !.addrs = own]
<1>1. /\ AtPc(p, "new") /\ ilock[i] = Nobody /\ ~Untyped(i) /\ Done(p, <<i, d>>)
      /\ Iupdate(Only(i, n)) /\ used' = used \cup own
      /\ UNCHANGED <<ent, cwd, file, lost, panicked>>
  BY DEF CreateFails, Ilock
<1>2. sys[p].pc = "new" /\ sys[p].put = "no" /\ i \in Inum /\ d \in Inum /\ Local(p)
  BY <1>1, AtFacts DEF LInv, DirPc
<1>3. own \subseteq Block /\ own \cap used = {}
  BY DEF FreeBlocks
<1> HIDE DEF own
<1>4. /\ disk'[i].nlink = 0 /\ disk'[i].addrs = own /\ disk'[i].type = disk[i].type
      /\ valid'[i] /\ \A j \in Inum \ {i} : disk'[j] = disk[j] /\ (valid[j] => valid'[j])
  <2>1. Inode(i) = disk[i] /\ IsNode(disk[i])
    BY <1>1, <1>2, Sees
  <2>2. PICK m, e : m = disk[i] /\ e = [m EXCEPT !.nlink = 0]
    OBVIOUS
  <2>3. With(m, 0, own) = n
    <3>1. n = [e EXCEPT !.addrs = own]
      BY <2>1, <2>2
    <3>2. e = With(m, 0, m.addrs)
      BY <2>1, <2>2, NodeIsWith
    <3>3. IsNode(e) /\ e.type = m.type /\ e.nlink = 0
      BY <3>2, WithParts
    <3>4. [e EXCEPT !.addrs = own] = With(e, e.nlink, own)
      BY <3>3, NodeIsWith
    <3> QED
      BY <3>1, <3>3, <3>4 DEF With
  <2>4. Iupdate(Only(i, With(disk[i], 0, own)))
    BY <1>1, <2>1, <2>2, <2>3
  <2> QED
    BY <1>2, <2>4, NodeUpdate
<1>5. disk[i].nlink = 0 /\ disk[i].addrs = {}
  BY <1>2 DEF Local, Makes
<1>6. BlocksOK'
  BY <1>1, <1>2, <1>3, <1>4, <1>5, BlocksGrowOne DEF LInv
<1>7. Pending(p) = 0
  BY <1>2 DEF Pending, Local, CallOf
<1>8. disk'[i].nlink = disk[i].nlink - One(Pending(p) = i)
  <2>1. i # 0
    BY <1>2, InumFacts
  <2>2. One(Pending(p) = i) = 0
    BY <1>7, <2>1 DEF One
  <2> QED
    BY <1>4, <1>5, <2>2
<1>9. <<i, d>> \in Puts /\ Put1(<<i, d>>) = i /\ Put2(<<i, d>>) = d
  BY <1>2, NewPuts
<1>10. \A j \in {cwd'[p], file'[p], Put1(<<i, d>>), Put2(<<i, d>>)} : j \in {0, cwd[p], file[p], sys[p].dp, sys[p].ip}
  BY <1>1, <1>9
<1> QED
  BY <1>1, <1>2, <1>3, <1>4, <1>6, <1>7, <1>8, <1>9, <1>10, DoneNode

\* filewrite(): a block more, or the disk is full.
LEMMA WriteLinks ==
  ASSUME InodesAssumption, IInv, IInv', LInv, NEW p \in Process, Write(p)
  PROVE  LInv'
<1> DEFINE i == file[p]
           b == First(FreeBlocks)
           S == Inode(i).addrs \cup {b}
<1>1. /\ AtPc(p, "idle") /\ i # 0 /\ ilock[i] = Nobody /\ ~Untyped(i) /\ FreeBlocks # {}
      /\ Iupdate(Only(i, [Inode(i) EXCEPT !.addrs = S])) /\ used' = used \cup {b}
      /\ UNCHANGED <<ent, sys, cwd, file, lost, panicked>>
  BY DEF Write, Ilock
<1>2. TypesOK /\ sys[p].pc = "idle" /\ sys[p].put = "no" /\ i \in Inum /\ sys[p].ip = 0 /\ Local(p)
  BY <1>1, AtFacts DEF InumOrNone, LInv, IInv
<1>3. b \in Block /\ b \notin used
  <2>1. FreeBlocks \in SUBSET Nat
    BY DEF FreeBlocks, Block, InodesAssumption
  <2>2. b \in FreeBlocks
    BY <1>1, <2>1, FirstIs
  <2> QED
    BY <2>2 DEF FreeBlocks
<1> HIDE DEF b
<1>4. Inode(i) = disk[i] /\ IsNode(disk[i])
  BY <1>1, <1>2, Sees
<1>5. Iupdate(Only(i, With(disk[i], disk[i].nlink, S)))
  BY <1>1, <1>4, NodeIsWith
<1>6. S = disk[i].addrs \cup {b}
  BY <1>4
<1> HIDE DEF S
<1>7. /\ disk'[i].nlink = disk[i].nlink /\ disk'[i].addrs = S /\ disk'[i].type = disk[i].type
      /\ valid'[i] /\ \A j \in Inum \ {i} : disk'[j] = disk[j] /\ (valid[j] => valid'[j])
  <2>1. PICK k : k = disk[i].nlink
    OBVIOUS
  <2>2. Iupdate(Only(i, With(disk[i], k, S)))
    BY <1>5, <2>1
  <2> QED
    BY <1>2, <2>1, <2>2, NodeUpdate
<1>8. BlocksOK'
  <2>1. {b} \cap used = {}
    BY <1>3
  <2> QED
    BY <1>1, <1>2, <1>6, <1>7, <2>1, BlocksGrowOne DEF LInv
<1>9. disk[i].nlink \in Int /\ disk[i].addrs \subseteq Block
  BY <1>2 DEF LInv, NodesOK
<1>10. Pending(p)' = Pending(p)
  BY <1>1 DEF Pending
<1>11. /\ disk'[i].nlink = disk[i].nlink + One(Pending(p)' = i) - One(Pending(p) = i)
       /\ disk'[i].addrs \subseteq Block
  BY <1>3, <1>6, <1>7, <1>9, <1>10 DEF One
<1>12. Live(p)["file"] = i /\ "file" \in Field
  BY <1>2, LiveAre
<1>13. Takes(p)
  BY <1>1 DEF Takes, Live
<1>14. CallOf(p)' /\ Downward(p)' /\ Removes(p)'
  BY <1>1, <1>2 DEF CallOf, Downward, Removes, Local
<1> QED
  BY <1>1, <1>2, <1>7, <1>8, <1>10, <1>11, <1>12, <1>13, <1>14, CallNode

\* sys_link() adds the link before the name.
LEMMA LinkOldLinks ==
  ASSUME InodesAssumption, PathsGoDown, IInv, IInv', LInv, NEW p \in Process, LinkOld(p)
  PROVE  LInv'
<1> DEFINE i == sys[p].dp
           s == StartOf(p, sys[p].new)
           r == Rest(sys[p].new)
           c == [sys[p] EXCEPT !.ip = i, !.dp = s, !.path = r, !.new = <<>>]
           k == Inode(i).nlink + 1
<1>1. /\ AtPc(p, "walk") /\ sys[p].call = "link" /\ ~WantsParent(p) /\ ilock[i] = Nobody /\ ~Untyped(i)
      /\ UNCHANGED <<ent, used, cwd, file, lost, panicked>>
  BY DEF LinkOld, Found, Ilock
<1>2. /\ TypesOK /\ sys[p] \in CallType /\ Consistent(sys[p]) /\ sys[p].pc = "walk" /\ sys[p].put = "no"
      /\ sys[p].puts = <<>> /\ i \in Inum /\ Local(p)
  BY <1>1, AtFacts DEF WalkPc, IInv, LInv
<1>3. sys[p].ip = 0 /\ sys[p].new \in Path
  BY <1>1, <1>2 DEF WantsParent, Consistent
<1>4. Pending(p) = 0
  BY <1>3 DEF Pending
<1>5. Inode(i) = disk[i] /\ IsNode(disk[i]) /\ disk[i].type # "none"
  BY <1>1, <1>2, Sees
<1>6. CASE Fetched(i) /\ Done(p, <<i>>) /\ UNCHANGED <<disk, ref>>
  <2>1. <<i>> \in Puts /\ Put1(<<i>>) = i /\ Put2(<<i>>) = 0
    BY <1>2, NewPuts
  <2>2. \A j \in Inum : valid[j] => valid'[j]
    BY <1>2, <1>6, FetchedKeeps
  <2>3. \A j \in {cwd'[p], file'[p], Put1(<<i>>), Put2(<<i>>)} : j \in {0, cwd[p], file[p], sys[p].dp, sys[p].ip}
    BY <1>1, <2>1
  <2>4. UNCHANGED <<fs, lost, panicked>>
    BY <1>1, <1>6 DEF fs
  <2> QED
    BY <1>1, <1>4, <1>6, <2>1, <2>2, <2>3, <2>4, DoneStatic
<1>7. CASE /\ Inode(i).type # "dir" /\ Iupdate(Only(i, Links(i, 1))) /\ sys' = [sys EXCEPT ![p] = c]
  <2>1. s \in {ROOTINO, cwd[p]} /\ \A m \in 1 .. Len(r) : r[m] # ".."
    BY <1>2, <1>3, RestDown DEF StartOf
  <2> HIDE DEF s, r, k
  <2>2. /\ c.pc = "walk" /\ c.call = "link" /\ c.path = r /\ c.new = <<>> /\ c.dp = s /\ c.ip = i
        /\ c.puts = <<>> /\ c.put = "no"
    BY <1>1, <1>2 DEF CallType
  <2> HIDE DEF c
  <2>3. sys'[p] = c /\ \A q \in Process \ {p} : sys'[q] = sys[q]
    BY <1>2, <1>7 DEF TypesOK
  <2>4. PICK m : m = k
    OBVIOUS
  <2>5. Iupdate(Only(i, With(disk[i], m, disk[i].addrs)))
    BY <1>5, <1>7, <2>4, NodeIsWith DEF Links, k
  <2>6. /\ disk'[i].nlink = m /\ disk'[i].addrs = disk[i].addrs /\ disk'[i].type = disk[i].type
        /\ valid'[i] /\ \A j \in Inum \ {i} : disk'[j] = disk[j] /\ (valid[j] => valid'[j])
    BY <1>2, <2>5, NodeUpdate
  <2>7. BlocksOK'
    BY <1>1, <1>2, <2>6, BlocksStay DEF LInv
  <2>8. Pending(p)' = i
    BY <2>2, <2>3 DEF Pending
  <2>9. /\ disk'[i].nlink = disk[i].nlink + One(Pending(p)' = i) - One(Pending(p) = i)
        /\ disk'[i].addrs \subseteq Block
        /\ \A j \in Inum \ {i} : Pending(p)' = j <=> Pending(p) = j
    <3>1. disk[i].nlink \in Int /\ disk[i].addrs \subseteq Block /\ 0 \notin Inum
      BY <1>2, InumFacts DEF LInv, NodesOK
    <3>2. One(Pending(p)' = i) = 1 /\ One(Pending(p) = i) = 0
      BY <1>2, <1>4, <2>8, <3>1 DEF One
    <3> QED
      BY <1>4, <1>5, <2>4, <2>6, <2>8, <3>1, <3>2 DEF k
  <2>10. Live(p)["dp"] = i /\ "dp" \in Field
    BY <1>2, LiveAre
  <2>11. Takes(p)
    <3>1. Put1(<<>>) = 0 /\ Put2(<<>>) = 0
      BY DEF Put1, Put2
    <3>2. \A l \in Field : Live(p)'[l] \in {0, ROOTINO, cwd[p], file[p], i}
      BY <1>1, <2>1, <2>2, <2>3, <3>1 DEF Live, Field
    <3>3. \A j \in {cwd[p], file[p], i} : \E l \in Field : Live(p)[l] = j
      BY <1>2, LiveAre
    <3> QED
      BY <3>2, <3>3 DEF Takes
  <2>12. CallOf(p)' /\ Downward(p)' /\ Removes(p)'
    <3>1. Len(<<>>) = 0
      OBVIOUS
    <3> QED
      BY <2>1, <2>2, <2>3, <3>1 DEF CallOf, Downward, Removes
  <2>13. disk[i].type = "file"
    BY <1>2, <1>5, <1>7 DEF LInv, NodesOK
  <2> QED
    BY <1>1, <1>2, <2>2, <2>3, <2>6, <2>7, <2>9, <2>10, <2>11, <2>12, <2>13, CallNode
<1> QED
  BY <1>1, <1>6, <1>7 DEF LinkOld

\* An inode as ialloc() leaves it.
LEMMA FreeTyped ==
  ASSUME NEW t
  PROVE  LET m == [FreeNode EXCEPT !.type = t] IN m.type = t /\ m.nlink = 0 /\ m.addrs = {}
BY DEF FreeNode

\* ialloc() of inode i for create().
Allocates(p, i, t) ==
  /\ t = IF sys[p].call = "mkdir" THEN "dir" ELSE "file"
  /\ disk' = [disk EXCEPT ![i] = [FreeNode EXCEPT !.type = t]]
  /\ sys' = [sys EXCEPT ![p].pc = "new", ![p].ip = i]

\* ialloc(): a free inode has no name, no block and nobody who points to it but iput() on its way out.
LEMMA CreateAllocates ==
  ASSUME InodesAssumption, IInv, IInv', LInv, NEW p \in Process, AtPc(p, "parent"),
         sys[p].call \in {"create", "mkdir"}, Fetched(sys[p].dp), Lookup(sys[p].dp, sys[p].name) = 0,
         UNCHANGED <<ent, used, cwd, file, lost, panicked>>,
         NEW i \in FreeInodes, NEW t, Allocates(p, i, t)
  PROVE  LInv'
<1> DEFINE d == sys[p].dp
           n == sys[p].name
           c == [sys[p] EXCEPT !.pc = "new", !.ip = i]
<1>1. /\ TypesOK /\ sys[p] \in CallType /\ Consistent(sys[p]) /\ sys[p].pc = "parent" /\ sys[p].put = "no"
      /\ sys[p].puts = <<>> /\ sys[p].ip = 0 /\ d \in Inum /\ n \in Elem /\ Local(p)
  BY AtFacts DEF WalkPc, IInv, LInv
<1>2. i \in Inum /\ disk[i].type = "none" /\ i # 0 /\ 0 \notin Inum
  BY InumFacts DEF FreeInodes
<1>3. disk[i].nlink = 0 /\ disk[i].addrs = {} /\ \A m \in Name : ent[i][m] = 0
  BY <1>2 DEF LInv, NodesOK
<1>4. /\ disk'[i].type = t /\ disk'[i].nlink = 0 /\ disk'[i].addrs = {}
      /\ \A j \in Inum \ {i} : disk'[j] = disk[j]
  <2> DEFINE m == [FreeNode EXCEPT !.type = t]
  <2>1. m.type = t /\ m.nlink = 0 /\ m.addrs = {}
    BY FreeTyped
  <2>2. disk' = [disk EXCEPT ![i] = m]
    BY DEF Allocates
  <2> HIDE DEF m
  <2>3. disk'[i] = m /\ \A j \in Inum \ {i} : disk'[j] = disk[j]
    BY <1>1, <1>2, <2>2 DEF TypesOK
  <2> QED
    BY <2>1, <2>3
<1>0. t \in {"file", "dir"}
  BY DEF Allocates
<1>5. /\ c.pc = "new" /\ c.call = sys[p].call /\ c.path = sys[p].path /\ c.new = sys[p].new /\ c.name = n
      /\ c.dp = d /\ c.ip = i /\ c.puts = <<>> /\ c.put = "no"
  BY <1>1 DEF CallType
<1> HIDE DEF c
<1>6. sys'[p] = c /\ \A q \in Process \ {p} : sys'[q] = sys[q]
  BY <1>1 DEF TypesOK, Allocates, c
<1>7. n # ".." /\ n \in Name /\ ent[d][n] = 0
  <2>1. n # ".."
    BY <1>1 DEF Local, Downward
  <2> QED
    BY <1>1, <1>2, <2>1, LookupNames
<1>8. \A j \in Inum : valid[j] => valid'[j]
  BY <1>1, FetchedKeeps
<1>9. ASSUME NEW q \in Process, NEW l \in Field PROVE Live(q)[l] # i
  BY <1>2 DEF LInv, Local, Typed
<1>10. ASSUME NEW l \in Field
       PROVE  Live(p)'[l] \in {0, i} \/ (\E k \in Field : Live(p)'[l] = Live(p)[k])
  <2>1. Put1(<<>>) = 0 /\ Put2(<<>>) = 0
    BY DEF Put1, Put2
  <2>2. Live(p)'[l] \in {0, i, d, cwd[p], file[p]}
    BY <1>5, <1>6, <2>1 DEF Live, Field
  <2> QED
    BY <1>1, <2>2, LiveAre
<1>11. Live(p)'["ip"] = i /\ \A l \in Field \ {"ip"} : Live(p)'[l] # i
  <2>1. Put1(<<>>) = 0 /\ Put2(<<>>) = 0
    BY DEF Put1, Put2
  <2>2. Live(p)'["ip"] = i
    BY <1>5, <1>6 DEF Live
  <2>3. \A l \in Field \ {"ip"} : Live(p)'[l] \in {0, d, cwd[p], file[p]}
    BY <1>5, <1>6, <2>1 DEF Live, Field
  <2>4. i \notin {0, d, cwd[p], file[p]}
    BY <1>1, <1>2, <1>9, LiveAre
  <2> QED
    BY <2>2, <2>3, <2>4
<1>12. StepOf(p)
  <2>1. Gains(p)
    BY <1>2, <1>10 DEF Gains
  <2>2. ASSUME NEW j \in Inum, disk'[j] # disk[j] \/ ent'[j] # ent[j] PROVE Writes(p, j)
    <3>1. j = i
      BY <1>4, <2>2
    <3> QED
      BY <1>2, <1>5, <1>6, <3>1 DEF Writes
  <2> QED
    BY <1>1, <1>6, <1>8, <2>1, <2>2 DEF StepOf
<1>13. Pending(p) = 0 /\ Pending(p)' = 0
  BY <1>1, <1>5, <1>6 DEF Pending
<1>14. Typed(p)'
  <2>1. disk'[i].type # "none" /\ \A j \in Inum : disk[j].type # "none" => disk'[j].type # "none"
    BY <1>0, <1>2, <1>4
  <2>2. ASSUME NEW l \in Field, Live(p)'[l] # 0 PROVE disk'[Live(p)'[l]].type # "none"
    <3>1. CASE Live(p)'[l] = i
      BY <2>1, <3>1
    <3>2. CASE \E k \in Field : Live(p)'[l] = Live(p)[k]
      <4>1. PICK k \in Field : Live(p)'[l] = Live(p)[k]
        BY <3>2
      <4>2. Live(p)[k] \in Inum /\ disk[Live(p)[k]].type # "none"
        BY <1>1, <2>2, <4>1, LiveAre DEF Local, Typed, InumOrNone
      <4> QED
        BY <2>1, <4>1, <4>2
    <3> QED
      BY <1>10, <2>2, <3>1, <3>2
  <2>3. disk'[d].type = "dir"
    <3>1. disk[d].type = "dir"
      BY <1>1 DEF Local, Typed
    <3> QED
      BY <1>1, <1>2, <1>4, <3>1
  <2> QED
    BY <1>5, <1>6, <2>2, <2>3 DEF Typed
<1>15. Makes(p)'
  <2>1. \A q \in Process : \A l \in Field : Live(q)'[l] = i => q = p /\ l = "ip"
    <3>1. \A q \in Process \ {p} : Live(q)' = Live(q)
      BY <1>6 DEF Live
    <3> QED
      BY <1>9, <1>11, <3>1
  <2>2. t = "dir" <=> sys[p].call = "mkdir"
    BY DEF Allocates
  <2>3. PICK k : k = sys'[p].ip
    OBVIOUS
  <2>4. k = i
    BY <1>5, <1>6, <2>3
  <2> QED
    BY <1>3, <1>4, <1>5, <1>6, <1>7, <2>1, <2>2, <2>3, <2>4 DEF Makes, Sole
<1>16. Local(p)'
  BY <1>1, <1>5, <1>6, <1>7, <1>14, <1>15 DEF Local, CallOf, Downward, Removes, Frees
<1>17. IsNew(i)'
  BY <1>5, <1>6 DEF IsNew
<1>18. BlocksOK'
  <2>1. \A j \in Inum : disk'[j].addrs = disk[j].addrs
    BY <1>3, <1>4
  <2> QED
    BY <2>1, BlocksStay DEF LInv
<1>19. /\ disk'[i].nlink = disk[i].nlink + One(Pending(p)' = i) - One(Pending(p) = i)
       /\ \A j \in Inum \ {i} : Pending(p)' = j <=> Pending(p) = j
  BY <1>2, <1>3, <1>4, <1>13 DEF One
<1> QED
  BY <1>0, <1>1, <1>2, <1>4, <1>8, <1>12, <1>16, <1>17, <1>18, <1>19, NodeStep

\* create() up to the lock of the new inode.
LEMMA CreateLinks ==
  ASSUME InodesAssumption, IInv, IInv', LInv, NEW p \in Process, Create(p)
  PROVE  LInv'
<1> DEFINE d == sys[p].dp
           i == Lookup(d, sys[p].name)
           c == [sys[p] EXCEPT !.pc = "exists", !.ip = i, !.dp = 0, !.puts = <<d>>]
<1>1. /\ AtPc(p, "parent") /\ sys[p].call \in {"create", "mkdir"} /\ Fetched(d)
      /\ UNCHANGED <<ent, used, cwd, file, lost, panicked>>
  BY DEF Create
<1>2. /\ TypesOK /\ sys[p] \in CallType /\ sys[p].pc = "parent" /\ sys[p].put = "no"
      /\ sys[p].puts = <<>> /\ sys[p].ip = 0 /\ d \in Inum /\ sys[p].name \in Elem /\ Local(p)
  BY <1>1, AtFacts DEF WalkPc, IInv, LInv
<1>3. Pending(p) = 0 /\ \A j \in Inum : valid[j] => valid'[j]
  BY <1>1, <1>2, FetchedKeeps DEF Pending
<1>4. <<d>> \in Puts /\ Put1(<<d>>) = d /\ Put2(<<d>>) = 0
  BY <1>2, NewPuts
<1>5. CASE Done(p, <<d>>) /\ UNCHANGED <<disk, ref, ilock>>
  <2>1. \A j \in {cwd'[p], file'[p], Put1(<<d>>), Put2(<<d>>)} : j \in {0, cwd[p], file[p], sys[p].dp, sys[p].ip}
    BY <1>1, <1>4
  <2>2. UNCHANGED <<fs, lost, panicked>>
    BY <1>1, <1>5 DEF fs
  <2> QED
    BY <1>1, <1>3, <1>4, <1>5, <2>1, <2>2, DoneStatic
<1>6. CASE i # 0 /\ UNCHANGED disk /\ sys' = [sys EXCEPT ![p] = c]
  <2>1. i = d \/ \E e \in Inum : \E m \in Name : ent[e][m] = i
    <3>1. sys[p].name # ".."
      BY <1>2 DEF Local, Downward
    <3> QED
      BY <1>2, <3>1, LookupNames
  <2> HIDE DEF i
  <2>2. /\ c.pc = "exists" /\ c.call = sys[p].call /\ c.new = sys[p].new /\ c.path = sys[p].path
        /\ c.ip = i /\ c.dp = 0 /\ c.puts = <<d>> /\ c.put = "no"
    BY <1>2 DEF CallType
  <2> HIDE DEF c
  <2>3. sys'[p] = c /\ \A q \in Process \ {p} : sys'[q] = sys[q]
    BY <1>2, <1>6 DEF TypesOK
  <2>4. Takes(p)
    <3>1. \A k \in Field : Live(p)'[k] \in {0, i, d, cwd[p], file[p]}
      BY <1>1, <1>4, <2>2, <2>3 DEF Live, Field
    <3>2. \A j \in {cwd[p], file[p], d} : \E l \in Field : Live(p)[l] = j
      BY <1>2, LiveAre
    <3> QED
      BY <2>1, <3>1, <3>2 DEF Takes
  <2>5. CallOf(p)' /\ Downward(p)' /\ Removes(p)' /\ Pending(p)' = 0
    BY <1>1, <1>2, <2>2, <2>3 DEF CallOf, Downward, Removes, Pending, Local
  <2>6. UNCHANGED <<fs, lost, panicked>>
    BY <1>1, <1>6 DEF fs
  <2> QED
    BY <1>1, <1>2, <1>3, <2>2, <2>3, <2>4, <2>5, <2>6, CallStatic
<1>7. CASE /\ i = 0 /\ FreeInodes # {}
           /\ disk' = [disk EXCEPT ![First(FreeInodes)] =
                         [FreeNode EXCEPT !.type = IF sys[p].call = "mkdir" THEN "dir" ELSE "file"]]
           /\ sys' = [sys EXCEPT ![p].pc = "new", ![p].ip = First(FreeInodes)]
  <2>1. First(FreeInodes) \in FreeInodes
    <3>1. FreeInodes \in SUBSET Nat
      BY DEF FreeInodes, Inum, InodesAssumption
    <3> QED
      BY <1>7, <3>1, FirstIs
  <2>2. PICK n \in FreeInodes : n = First(FreeInodes)
    BY <2>1
  <2>3. PICK t : t = IF sys[p].call = "mkdir" THEN "dir" ELSE "file"
    OBVIOUS
  <2>4. Allocates(p, n, t)
    BY <1>7, <2>2, <2>3 DEF Allocates
  <2> QED
    BY <1>1, <1>7, <2>2, <2>3, <2>4, CreateAllocates
<1>8. \/ i # 0 /\ UNCHANGED disk /\ sys' = [sys EXCEPT ![p] = c]
      \/ Done(p, <<d>>) /\ UNCHANGED <<disk, ref, ilock>>
      \/ /\ i = 0 /\ FreeInodes # {}
         /\ disk' = [disk EXCEPT ![First(FreeInodes)] =
                       [FreeNode EXCEPT !.type = IF sys[p].call = "mkdir" THEN "dir" ELSE "file"]]
         /\ sys' = [sys EXCEPT ![p].pc = "new", ![p].ip = First(FreeInodes)]
  BY DEF Create
<1> QED
  BY <1>5, <1>6, <1>7, <1>8

-----------------------------------------------------------------------------

IsDir(x) == x # 0 /\ disk[x].type = "dir"

\* One entry changes, in directory d.
LEMMA NamesMove ==
  ASSUME InodesAssumption, TypesOK, NodesOK, NodesOK', \A j \in Inum : disk'[j].type = disk[j].type,
         NEW d \in Inum, disk[d].type = "dir", NEW n \in Name, NEW x \in InumOrNone, ent'[d][n] = x,
         \A e \in Inum : \A m \in Name : e # d \/ m # n => ent'[e][m] = ent[e][m], NEW i \in Inum
  PROVE  /\ Cardinality(Named(i)') = Cardinality(Named(i)) + One(x = i) - One(ent[d][n] = i)
         /\ Cardinality(Below(i)') =
              Cardinality(Below(i)) + One(i = d /\ IsDir(x)) - One(i = d /\ IsDir(ent[d][n]))
<1>0. IsFiniteSet(Inum) /\ IsFiniteSet(Name) /\ 0 \notin Inum
  BY InumFacts DEF InodesAssumption
<1>1. Cardinality(Named(i)') = Cardinality(Named(i)) + One(x = i) - One(ent[d][n] = i)
  <2> DEFINE S == {y \in Inum \X Name : y # <<d, n>> /\ ent[y[1]][y[2]] = i}
             a == ent[d][n] = i
             b == x = i
  <2>1. IsFiniteSet(S) /\ <<d, n>> \notin S
    <3>1. IsFiniteSet(Inum \X Name)
      BY <1>0, FS_Product
    <3> QED
      BY <3>1, FS_Subset
  <2>2. Named(i) = {y \in Inum \X Name : ent[y[1]][y[2]] = i}
    BY NamedAre
  <2>3. Named(i)' = {y \in Inum \X Name : ent'[y[1]][y[2]] = i}
    BY <1>0 DEF NodesOK, Named, Inum
  <2>4. \A y \in Inum \X Name : y # <<d, n>> => ent'[y[1]][y[2]] = ent[y[1]][y[2]]
    OBVIOUS
  <2>5. Named(i) = S \cup (IF a THEN {<<d, n>>} ELSE {})
    BY <2>2
  <2>6. Named(i)' = S \cup (IF b THEN {<<d, n>>} ELSE {})
    BY <2>3, <2>4
  <2> HIDE DEF S
  <2>7. a \in BOOLEAN /\ b \in BOOLEAN
    OBVIOUS
  <2> HIDE DEF a, b
  <2>8. Cardinality(Named(i)) = Cardinality(S) + One(a)
    BY <2>1, <2>5, <2>7, OneMore
  <2>9. Cardinality(Named(i)') = Cardinality(S) + One(b)
    BY <2>1, <2>6, <2>7, OneMore
  <2>10. Cardinality(S) \in Nat
    BY <2>1, FS_CardinalityType
  <2>11. Cardinality(Named(i)') = Cardinality(Named(i)) + One(b) - One(a)
    BY <2>8, <2>9, <2>10 DEF One
  <2> QED
    BY <2>11 DEF a, b
<1>2. \A e \in Inum : \A m \in Name : ent[e][m] \in InumOrNone
  BY DEF TypesOK
<1>3. Cardinality(Below(i)') = Cardinality(Below(i)) + One(i = d /\ IsDir(x)) - One(i = d /\ IsDir(ent[d][n]))
  <2>1. CASE i # d
    <3>1. Below(i)' = Below(i)
      BY <1>2, <2>1 DEF Below, InumOrNone
    <3>2. Cardinality(Below(i)) \in Nat
      BY CountParts
    <3> QED
      BY <2>1, <3>1, <3>2 DEF One
  <2>2. CASE i = d
    <3> DEFINE S == {m \in Name \ {n} : IsDir(ent[d][m])}
               a == IsDir(ent[d][n])
               b == IsDir(x)
    <3>1. IsFiniteSet(S) /\ n \notin S
      BY <1>0, FS_Subset
    <3>2. Below(i) = S \cup (IF a THEN {n} ELSE {})
      BY <2>2 DEF Below, IsDir
    <3>3. \A y \in InumOrNone : IsDir(y)' <=> IsDir(y)
      BY DEF IsDir, InumOrNone
    <3>4. Below(i)' = {m \in Name : IsDir(ent'[d][m])}
      <4>1. \A m \in Name : ent'[d][m] \in InumOrNone
        BY <1>2
      <4>2. Below(i)' = {m \in Name : ent'[d][m] # 0 /\ disk'[ent'[d][m]].type = "dir"}
        BY <2>2 DEF Below
      <4> QED
        BY <4>1, <4>2 DEF IsDir, InumOrNone
    <3>5. Below(i)' = S \cup (IF b THEN {n} ELSE {})
      BY <3>4
    <3> HIDE DEF S
    <3>6. a \in BOOLEAN /\ b \in BOOLEAN
      BY DEF IsDir
    <3> HIDE DEF a, b
    <3>7. Cardinality(Below(i)) = Cardinality(S) + One(a)
      BY <3>1, <3>2, <3>6, OneMore
    <3>8. Cardinality(Below(i)') = Cardinality(S) + One(b)
      BY <3>1, <3>5, <3>6, OneMore
    <3>9. Cardinality(S) \in Nat
      BY <3>1, FS_CardinalityType
    <3>10. Cardinality(Below(i)') = Cardinality(Below(i)) + One(b) - One(a)
      BY <3>7, <3>8, <3>9 DEF One
    <3>11. (i = d /\ IsDir(x) <=> b) /\ (i = d /\ IsDir(ent[d][n]) <=> a)
      BY <2>2 DEF a, b
    <3> QED
      BY <3>6, <3>10, <3>11 DEF One
  <2> QED
    BY <2>1, <2>2
<1> QED
  BY <1>1, <1>3

\* The links move as that entry does, and what p counts.
LinkMoves(p, d, n, x) ==
  /\ ent'[d][n] = x
  /\ \A e \in Inum : \A m \in Name : e # d \/ m # n => ent'[e][m] = ent[e][m]
  /\ \A j \in Inum :
       /\ disk'[j].type = disk[j].type /\ disk'[j].addrs \subseteq Block
       /\ disk'[j].nlink = disk[j].nlink
            + One(x = j) - One(ent[d][n] = j)
            + One(j = d /\ IsDir(x)) - One(j = d /\ IsDir(ent[d][n]))
            + One(Pending(p)' = j) - One(Pending(p) = j)

\* A step that changes one entry, and the links with it.
LEMMA EntryStep ==
  ASSUME InodesAssumption, IInv, IInv', LInv, NEW p \in Process, StepOf(p), Local(p)', UNCHANGED <<lost, panicked>>,
         NEW d \in Inum, disk[d].type = "dir", NEW n \in Name, NEW x \in InumOrNone,
         x # 0 => disk[x].type # "none", LinkMoves(p, d, n, x),
         \A j \in Inum : disk[j].type = "none" => disk'[j] = disk[j],
         NEW D \in SUBSET Inum, \A j \in D : valid'[j],
         \A j \in Inum \ D : disk'[j] = disk[j] /\ (valid[j] => valid'[j]),
         sys[p].pc = "new" => sys[p].ip \in D, BlocksOK'
  PROVE  LInv'
<1> USE DEF LinkMoves
<1>1. \A q \in Process : Local(q)'
  BY OthersKeep
<1>2. TypesOK /\ NodesOK /\ \A q \in Process \ {p} : sys'[q] = sys[q]
  BY DEF IInv, LInv, StepOf
<1>3. \A j \in Inum : disk[j].nlink \in Int /\ disk'[j].nlink \in Int
  BY <1>2 DEF NodesOK, One
<1>4. NodesOK'
  <2>1. ASSUME NEW j \in Inum
        PROVE  /\ disk'[j].type \in {"none", "file", "dir"} /\ disk'[j].addrs \subseteq Block
               /\ disk'[j].type = "none" => disk'[j].nlink = 0 /\ disk'[j].addrs = {}
    BY <1>2 DEF NodesOK
  <2>2. ASSUME NEW j \in Inum, NEW m \in Name, ent'[j][m] # 0
        PROVE  disk'[j].type = "dir" /\ disk'[ent'[j][m]].type # "none"
    <3>1. CASE j = d /\ m = n
      <4>1. x \in Inum
        BY <2>2, <3>1 DEF InumOrNone
      <4> QED
        BY <2>2, <3>1, <4>1
    <3>2. CASE j # d \/ m # n
      <4>1. ent'[j][m] = ent[j][m]
        BY <3>2
      <4>2. ent[j][m] \in Inum
        BY <1>2, <2>2, <4>1 DEF TypesOK, InumOrNone
      <4>3. disk[j].type = "dir" /\ disk[ent[j][m]].type # "none"
        BY <1>2, <2>2, <4>1 DEF NodesOK
      <4> QED
        BY <4>1, <4>2, <4>3
    <3> QED
      BY <3>1, <3>2
  <2> QED
    BY <1>3, <2>1, <2>2 DEF NodesOK, Inum, Block
<1>5. UnusedOK'
  <2>1. \A j \in D : valid'[j] \/ IsNew(j)' \/ disk'[j].type = "none" \/ j \in lost'
    OBVIOUS
  <2>2. lost \subseteq lost'
    OBVIOUS
  <2> QED
    BY <1>2, <2>1, <2>2, UnusedMoves
<1>6. LinksOK'
  <2>1. \A j \in Inum : Count(j) \in Int /\ Count(j)' \in Int
    BY CountParts
  <2>2. ASSUME NEW j \in Inum PROVE disk'[j].nlink - disk[j].nlink = Count(j)' - Count(j)
    <3> DEFINE a == Cardinality(Named(j))
               b == Cardinality(Below(j))
               c == Cardinality(Counting(j))
               e == IF j = ROOTINO THEN 1 ELSE 0
               a1 == One(x = j)
               a2 == One(ent[d][n] = j)
               b1 == One(j = d /\ IsDir(x))
               b2 == One(j = d /\ IsDir(ent[d][n]))
               c1 == One(Pending(p)' = j)
               c2 == One(Pending(p) = j)
    <3>1. Cardinality(Named(j)') = a + a1 - a2 /\ Cardinality(Below(j)') = b + b1 - b2
      BY <1>2, <1>4, NamesMove
    <3>2. Cardinality(Counting(j)') = c + c1 - c2
      BY <1>2, CountingMoves
    <3>3. a \in Int /\ b \in Int /\ c \in Int
      BY CountParts
    <3>4. /\ e \in Int /\ a1 \in Int /\ a2 \in Int /\ b1 \in Int /\ b2 \in Int /\ c1 \in Int /\ c2 \in Int
      BY DEF One
    <3>5. Count(j) = a + b + c + e
      BY DEF Count
    <3>6. Count(j)' = (a + a1 - a2) + (b + b1 - b2) + (c + c1 - c2) + e
      BY <3>1, <3>2 DEF Count, ROOTINO
    <3>7. disk'[j].nlink = disk[j].nlink + a1 - a2 + b1 - b2 + c1 - c2
      OBVIOUS
    <3> HIDE DEF a, b, c, e, a1, a2, b1, b2, c1, c2
    <3> QED
      BY <1>3, <3>3, <3>4, <3>5, <3>6, <3>7
  <2>3. lost \subseteq lost'
    OBVIOUS
  <2> QED
    BY <1>3, <2>1, <2>2, <2>3, LinksMove
<1> QED
  BY <1>1, <1>4, <1>5, <1>6 DEF LInv

\* Such a step of a call, with the inodes D in hand.
LEMMA CallEntry ==
  ASSUME InodesAssumption, IInv, IInv', LInv, NEW p \in Process, UNCHANGED <<cwd, file, lost, panicked>>,
         \A q \in Process \ {p} : sys'[q] = sys[q],
         NEW d \in Inum, disk[d].type = "dir", NEW n \in Name, NEW x \in InumOrNone,
         x # 0 => disk[x].type # "none", LinkMoves(p, d, n, x),
         NEW D \in SUBSET Inum,
         \A j \in D : valid'[j] /\ ilock[j] \in {Nobody, p} /\ \E k \in Field : Live(p)[k] = j,
         \A j \in Inum \ D : disk'[j] = disk[j] /\ ent'[j] = ent[j] /\ (valid[j] => valid'[j]),
         sys[p].pc = "new" => sys[p].ip \in D /\ ilock[sys[p].ip] = Nobody, BlocksOK',
         Takes(p), CallOf(p)', Downward(p)', sys'[p].pc \in {"idle", "unlinked", "made"},
         sys'[p].put = "no", sys'[p].call # "link"
  PROVE  LInv'
<1>1. Gains(p) /\ \A k \in Field : Live(p)'[k] # 0 => disk'[Live(p)'[k]].type # "none"
  <2>1. \A j \in Inum : disk'[j].type = disk[j].type
    BY DEF LinkMoves
  <2> QED
    BY <2>1, TakesTyped
<1>2. StepOf(p)
  <2>1. ASSUME NEW j \in Inum, disk'[j] # disk[j] \/ ent'[j] # ent[j] PROVE Writes(p, j)
    <3>1. j \in D
      BY <2>1
    <3> QED
      BY <3>1 DEF Writes, LinkMoves
  <2>2. \A j \in Inum : valid[j] => valid'[j]
    OBVIOUS
  <2> QED
    BY <1>1, <2>1, <2>2 DEF StepOf
<1>3. Local(p)'
  BY <1>1 DEF Local, Typed, Removes, Makes, Frees
<1>4. \A j \in Inum : disk[j].type = "none" => disk'[j] = disk[j]
  <2>1. SUFFICES ASSUME NEW j \in Inum, disk[j].type = "none" PROVE j \notin D
    OBVIOUS
  <2>2. \A k \in Field : Live(p)[k] # 0 => disk[Live(p)[k]].type # "none"
    BY DEF LInv, Local, Typed
  <2> QED
    BY <2>1, <2>2, InumFacts
<1>5. \A j \in D : valid'[j]
  OBVIOUS
<1>6. sys[p].pc = "new" => sys[p].ip \in D
  OBVIOUS
<1> QED
  BY <1>2, <1>3, <1>4, <1>5, <1>6, EntryStep

\* dirlink() takes the block b if it needs one.
Taken(d, b) == IF Grows(d) THEN {b} ELSE {}

\* dirlink() may give a directory one block more.
LEMMA GrownIs ==
  ASSUME NEW d \in Inum, Inode(d) = disk[d], IsNode(disk[d]), NEW b
  PROVE  Grown(d, b) = With(disk[d], disk[d].nlink, disk[d].addrs \cup Taken(d, b))
<1>1. CASE Grows(d)
  <2>1. [disk[d] EXCEPT !.addrs = @ \cup {b}] = With(disk[d], disk[d].nlink, disk[d].addrs \cup {b})
    BY NodeIsWith
  <2> QED
    BY <1>1, <2>1 DEF Grown, Taken
<1>2. CASE ~Grows(d)
  <2>1. disk[d] = With(disk[d], disk[d].nlink, disk[d].addrs)
    BY DEF IsNode, With
  <2>2. disk[d].addrs \cup Taken(d, b) = disk[d].addrs
    BY <1>2 DEF Taken
  <2> QED
    BY <1>2, <2>1, <2>2 DEF Grown
<1> QED
  BY <1>1, <1>2

\* sys_link(): dirlink() in the new directory.
LEMMA LinkNewLinks ==
  ASSUME InodesAssumption, IInv, IInv', LInv, NEW p \in Process, LinkNew(p)
  PROVE  LInv'
<1> DEFINE d == sys[p].dp
           n == sys[p].name
           i == sys[p].ip
           old == Lookup(d, n)
           b == First(FreeBlocks)
           q == IF old # 0 THEN <<old, d>> ELSE <<d>>
           c == [sys[p] EXCEPT !.pc = "bad", !.dp = 0, !.puts = q]
<1>1. /\ AtPc(p, "parent") /\ sys[p].call = "link" /\ ilock[d] = Nobody /\ ~Untyped(d)
      /\ UNCHANGED <<cwd, file, lost, panicked>>
  BY DEF LinkNew, Ilock
<1>2. /\ TypesOK /\ sys[p] \in CallType /\ sys[p].pc = "parent" /\ sys[p].put = "no"
      /\ sys[p].puts = <<>> /\ d \in Inum /\ i \in Inum /\ n \in Elem /\ Local(p) /\ 0 \notin Inum
  BY <1>1, AtFacts, InumFacts DEF WalkPc, IInv, LInv
<1>3. /\ Pending(p) = i /\ disk[i].type = "file" /\ disk[d].type = "dir" /\ n # ".."
  BY <1>1, <1>2 DEF Pending, Local, Typed, Downward
<1>4. /\ old = d \/ \E e \in Inum : \E m \in Name : ent[e][m] = old
      /\ old = 0 => n \in Name /\ ent[d][n] = 0
      /\ old \in InumOrNone
  BY <1>2, <1>3, LookupNames DEF TypesOK, InumOrNone
<1>5. \A j \in {cwd[p], file[p], d, i} : \E l \in Field : Live(p)[l] = j
  BY <1>2, LiveAre
<1> HIDE DEF old, b
<1>6. CASE /\ old = 0 /\ ~NoRoom(d) /\ Dirlink(d, n, i) /\ Iupdate(Only(d, Grown(d, b)))
           /\ Done(p, <<d, i>>)
  <2>1. /\ disk'[d].nlink = disk[d].nlink /\ disk'[d].addrs = disk[d].addrs \cup Taken(d, b)
        /\ disk'[d].type = disk[d].type
        /\ valid'[d] /\ \A j \in Inum \ {d} : disk'[j] = disk[j] /\ (valid[j] => valid'[j])
    <3>1. Inode(d) = disk[d] /\ IsNode(disk[d])
      BY <1>1, <1>2, Sees
    <3>2. PICK k, S : k = disk[d].nlink /\ S = disk[d].addrs \cup Taken(d, b)
      OBVIOUS
    <3>3. Iupdate(Only(d, With(disk[d], k, S)))
      BY <1>2, <1>6, <3>1, <3>2, GrownIs
    <3>4. /\ disk'[d].nlink = k /\ disk'[d].addrs = S /\ disk'[d].type = disk[d].type
          /\ valid'[d] /\ \A j \in Inum \ {d} : disk'[j] = disk[j] /\ (valid[j] => valid'[j])
      BY <1>2, <3>3, NodeUpdate
    <3> QED
      BY <3>2, <3>4
  <2>2. Taken(d, b) \cap used = {} /\ Taken(d, b) \subseteq Block /\ used' = used \cup Taken(d, b)
    <3>1. FreeBlocks \in SUBSET Nat
      BY DEF FreeBlocks, Block, InodesAssumption
    <3>2. Grows(d) => b \in FreeBlocks
      BY <1>6, <3>1, FirstIs DEF NoRoom, b
    <3> QED
      BY <1>6, <3>2 DEF FreeBlocks, Taken, Dirlink, b
  <2>3. BlocksOK'
    BY <1>2, <2>1, <2>2, BlocksGrowOne DEF LInv
  <2>4. /\ ent'[d][n] = i /\ \A j \in Inum \ {d} : ent'[j] = ent[j]
        /\ \A e \in Inum : \A m \in Name : e # d \/ m # n => ent'[e][m] = ent[e][m]
    BY <1>2, <1>4, <1>6 DEF TypesOK, Dirlink
  <2>5. <<d, i>> \in Puts /\ Put1(<<d, i>>) = d /\ Put2(<<d, i>>) = i
    BY <1>2, NewPuts
  <2>6. /\ CallOf(p)' /\ Downward(p)' /\ Pending(p)' = 0 /\ sys'[p].pc = "idle" /\ sys'[p].call = "none"
        /\ sys'[p].put = "no" /\ sys'[p].dp = 0 /\ sys'[p].ip = 0 /\ sys'[p].puts = <<d, i>>
        /\ \A r \in Process \ {p} : sys'[r] = sys[r]
    BY <1>2, <1>6, <2>5, IdleLocal
  <2>7. Takes(p)
    <3>1. \A k \in Field : Live(p)'[k] \in {0, cwd[p], file[p], d, i}
      BY <1>1, <2>5, <2>6 DEF Live, Field
    <3> QED
      BY <1>5, <3>1 DEF Takes
  <2>8. ASSUME NEW j \in Inum
        PROVE  /\ disk'[j].type = disk[j].type /\ disk'[j].addrs \subseteq Block
               /\ disk'[j].nlink = disk[j].nlink + One(i = j) - One(ent[d][n] = j)
                    + One(j = d /\ IsDir(i)) - One(j = d /\ IsDir(ent[d][n]))
                    + One(Pending(p)' = j) - One(Pending(p) = j)
    <3>1. disk[j].nlink \in Int /\ disk[j].addrs \subseteq Block
      BY DEF LInv, NodesOK
    <3>2. ~IsDir(i) /\ ~IsDir(ent[d][n]) /\ ent[d][n] # j /\ Pending(p)' # j
      BY <1>2, <1>3, <1>4, <1>6, <2>6 DEF IsDir
    <3>3. disk'[j].nlink = disk[j].nlink /\ disk'[j].type = disk[j].type /\ disk'[j].addrs \subseteq Block
      <4>1. CASE j = d
        BY <2>1, <2>2, <3>1, <4>1
      <4>2. CASE j # d
        BY <2>1, <3>1, <4>2
      <4> QED
        BY <4>1, <4>2
    <3> QED
      BY <1>3, <3>1, <3>2, <3>3 DEF One
  <2>13. LinkMoves(p, d, n, i)
    BY <2>4, <2>8 DEF LinkMoves
  <2>9. {d} \in SUBSET Inum /\ i \in InumOrNone
    BY <1>2 DEF InumOrNone
  <2>10. n \in Name /\ disk[i].type # "none"
    BY <1>3, <1>4, <1>6
  <2>11. \A j \in {d} : valid'[j] /\ ilock[j] \in {Nobody, p} /\ \E k \in Field : Live(p)[k] = j
    BY <1>1, <1>5, <2>1
  <2>12. \A j \in Inum \ {d} : disk'[j] = disk[j] /\ ent'[j] = ent[j] /\ (valid[j] => valid'[j])
    BY <2>1, <2>4
  <2> QED
    BY <1>1, <1>2, <1>3, <2>3, <2>6, <2>7, <2>9, <2>10, <2>11, <2>12, <2>13, CallEntry
<1>7. CASE /\ Fetched(d) /\ UNCHANGED fs
           /\ sys' = [sys EXCEPT ![p].pc = "bad", ![p].dp = 0, ![p].puts = q]
  <2>1. \A j \in Inum : valid[j] => valid'[j]
    BY <1>2, <1>7, FetchedKeeps
  <2>2. Put1(q) \in {old, d} /\ Put2(q) \in {0, d} /\ q \in Puts
    <3>1. CASE old # 0
      BY <1>2, <1>4, <3>1, NewPuts DEF InumOrNone
    <3>2. CASE old = 0
      BY <1>2, <3>2, NewPuts
    <3> QED
      BY <3>1, <3>2
  <2> HIDE DEF q
  <2>3. sys' = [sys EXCEPT ![p] = c]
    BY <1>7
  <2>4. /\ c.pc = "bad" /\ c.call = "link" /\ c.path = sys[p].path /\ c.new = sys[p].new
        /\ c.dp = 0 /\ c.ip = i /\ c.puts = q /\ c.put = "no"
    BY <1>1, <1>2 DEF CallType
  <2> HIDE DEF c
  <2>5. sys'[p] = c /\ \A r \in Process \ {p} : sys'[r] = sys[r]
    BY <1>2, <2>3 DEF TypesOK
  <2>6. Takes(p)
    <3>1. \A k \in Field : Live(p)'[k] \in {0, cwd[p], file[p], i, old, d}
      BY <1>1, <2>2, <2>4, <2>5 DEF Live, Field
    <3> QED
      BY <1>4, <1>5, <3>1 DEF Takes
  <2>7. CallOf(p)' /\ Downward(p)' /\ Removes(p)' /\ Pending(p)' = i
    BY <1>2, <2>4, <2>5 DEF CallOf, Downward, Removes, Pending, Local
  <2>8. \A r \in Process \ {p} : sys'[r] = sys[r] /\ cwd'[r] = cwd[r] /\ file'[r] = file[r]
    BY <1>1, <2>5
  <2>9. UNCHANGED <<fs, lost, panicked>>
    BY <1>1, <1>7
  <2>10. /\ sys[p].pc # "new" /\ sys'[p].pc # "new" /\ sys'[p].pc \notin {"parent", "child"} /\ sys'[p].put = "no"
         /\ disk[sys'[p].ip].type = "file"
    BY <1>2, <1>3, <2>4, <2>5
  <2> QED
    BY <1>3, <2>1, <2>6, <2>7, <2>8, <2>9, <2>10, CallStatic
<1> QED
  BY <1>6, <1>7 DEF LinkNew, old, b

\* sys_unlink(): the name goes, and with a directory the link of its "..".
LEMMA UnlinkChildLinks ==
  ASSUME InodesAssumption, IInv, IInv', LInv, NEW p \in Process, UnlinkChild(p)
  PROVE  LInv'
<1> DEFINE d == sys[p].dp
           i == sys[p].ip
           n == sys[p].name
           f == [j \in {d, i} |-> IF j = d /\ Inode(i).type = "dir" THEN Links(d, -1) ELSE Inode(j)]
           c == [sys[p] EXCEPT !.pc = "unlinked", !.dp = 0, !.puts = <<d>>]
<1>1. /\ AtPc(p, "child") /\ ilock[i] = Nobody /\ ~Untyped(i)
      /\ UNCHANGED <<used, cwd, file, lost, panicked>>
  BY DEF UnlinkChild, Ilock
<1>2. /\ TypesOK /\ sys[p] \in CallType /\ sys[p].pc = "child" /\ sys[p].put = "no" /\ sys[p].puts = <<>>
      /\ d \in Inum /\ i \in Inum /\ "child" \in DirPc /\ Local(p) /\ 0 \notin Inum
  BY <1>1, AtFacts, InumFacts DEF DirPc, IInv, LInv
<1>3. /\ sys[p].call = "unlink" /\ Pending(p) = 0 /\ disk[d].type = "dir" /\ n \in Name /\ ent[d][n] = i
  BY <1>2 DEF Pending, Local, CallOf, Typed, Removes
<1>4. /\ ilock[d] = p /\ valid[d] /\ ~Untyped(d) /\ i # d
      /\ Inode(d) = disk[d] /\ IsNode(disk[d]) /\ Inode(i) = disk[i] /\ IsNode(disk[i])
  <2>1. ilock[d] = p /\ valid[d] /\ ~Untyped(d)
    BY <1>1, <1>2, HoldsDir DEF Untyped
  <2>2. i # d
    BY <1>1, <2>1, InumFacts
  <2> QED
    BY <1>1, <1>2, <2>1, <2>2, Sees
<1>5. \A j \in {cwd[p], file[p], d, i} : \E l \in Field : Live(p)[l] = j
  BY <1>2, LiveAre
<1>6. CASE Fetched(i) /\ Done(p, <<i, d>>) /\ UNCHANGED <<disk, ent, ilock>>
  <2>1. <<i, d>> \in Puts /\ Put1(<<i, d>>) = i /\ Put2(<<i, d>>) = d
    BY <1>2, NewPuts
  <2>2. \A j \in Inum : valid[j] => valid'[j]
    BY <1>2, <1>6, FetchedKeeps
  <2>3. \A j \in {cwd'[p], file'[p], Put1(<<i, d>>), Put2(<<i, d>>)} : j \in {0, cwd[p], file[p], sys[p].dp, sys[p].ip}
    BY <1>1, <2>1
  <2>4. UNCHANGED <<fs, lost, panicked>>
    BY <1>1, <1>6 DEF fs
  <2> QED
    BY <1>1, <1>3, <1>6, <2>1, <2>2, <2>3, <2>4, DoneStatic
<1>7. CASE /\ ent' = [ent EXCEPT ![d][n] = 0] /\ Iupdate(f)
           /\ sys' = [sys EXCEPT ![p].pc = "unlinked", ![p].dp = 0, ![p].puts = <<d>>]
  <2> DEFINE k == disk[d].nlink + (-1)
  <2>1. /\ f[i] = disk[i] /\ f[d] = IF disk[i].type = "dir" THEN With(disk[d], k, disk[d].addrs) ELSE disk[d]
    <3>1. Links(d, -1) = [disk[d] EXCEPT !.nlink = k]
      BY <1>4 DEF Links
    <3>2. PICK a : a = k
      OBVIOUS
    <3>3. [disk[d] EXCEPT !.nlink = a] = With(disk[d], a, disk[d].addrs)
      BY <1>4, NodeIsWith
    <3> QED
      BY <1>4, <3>1, <3>2, <3>3
  <2>2. Iupdate(f) /\ DOMAIN f = {d, i}
    BY <1>7
  <2> HIDE DEF f, k
  <2>3. /\ IsNode(f[d]) /\ IsNode(f[i]) /\ f[i] = disk[i] /\ f[d].type = disk[d].type
        /\ f[d].addrs = disk[d].addrs /\ f[d].nlink = IF disk[i].type = "dir" THEN k ELSE disk[d].nlink
    BY <1>4, <2>1, WithParts
  <2>4. /\ \A j \in {d, i} : valid'[j] /\ disk'[j] = f[j]
        /\ \A j \in Inum \ {d, i} : valid'[j] = valid[j] /\ disk'[j] = disk[j]
    <3>1. PICK e, a : e = d /\ a = i
      OBVIOUS
    <3>2. /\ DOMAIN f = {e, a} /\ IsNode(f[e]) /\ IsNode(f[a]) /\ e \in Inum /\ a \in Inum
          /\ TypesOK /\ Iupdate(f)
      BY <1>2, <2>2, <2>3, <3>1
    <3>3. /\ \A j \in {e, a} : valid'[j] /\ disk'[j] = f[j]
          /\ \A j \in Inum \ {e, a} : valid'[j] = valid[j] /\ disk'[j] = disk[j]
      BY <3>2, UpdatesTwo
    <3> QED
      BY <3>1, <3>3
  <2>5. BlocksOK'
    <3>1. \A j \in Inum : disk'[j].addrs = disk[j].addrs
      BY <2>3, <2>4
    <3> QED
      BY <1>1, <3>1, BlocksStay DEF LInv
  <2>6. /\ ent'[d][n] = 0 /\ \A j \in Inum \ {d} : ent'[j] = ent[j]
        /\ \A e \in Inum : \A m \in Name : e # d \/ m # n => ent'[e][m] = ent[e][m]
    BY <1>2, <1>3, <1>7 DEF TypesOK
  <2>7. Put1(<<d>>) = d /\ Put2(<<d>>) = 0
    BY <1>2, NewPuts
  <2>8. sys' = [sys EXCEPT ![p] = c]
    BY <1>7
  <2>9. /\ c.pc = "unlinked" /\ c.call = "unlink" /\ c.path = sys[p].path /\ c.new = sys[p].new
        /\ c.dp = 0 /\ c.ip = i /\ c.puts = <<d>> /\ c.put = "no"
    BY <1>2, <1>3 DEF CallType
  <2> HIDE DEF c
  <2>10. sys'[p] = c /\ \A r \in Process \ {p} : sys'[r] = sys[r]
    BY <1>2, <2>8 DEF TypesOK
  <2>11. CallOf(p)' /\ Downward(p)' /\ Pending(p)' = i
    BY <1>2, <2>9, <2>10 DEF CallOf, Downward, Pending, Local
  <2>12. Takes(p)
    <3>1. \A l \in Field : Live(p)'[l] \in {0, cwd[p], file[p], d, i}
      BY <1>1, <2>7, <2>9, <2>10 DEF Live, Field
    <3> QED
      BY <1>5, <3>1 DEF Takes
  <2>13. ASSUME NEW j \in Inum
         PROVE  /\ disk'[j].type = disk[j].type /\ disk'[j].addrs \subseteq Block
                /\ disk'[j].nlink = disk[j].nlink + One(0 = j) - One(ent[d][n] = j)
                     + One(j = d /\ IsDir(0)) - One(j = d /\ IsDir(ent[d][n]))
                     + One(Pending(p)' = j) - One(Pending(p) = j)
    <3>1. disk[j].nlink \in Int /\ disk[j].addrs \subseteq Block
      BY DEF LInv, NodesOK
    <3>2. disk'[j].type = disk[j].type /\ disk'[j].addrs = disk[j].addrs
      BY <2>3, <2>4
    <3>3. j # 0 /\ ~IsDir(0) /\ (IsDir(ent[d][n]) <=> disk[i].type = "dir")
      BY <1>2, <1>3 DEF IsDir
    <3>4. disk'[j].nlink = disk[j].nlink - One(j = d /\ IsDir(ent[d][n]))
      <4>1. CASE j = d
        BY <2>3, <2>4, <3>1, <3>3, <4>1 DEF One, k
      <4>2. CASE j # d
        BY <2>3, <2>4, <3>1, <4>2 DEF One
      <4> QED
        BY <4>1, <4>2
    <3>5. /\ One(0 = j) = 0 /\ One(j = d /\ IsDir(0)) = 0 /\ One(Pending(p) = j) = 0
          /\ One(ent[d][n] = j) = One(Pending(p)' = j) /\ One(ent[d][n] = j) \in Int
          /\ One(j = d /\ IsDir(ent[d][n])) \in Int
      BY <1>3, <2>11, <3>3 DEF One
    <3> QED
      BY <3>1, <3>2, <3>4, <3>5
  <2>14. LinkMoves(p, d, n, 0)
    BY <2>6, <2>13 DEF LinkMoves
  <2>15. {d, i} \in SUBSET Inum /\ 0 \in InumOrNone
    BY <1>2 DEF InumOrNone
  <2>16. \A j \in {d, i} : valid'[j] /\ ilock[j] \in {Nobody, p} /\ \E l \in Field : Live(p)[l] = j
    BY <1>1, <1>4, <1>5, <2>4
  <2>17. \A j \in Inum \ {d, i} : disk'[j] = disk[j] /\ ent'[j] = ent[j] /\ (valid[j] => valid'[j])
    BY <2>4, <2>6
  <2>18. /\ sys[p].pc # "new" /\ sys'[p].pc = "unlinked" /\ sys'[p].put = "no" /\ sys'[p].call # "link"
    BY <1>2, <2>9, <2>10
  <2> QED
    BY <1>1, <1>2, <1>3, <2>5, <2>10, <2>11, <2>12, <2>14, <2>15, <2>16, <2>17, <2>18, CallEntry
<1> QED
  BY <1>6, <1>7 DEF UnlinkChild

\* The blocks that create() takes: one for the entries of a new directory, and one that the
\* directory of the name may need.
LEMMA BlocksTaken ==
  ASSUME InodesAssumption, NEW p \in Process, Cardinality(FreeBlocks) >= Need(p),
         NEW own, NEW c,
         own = IF sys[p].call = "mkdir" THEN {First(FreeBlocks)} ELSE {},
         c = First(FreeBlocks \ own)
  PROVE  /\ own \subseteq FreeBlocks /\ Taken(sys[p].dp, c) \subseteq FreeBlocks
         /\ own \cap Taken(sys[p].dp, c) = {}
<1> DEFINE d == sys[p].dp
<1>1. FreeBlocks \in SUBSET Nat /\ IsFiniteSet(FreeBlocks) /\ Cardinality(FreeBlocks) \in Nat
  <2>1. IsFiniteSet(Block)
    BY FS_Interval DEF Block, InodesAssumption
  <2> QED
    BY <2>1, FS_Subset, FS_CardinalityType DEF FreeBlocks, Block, InodesAssumption
<1>2. own \subseteq FreeBlocks
  <2>1. CASE sys[p].call = "mkdir"
    <3>1. Cardinality(FreeBlocks) >= 1
      BY <1>1, <2>1 DEF Need
    <3>2. FreeBlocks # {}
      BY <3>1, FS_EmptySet
    <3> QED
      BY <1>1, <2>1, <3>2, FirstIs
  <2>2. CASE sys[p].call # "mkdir"
    BY <2>2
  <2> QED
    BY <2>1, <2>2
<1>3. Grows(d) => FreeBlocks \ own # {}
  <2>1. SUFFICES ASSUME Grows(d) PROVE FreeBlocks \ own # {}
    OBVIOUS
  <2>2. CASE sys[p].call = "mkdir"
    <3>0. PICK b : b = First(FreeBlocks)
      OBVIOUS
    <3>1. Cardinality(FreeBlocks) >= 2 /\ own = {b} /\ b \in FreeBlocks
      BY <1>1, <1>2, <2>1, <2>2, <3>0 DEF Need
    <3>2. Cardinality(FreeBlocks \ {b}) = Cardinality(FreeBlocks) - 1
      BY <1>1, <3>1, FS_RemoveElement
    <3>3. Cardinality(FreeBlocks \ own) # 0
      BY <1>1, <3>1, <3>2
    <3> QED
      BY <3>3, FS_EmptySet
  <2>3. CASE sys[p].call # "mkdir"
    <3>1. Cardinality(FreeBlocks) >= 1 /\ own = {}
      BY <1>1, <2>1, <2>3 DEF Need
    <3>2. FreeBlocks # {}
      BY <3>1, FS_EmptySet
    <3> QED
      BY <3>1, <3>2
  <2> QED
    BY <2>2, <2>3
<1>4. Grows(d) => c \in FreeBlocks \ own
  <2>1. FreeBlocks \ own \in SUBSET Nat
    BY <1>1
  <2> QED
    BY <1>3, <2>1, FirstIs
<1> QED
  BY <1>2, <1>4 DEF Taken

\* What create() leaves: inode i is named n in directory d.
LEMMA CreateNewLinks ==
  ASSUME InodesAssumption, IInv, IInv', LInv, NEW p \in Process, CreateNew(p)
  PROVE  LInv'
<1> DEFINE d == sys[p].dp
           i == sys[p].ip
           n == sys[p].name
           dir == sys[p].call = "mkdir"
           own == IF dir THEN {First(FreeBlocks)} ELSE {}
           b == First(FreeBlocks \ own)
           mine == [Inode(i) EXCEPT !.nlink = 1, !.addrs = own]
           grown == [Grown(d, b) EXCEPT !.nlink = IF dir THEN @ + 1 ELSE @]
           f == [j \in {d, i} |-> IF j = i THEN mine ELSE grown]
           up == IF dir THEN d ELSE 0
<1>1. /\ AtPc(p, "new") /\ ilock[i] = Nobody /\ ~Untyped(i) /\ Cardinality(FreeBlocks) >= Need(p)
      /\ Iupdate(f) /\ used' = used \cup own \cup Taken(d, b)
      /\ ent' = [ent EXCEPT ![i] = [NoEntries EXCEPT ![".."] = up], ![d][n] = i]
      /\ UNCHANGED <<cwd, file, lost, panicked>>
  BY DEF CreateNew, Ilock, Taken
<1>2. /\ TypesOK /\ sys[p] \in CallType /\ sys[p].pc = "new" /\ sys[p].put = "no" /\ sys[p].puts = <<>>
      /\ d \in Inum /\ i \in Inum /\ "new" \in DirPc /\ Local(p) /\ 0 \notin Inum
  BY <1>1, AtFacts, InumFacts DEF DirPc, IInv, LInv
<1>3. /\ sys[p].call \in {"create", "mkdir"} /\ Pending(p) = 0 /\ disk[d].type = "dir"
      /\ n \in Name /\ ent[d][n] = 0 /\ disk[i].nlink = 0 /\ disk[i].addrs = {}
      /\ \A m \in Name : ent[i][m] = 0
      /\ disk[i].type = "dir" <=> dir
  BY <1>2 DEF Pending, Local, CallOf, Typed, Makes
<1>4. /\ ilock[d] = p /\ valid[d] /\ ~Untyped(d) /\ i # d
      /\ Inode(d) = disk[d] /\ IsNode(disk[d]) /\ Inode(i) = disk[i] /\ IsNode(disk[i])
  <2>1. ilock[d] = p /\ valid[d] /\ ~Untyped(d)
    BY <1>1, <1>2, HoldsDir DEF Untyped
  <2>2. i # d
    BY <1>1, <2>1, InumFacts
  <2> QED
    BY <1>1, <1>2, <2>1, <2>2, Sees
<1>5. \A j \in {cwd[p], file[p], d, i} : \E l \in Field : Live(p)[l] = j
  BY <1>2, LiveAre
<1>6. own \subseteq FreeBlocks /\ Taken(d, b) \subseteq FreeBlocks /\ own \cap Taken(d, b) = {}
  BY <1>1, BlocksTaken
<1> HIDE DEF own, b
<1>7. mine = With(disk[i], 1, own)
  <2>1. PICK m, e : m = disk[i] /\ e = [m EXCEPT !.nlink = 1]
    OBVIOUS
  <2>2. mine = [e EXCEPT !.addrs = own]
    BY <1>4, <2>1
  <2>3. e = With(m, 1, m.addrs)
    BY <1>4, <2>1, NodeIsWith
  <2>4. IsNode(e) /\ e.type = m.type /\ e.nlink = 1
    BY <2>3, WithParts
  <2>5. [e EXCEPT !.addrs = own] = With(e, e.nlink, own)
    BY <2>4, NodeIsWith
  <2> QED
    BY <2>1, <2>2, <2>4, <2>5 DEF With
<1> DEFINE k == IF dir THEN disk[d].nlink + 1 ELSE disk[d].nlink
           S == disk[d].addrs \cup Taken(d, b)
<1>8. grown = With(disk[d], k, S)
  <2>1. PICK m : m = Grown(d, b)
    OBVIOUS
  <2>2. m = With(disk[d], disk[d].nlink, S)
    BY <1>2, <1>4, <2>1, GrownIs
  <2> HIDE DEF S
  <2>3. IsNode(m) /\ m.type = disk[d].type /\ m.nlink = disk[d].nlink /\ m.addrs = S
    BY <2>2, WithParts
  <2>4. PICK e : e = k
    OBVIOUS
  <2>5. grown = [m EXCEPT !.nlink = e]
    BY <2>1, <2>3, <2>4
  <2>6. [m EXCEPT !.nlink = e] = With(m, e, m.addrs)
    BY <2>3, NodeIsWith
  <2> QED
    BY <2>3, <2>4, <2>5, <2>6 DEF With
<1> HIDE DEF mine, grown
<1>9. DOMAIN f = {d, i} /\ f[i] = With(disk[i], 1, own) /\ f[d] = With(disk[d], k, S)
  BY <1>4, <1>7, <1>8
<1> HIDE DEF f, k, S
<1>10. /\ IsNode(f[d]) /\ f[d].type = disk[d].type /\ f[d].addrs = S /\ f[d].nlink = k
       /\ IsNode(f[i]) /\ f[i].type = disk[i].type /\ f[i].addrs = own /\ f[i].nlink = 1
  BY <1>9, WithParts
<1>11. /\ \A j \in {d, i} : valid'[j] /\ disk'[j] = f[j]
       /\ \A j \in Inum \ {d, i} : valid'[j] = valid[j] /\ disk'[j] = disk[j]
  <2>1. PICK e, a : e = d /\ a = i
    OBVIOUS
  <2>2. /\ DOMAIN f = {e, a} /\ IsNode(f[e]) /\ IsNode(f[a]) /\ e \in Inum /\ a \in Inum
        /\ TypesOK /\ Iupdate(f)
    BY <1>1, <1>2, <1>9, <1>10, <2>1
  <2>3. /\ \A j \in {e, a} : valid'[j] /\ disk'[j] = f[j]
        /\ \A j \in Inum \ {e, a} : valid'[j] = valid[j] /\ disk'[j] = disk[j]
    BY <2>2, UpdatesTwo
  <2> QED
    BY <2>1, <2>3
<1>12. BlocksOK'
  <2> DEFINE add == [j \in Inum |-> IF j = i THEN own ELSE IF j = d THEN Taken(d, b) ELSE {}]
  <2>1. UNION {add[j] : j \in Inum} = own \cup Taken(d, b)
    BY <1>2, <1>4
  <2>2. /\ \A j \in Inum : add[j] \cap used = {}
        /\ \A j, l \in Inum : j # l => add[j] \cap add[l] = {}
    BY <1>6 DEF FreeBlocks
  <2>3. \A j \in Inum : disk'[j].addrs = disk[j].addrs \cup add[j]
    BY <1>3, <1>4, <1>10, <1>11 DEF S
  <2>4. used' = used \cup UNION {add[j] : j \in Inum}
    BY <1>1, <2>1
  <2> HIDE DEF add
  <2> QED
    BY <2>2, <2>3, <2>4, BlocksGrow DEF LInv
<1>13. /\ ent'[d][n] = i /\ \A j \in Inum \ {d, i} : ent'[j] = ent[j]
       /\ \A e \in Inum : \A m \in Name : e # d \/ m # n => ent'[e][m] = ent[e][m]
  <2> DEFINE g == [NoEntries EXCEPT ![".."] = up]
             h == [ent EXCEPT ![i] = g]
  <2>1. \A m \in Name : g[m] = 0
    BY InumFacts DEF NoEntries
  <2>2. ent' = [h EXCEPT ![d][n] = i]
    BY <1>1
  <2> HIDE DEF g
  <2>3. h[d] = ent[d] /\ h[i] = g /\ DOMAIN h = Inum /\ \A j \in Inum \ {i} : h[j] = ent[j]
    BY <1>2, <1>4 DEF TypesOK
  <2>4. DOMAIN ent[d] = Name \cup {".."}
    BY <1>2 DEF TypesOK
  <2> HIDE DEF h
  <2>5. ent'[d] = [ent[d] EXCEPT ![n] = i] /\ \A j \in Inum \ {d} : ent'[j] = h[j]
    BY <1>2, <2>2, <2>3
  <2>6. ent'[d][n] = i /\ \A m \in Name \ {n} : ent'[d][m] = ent[d][m]
    BY <1>3, <2>4, <2>5
  <2>7. ent'[i] = g
    BY <1>2, <1>4, <2>3, <2>5
  <2>8. ASSUME NEW e \in Inum, NEW m \in Name, e # d \/ m # n PROVE ent'[e][m] = ent[e][m]
    <3>1. CASE e = d
      BY <2>6, <2>8, <3>1
    <3>2. CASE e = i
      BY <1>3, <2>1, <2>7, <3>2
    <3>3. CASE e # d /\ e # i
      BY <2>3, <2>5, <3>3
    <3> QED
      BY <3>1, <3>2, <3>3
  <2>9. \A j \in Inum \ {d, i} : ent'[j] = ent[j]
    BY <2>3, <2>5
  <2> QED
    BY <2>6, <2>8, <2>9
<1>14. ASSUME Pending(p)' = 0, NEW j \in Inum
       PROVE  /\ disk'[j].type = disk[j].type /\ disk'[j].addrs \subseteq Block
              /\ disk'[j].nlink = disk[j].nlink + One(i = j) - One(ent[d][n] = j)
                   + One(j = d /\ IsDir(i)) - One(j = d /\ IsDir(ent[d][n]))
                   + One(Pending(p)' = j) - One(Pending(p) = j)
  <2>1. disk[j].nlink \in Int /\ disk[j].addrs \subseteq Block
    BY DEF LInv, NodesOK
  <2>2. disk'[j].type = disk[j].type /\ disk'[j].addrs \subseteq Block
    <3>1. own \subseteq Block /\ Taken(d, b) \subseteq Block
      BY <1>6 DEF FreeBlocks
    <3>2. j = d => S \subseteq Block
      BY <2>1, <3>1 DEF S
    <3> QED
      BY <1>10, <1>11, <2>1, <3>1, <3>2
  <2>3. j # 0 /\ ~IsDir(0) /\ (IsDir(i) <=> dir)
    BY <1>2, <1>3 DEF IsDir
  <2>4. disk'[j].nlink = disk[j].nlink + One(i = j) + One(j = d /\ IsDir(i))
    <3>1. CASE j = d
      BY <1>4, <1>10, <1>11, <2>1, <2>3, <3>1 DEF One, k
    <3>2. CASE j = i
      BY <1>3, <1>4, <1>10, <1>11, <2>1, <3>2 DEF One
    <3>3. CASE j # d /\ j # i
      BY <1>11, <2>1, <3>3 DEF One
    <3> QED
      BY <3>1, <3>2, <3>3
  <2>5. /\ One(ent[d][n] = j) = 0 /\ One(j = d /\ IsDir(ent[d][n])) = 0
        /\ One(Pending(p)' = j) = 0 /\ One(Pending(p) = j) = 0
        /\ One(i = j) \in Int /\ One(j = d /\ IsDir(i)) \in Int
    BY <1>3, <1>14, <2>3 DEF One
  <2> QED
    BY <2>1, <2>2, <2>4, <2>5
<1>15. Pending(p)' = 0 => LinkMoves(p, d, n, i)
  BY <1>13, <1>14 DEF LinkMoves
<1>16. {d, i} \in SUBSET Inum /\ i \in InumOrNone /\ disk[i].type # "none"
  <2>1. disk[i].type # "none"
    BY <1>1, <1>2, Sees
  <2> QED
    BY <1>2, <2>1 DEF InumOrNone
<1>17. \A j \in {d, i} : valid'[j] /\ ilock[j] \in {Nobody, p} /\ \E l \in Field : Live(p)[l] = j
  BY <1>1, <1>4, <1>5, <1>11
<1>18. \A j \in Inum \ {d, i} : disk'[j] = disk[j] /\ ent'[j] = ent[j] /\ (valid[j] => valid'[j])
  BY <1>11, <1>13
<1>19. CASE Done(p, <<d, i>>)
  <2>1. <<d, i>> \in Puts /\ Put1(<<d, i>>) = d /\ Put2(<<d, i>>) = i
    BY <1>2, NewPuts
  <2>2. /\ CallOf(p)' /\ Downward(p)' /\ Pending(p)' = 0 /\ sys'[p].pc = "idle" /\ sys'[p].call = "none"
        /\ sys'[p].put = "no" /\ sys'[p].dp = 0 /\ sys'[p].ip = 0 /\ sys'[p].puts = <<d, i>>
        /\ \A r \in Process \ {p} : sys'[r] = sys[r]
    BY <1>2, <1>19, <2>1, IdleLocal
  <2>3. Takes(p)
    <3>1. \A l \in Field : Live(p)'[l] \in {0, cwd[p], file[p], d, i}
      BY <1>1, <2>1, <2>2 DEF Live, Field
    <3> QED
      BY <1>5, <3>1 DEF Takes
  <2>4. LinkMoves(p, d, n, i)
    BY <1>15, <2>2
  <2> QED
    BY <1>1, <1>2, <1>3, <1>12, <1>16, <1>17, <1>18, <2>2, <2>3, <2>4, CallEntry
<1>20. CASE ~dir /\ sys' = [sys EXCEPT ![p].pc = "made", ![p].dp = 0, ![p].puts = <<d>>]
  <2> DEFINE c == [sys[p] EXCEPT !.pc = "made", !.dp = 0, !.puts = <<d>>]
  <2>1. Put1(<<d>>) = d /\ Put2(<<d>>) = 0
    BY <1>2, NewPuts
  <2>2. sys' = [sys EXCEPT ![p] = c]
    BY <1>20
  <2>3. /\ c.pc = "made" /\ c.call = "create" /\ c.path = sys[p].path /\ c.new = sys[p].new
        /\ c.dp = 0 /\ c.ip = i /\ c.puts = <<d>> /\ c.put = "no"
    BY <1>2, <1>3, <1>20 DEF CallType
  <2> HIDE DEF c
  <2>4. sys'[p] = c /\ \A r \in Process \ {p} : sys'[r] = sys[r]
    BY <1>2, <2>2 DEF TypesOK
  <2>5. CallOf(p)' /\ Downward(p)' /\ Pending(p)' = 0
    BY <1>2, <2>3, <2>4 DEF CallOf, Downward, Pending, Local
  <2>6. Takes(p)
    <3>1. \A l \in Field : Live(p)'[l] \in {0, cwd[p], file[p], d, i}
      BY <1>1, <2>1, <2>3, <2>4 DEF Live, Field
    <3> QED
      BY <1>5, <3>1 DEF Takes
  <2>7. LinkMoves(p, d, n, i)
    BY <1>15, <2>5
  <2>8. sys'[p].pc = "made" /\ sys'[p].put = "no" /\ sys'[p].call # "link"
    BY <2>3, <2>4
  <2> QED
    BY <1>1, <1>2, <1>3, <1>12, <1>16, <1>17, <1>18, <2>4, <2>5, <2>6, <2>7, <2>8, CallEntry
<1>21. Done(p, <<d, i>>) \/ (~dir /\ sys' = [sys EXCEPT ![p].pc = "made", ![p].dp = 0, ![p].puts = <<d>>])
  BY DEF CreateNew
<1> QED
  BY <1>19, <1>20, <1>21

-----------------------------------------------------------------------------

\* The iput() of a call leaves where the call is.
LEMMA PutKeeps ==
  ASSUME InodesAssumption, IInv, LInv, NEW p \in Process, NEW s, Putting(p, s), NEW c,
         c.pc = sys[p].pc, c.call = sys[p].call, c.path = sys[p].path, c.new = sys[p].new,
         c.dp = sys[p].dp, c.ip = sys[p].ip, sys' = [sys EXCEPT ![p] = c], UNCHANGED <<cwd, file>>
  PROVE  /\ sys'[p] = c /\ \A q \in Process \ {p} : sys'[q] = sys[q] /\ cwd'[q] = cwd[q] /\ file'[q] = file[q]
         /\ CallOf(p)' /\ Downward(p)' /\ Removes(p)' /\ Makes(p)' /\ Pending(p)' = Pending(p)
         /\ sys[p].pc \notin {"parent", "child", "new"} /\ sys'[p].pc = sys[p].pc
         /\ \A k \in {"cwd", "file", "dp", "ip"} : Live(p)'[k] = Live(p)[k]
<1>1. TypesOK /\ sys[p] \in CallType /\ Consistent(sys[p]) /\ sys[p].puts # <<>> /\ Local(p)
  BY PutFacts DEF IInv, LInv
<1>2. sys'[p] = c /\ \A q \in Process \ {p} : sys'[q] = sys[q]
  BY <1>1 DEF TypesOK
<1>3. sys[p].pc \notin {"parent", "child", "new"}
  BY <1>1 DEF Consistent
<1>4. CallOf(p)' /\ Downward(p)' /\ Removes(p)' /\ Makes(p)' /\ Pending(p)' = Pending(p)
  BY <1>1, <1>2, <1>3 DEF Local, CallOf, Downward, Removes, Makes, Pending
<1>5. \A k \in {"cwd", "file", "dp", "ip"} : Live(p)'[k] = Live(p)[k]
  BY <1>2 DEF Live
<1> QED
  BY <1>2, <1>3, <1>4, <1>5

\* Such a step that leaves the disk alone.
LEMMA PutStatic ==
  ASSUME InodesAssumption, IInv, LInv, NEW p \in Process, NEW s, Putting(p, s), NEW c,
         c.pc = sys[p].pc, c.call = sys[p].call, c.path = sys[p].path, c.new = sys[p].new,
         c.dp = sys[p].dp, c.ip = sys[p].ip, sys' = [sys EXCEPT ![p] = c],
         UNCHANGED <<fs, cwd, file, panicked>>, lost \subseteq lost',
         \A k \in {"put1", "put2"} : Live(p)'[k] = 0 \/ \E l \in Field : Live(p)'[k] = Live(p)[l],
         Frees(p)',
         \A j \in Inum : valid[j] /\ ~valid'[j] =>
           /\ ilock[j] = p \/ (ref[j] <= 1 /\ Put1(sys[p].puts) = j)
           /\ j \in lost' \/ disk[j].type = "none" \/ disk[j].nlink # 0 \/ IsNew(j)'
  PROVE  LInv'
<1>1. UNCHANGED <<disk, ent, used>>
  BY DEF fs
<1>2. /\ \A q \in Process \ {p} : sys'[q] = sys[q] /\ cwd'[q] = cwd[q] /\ file'[q] = file[q]
      /\ CallOf(p)' /\ Downward(p)' /\ Removes(p)' /\ Makes(p)' /\ Pending(p)' = Pending(p)
      /\ sys[p].pc \notin {"parent", "child", "new"} /\ sys'[p].pc = sys[p].pc
      /\ sys'[p].call = sys[p].call /\ sys'[p].ip = sys[p].ip
      /\ \A k \in {"cwd", "file", "dp", "ip"} : Live(p)'[k] = Live(p)[k]
  <2> UNCHANGED <<cwd, file>>
    OBVIOUS
  <2> QED
    BY PutKeeps
<1>3. Takes(p)
  BY <1>2 DEF Takes, Field
<1>4. Gains(p) /\ \A k \in Field : Live(p)'[k] # 0 => disk'[Live(p)'[k]].type # "none"
  BY <1>1, <1>3, TakesTyped
<1>5. StepOf(p)
  BY <1>1, <1>2, <1>4 DEF StepOf
<1>6. Typed(p)'
  <2>1. Typed(p)
    BY DEF LInv, Local
  <2> QED
    BY <1>1, <1>2, <1>4, <2>1 DEF Typed
<1>7. Local(p)' /\ ~panicked'
  BY <1>2, <1>6 DEF Local, LInv
<1> QED
  BY <1>2, <1>5, <1>7, StaticStep

\* A copy is what the disk says if nobody else is freeing its inode.
LEMMA CopyIs ==
  ASSUME InodesAssumption, IInv, NEW i \in Inum, valid[i],
         \A q \in Process : sys[q].put = "freed" => Put1(sys[q].puts) # i
  PROVE  mem[i] = disk[i] /\ disk[i].type # "none"
BY DEF IInv, CopiesOK, Freed

\* iput() counts the reference down.
LEMMA DroppedLinks ==
  ASSUME InodesAssumption, IInv, LInv, NEW p \in Process, NEW s \in {"no", "drop"}, Putting(p, s), Dropped(p),
         UNCHANGED <<fs, cwd, file, panicked>>, lost \subseteq lost',
         LastReference(Put(p)) => Put(p) \in lost' \/ s = "no", s = "no" => ~LastReference(Put(p))
  PROVE  LInv'
<1> DEFINE a == Put(p)
           r == sys[p].puts
           c == [sys[p] EXCEPT !.puts = Tail(r), !.put = "no"]
<1>1. /\ TypesOK /\ sys[p] \in CallType /\ sys[p].put = s /\ a = Put1(r) /\ a \in Inum /\ r \in Puts /\ r # <<>>
  BY PutFacts DEF IInv
<1>2. /\ valid' = [valid EXCEPT ![a] = @ /\ ref[a] > 1] /\ sys' = [sys EXCEPT ![p] = c]
  BY DEF Dropped
<1>3. Put1(Tail(r)) = Put2(r) /\ Put2(Tail(r)) = 0
  BY <1>1, PutsAre
<1>4. /\ c.pc = sys[p].pc /\ c.call = sys[p].call /\ c.path = sys[p].path /\ c.new = sys[p].new
      /\ c.dp = sys[p].dp /\ c.ip = sys[p].ip /\ c.puts = Tail(r) /\ c.put = "no"
  BY <1>1 DEF CallType
<1> HIDE DEF c
<1>5. sys'[p] = c
  BY <1>1, <1>2 DEF TypesOK
<1>6. Live(p)'["put1"] = Live(p)["put2"] /\ Live(p)'["put2"] = 0 /\ "put2" \in Field
  BY <1>3, <1>4, <1>5 DEF Live, Field
<1>7. ASSUME NEW j \in Inum, valid[j], ~valid'[j]
      PROVE  /\ ref[j] <= 1 /\ Put1(sys[p].puts) = j
             /\ j \in lost' \/ disk[j].nlink # 0
  <2>1. j = a /\ ref[a] \in Int /\ ~(ref[a] > 1)
    BY <1>1, <1>2, <1>7 DEF TypesOK
  <2>2. "put1" \in Field /\ Pointers(p)["put1"] = a
    BY <1>1 DEF Field, Pointers
  <2>3. ref[a] = 1
    <3>1. ref[a] > 0
      BY <1>1, <2>2, PointerCounts DEF IInv
    <3> QED
      BY <2>1, <3>1
  <2>4. ASSUME NEW q \in Process, sys[q].put = "freed" PROVE Put1(sys[q].puts) # a
    <3>1. q # p
      BY <1>1, <2>4
    <3>2. Pointers(q)["put1"] = Put1(sys[q].puts)
      BY DEF Pointers
    <3> QED
      BY <1>1, <2>1, <2>2, <3>1, <3>2, PointerCounts DEF IInv
  <2>5. mem[a] = disk[a]
    BY <1>1, <1>7, <2>1, <2>4, CopyIs
  <2>6. ~LastReference(a) => disk[a].nlink # 0
    BY <1>7, <2>1, <2>3, <2>5 DEF LastReference
  <2> QED
    BY <1>1, <2>1, <2>6
<1>8. Frees(p)'
  BY <1>4, <1>5 DEF Frees
<1> QED
  BY <1>2, <1>4, <1>6, <1>7, <1>8, PutStatic

\* iput() locks the inode that it is about to free.
LEMMA IputLocksLinks ==
  ASSUME InodesAssumption, IInv, LInv, NEW p \in Process, IputLocks(p)
  PROVE  LInv'
<1>0. PICK a : a = Put(p)
  OBVIOUS
<1> DEFINE c == [sys[p] EXCEPT !.put = "free"]
<1>1. /\ Putting(p, "no") /\ LastReference(a) /\ ilock[a] = Nobody /\ sys' = [sys EXCEPT ![p] = c]
      /\ UNCHANGED <<fs, ref, valid, mem, cwd, file, lost, panicked>>
  BY <1>0 DEF IputLocks
<1>2. /\ TypesOK /\ sys[p] \in CallType /\ sys[p].put = "no" /\ a = Put1(sys[p].puts) /\ a \in Inum
  BY <1>0, <1>1, PutFacts DEF IInv
<1>3. /\ c.pc = sys[p].pc /\ c.call = sys[p].call /\ c.path = sys[p].path /\ c.new = sys[p].new
      /\ c.dp = sys[p].dp /\ c.ip = sys[p].ip /\ c.puts = sys[p].puts /\ c.put = "free"
  BY <1>2 DEF CallType
<1> HIDE DEF c
<1>4. sys'[p] = c /\ \A q \in Process \ {p} : sys'[q] = sys[q]
  BY <1>1, <1>2 DEF TypesOK
<1>5. Live(p)' = Live(p) /\ Live(p)["put1"] = a /\ \A q \in Process \ {p} : Live(q)' = Live(q)
  BY <1>1, <1>2, <1>3, <1>4 DEF Live
<1>6. valid[a] /\ mem[a] = disk[a] /\ disk[a].nlink = 0
  <2>1. valid[a] /\ mem[a].nlink = 0
    BY <1>1 DEF LastReference
  <2>2. \A q \in Process : sys[q].put = "freed" => Put1(sys[q].puts) # a
    BY <1>1, InumFacts DEF IInv, LocksOK
  <2> QED
    BY <1>2, <2>1, <2>2, CopyIs
<1>7. Sole(p, "put1", a)'
  <2>1. SUFFICES ASSUME NEW q \in Process, NEW l \in Field, Live(q)[l] = a PROVE q = p /\ l = "put1"
    BY <1>5 DEF Sole
  <2>2. Pointers(q)[l] = a
    <3>1. a # 0
      BY <1>2, InumFacts
    <3> QED
      BY <1>2, <2>1, <3>1, LiveAre
  <2>3. "put1" \in Field /\ Pointers(p)["put1"] = a
    BY <1>2 DEF Field, Pointers
  <2>4. ref[a] = 1
    BY <1>1 DEF LastReference
  <2> QED
    BY <1>2, <2>2, <2>3, <2>4, PointerCounts DEF IInv
<1>8. Frees(p)'
  <2>1. Put1(sys'[p].puts) = a /\ sys'[p].put = "free" /\ valid'[a] /\ disk'[a].nlink = 0
    BY <1>1, <1>2, <1>3, <1>4, <1>6 DEF fs
  <2> QED
    BY <1>7, <2>1 DEF Frees
<1>9. \A k \in {"put1", "put2"} : \E l \in Field : Live(p)'[k] = Live(p)[l]
  BY <1>5 DEF Field
<1> QED
  BY <1>1, <1>3, <1>8, <1>9, PutStatic

\* iput() has freed the inode, and its copy is no longer valid.
LEMMA IputInvalidatesLinks ==
  ASSUME InodesAssumption, IInv, LInv, NEW p \in Process, IputInvalidates(p)
  PROVE  LInv'
<1>0. PICK a : a = Put(p)
  OBVIOUS
<1> DEFINE c == [sys[p] EXCEPT !.put = "drop"]
<1>1. /\ Putting(p, "freed") /\ valid' = [valid EXCEPT ![a] = FALSE] /\ sys' = [sys EXCEPT ![p] = c]
      /\ UNCHANGED <<fs, cwd, file, lost, panicked>>
  BY <1>0 DEF IputInvalidates
<1>2. /\ TypesOK /\ sys[p] \in CallType /\ sys[p].put = "freed" /\ a = Put1(sys[p].puts) /\ a \in Inum
  BY <1>0, <1>1, PutFacts DEF IInv
<1>3. /\ c.pc = sys[p].pc /\ c.call = sys[p].call /\ c.path = sys[p].path /\ c.new = sys[p].new
      /\ c.dp = sys[p].dp /\ c.ip = sys[p].ip /\ c.puts = sys[p].puts /\ c.put = "drop"
  BY <1>2 DEF CallType
<1> HIDE DEF c
<1>4. sys'[p] = c /\ \A q \in Process \ {p} : sys'[q] = sys[q]
  BY <1>1, <1>2 DEF TypesOK
<1>5. Live(p)' = Live(p)
  BY <1>1, <1>2, <1>3, <1>4 DEF Live
<1>6. disk[a].type = "none" \/ IsNew(a)
  BY <1>2 DEF LInv, Local, Frees
<1>7. IsNew(a) => IsNew(a)'
  BY <1>3, <1>4 DEF IsNew
<1>8. ilock[a] = p
  BY <1>2, HeldAre
<1>9. \A j \in Inum : valid[j] /\ ~valid'[j] => j = a
  BY <1>1, <1>2 DEF TypesOK
<1>10. Frees(p)'
  BY <1>3, <1>4 DEF Frees
<1>11. \A k \in {"put1", "put2"} : \E l \in Field : Live(p)'[k] = Live(p)[l]
  BY <1>5 DEF Field
<1>12. \A j \in Inum : valid[j] /\ ~valid'[j] =>
         ilock[j] = p /\ (disk[j].type = "none" \/ IsNew(j)')
  BY <1>6, <1>7, <1>8, <1>9
<1> QED
  BY <1>1, <1>3, <1>10, <1>11, <1>12, PutStatic

\* iput() frees inode i: its names are lost, and nobody had it but p.
LEMMA IputFreesLinks ==
  ASSUME InodesAssumption, IInv, LInv, NEW p \in Process, IputFrees(p)
  PROVE  LInv'
<1>0. PICK i : i = Put(p)
  OBVIOUS
<1> DEFINE c == [sys[p] EXCEPT !.put = "freed"]
           node == [mem[i] EXCEPT !.type = "none"]
           n == [node EXCEPT !.addrs = {}]
<1>1. /\ Putting(p, "free") /\ Iupdate(Only(i, n)) /\ used' = used \ node.addrs
      /\ ent' = [ent EXCEPT ![i] = NoEntries] /\ sys' = [sys EXCEPT ![p] = c]
      /\ lost' = lost \cup {ent[i][m] : m \in {x \in Name : ent[i][x] # 0}}
      /\ UNCHANGED <<cwd, file, panicked>>
  BY <1>0 DEF IputFrees, Itrunc
<1>2. /\ TypesOK /\ sys[p] \in CallType /\ sys[p].put = "free" /\ i = Put1(sys[p].puts) /\ i \in Inum
      /\ Local(p) /\ 0 \notin Inum
  BY <1>0, <1>1, PutFacts, InumFacts DEF IInv, LInv
<1>3. /\ c.pc = sys[p].pc /\ c.call = sys[p].call /\ c.path = sys[p].path /\ c.new = sys[p].new
      /\ c.dp = sys[p].dp /\ c.ip = sys[p].ip /\ c.puts = sys[p].puts /\ c.put = "freed"
  BY <1>2 DEF CallType
<1> HIDE DEF c
<1>4. /\ sys'[p] = c /\ \A q \in Process \ {p} : sys'[q] = sys[q] /\ cwd'[q] = cwd[q] /\ file'[q] = file[q]
      /\ CallOf(p)' /\ Downward(p)' /\ Removes(p)' /\ Makes(p)' /\ Pending(p)' = Pending(p)
      /\ sys[p].pc \notin {"parent", "child", "new"} /\ sys'[p].pc = sys[p].pc
      /\ \A k \in {"cwd", "file", "dp", "ip"} : Live(p)'[k] = Live(p)[k]
  BY <1>1, <1>3, PutKeeps
<1>5. valid[i] /\ disk[i].nlink = 0 /\ Sole(p, "put1", i) /\ ilock[i] = p
  BY <1>2, HeldAre DEF Local, Frees
<1>6. mem[i] = disk[i] /\ disk[i].type # "none" /\ IsNode(disk[i])
  <2>1. ASSUME NEW q \in Process, sys[q].put = "freed" PROVE Put1(sys[q].puts) # i
    BY <1>2, <1>5, <2>1 DEF IInv, LocksOK
  <2> QED
    BY <1>2, <1>5, <2>1, CopyIs DEF TypesOK
<1>7. node.addrs = disk[i].addrs /\ IsNode(n) /\ n.type = "none" /\ n.nlink = 0 /\ n.addrs = {}
  <2>1. PICK a, b : a = disk[i].type /\ b = disk[i].addrs
    OBVIOUS
  <2>2. mem[i] = [type |-> a, nlink |-> 0, addrs |-> b]
    BY <1>5, <1>6, <2>1 DEF IsNode
  <2>3. node = [type |-> "none", nlink |-> 0, addrs |-> b]
    BY <2>2
  <2>4. IsNode(node) /\ node.type = "none" /\ node.nlink = 0 /\ node.addrs = b
    BY <2>3 DEF IsNode
  <2> HIDE DEF node
  <2>5. n = With(node, node.nlink, {})
    BY <2>4, NodeIsWith
  <2>6. n = [type |-> "none", nlink |-> 0, addrs |-> {}]
    BY <2>4, <2>5 DEF With
  <2> HIDE DEF n
  <2>7. IsNode(n) /\ n.type = "none" /\ n.nlink = 0 /\ n.addrs = {}
    BY <2>6 DEF IsNode
  <2> QED
    BY <2>1, <2>4, <2>7
<1> HIDE DEF node, n
<1>8. disk'[i] = n /\ valid'[i] /\ \A j \in Inum \ {i} : disk'[j] = disk[j] /\ valid'[j] = valid[j]
  BY <1>1, <1>2, <1>7, UpdatesOne
<1>9. /\ \A m \in Name : ent'[i][m] = 0
      /\ \A j \in Inum \ {i} : ent'[j] = ent[j]
  BY <1>1, <1>2 DEF TypesOK, NoEntries
<1>10. i # ROOTINO /\ \A d \in Inum : \A m \in Name : ent[d][m] # i
  BY <1>2, <1>5, NoName
<1>11. Live(p)["put1"] = i /\ Live(p)'["put1"] = 0 /\ Live(p)'["put2"] = Live(p)["put2"]
       /\ {"put1", "put2", "ip"} \subseteq Field /\ Live(p)["ip"] = sys[p].ip
       /\ Field = {"cwd", "file", "dp", "ip"} \cup {"put1", "put2"}
  BY <1>2, <1>3, <1>4 DEF Live, Field
<1>12. ASSUME NEW k \in Field, Live(p)'[k] # 0
       PROVE  /\ k # "put1" /\ Live(p)'[k] = Live(p)[k] /\ Live(p)[k] # i
              /\ Live(p)[k] \in Inum /\ disk'[Live(p)[k]] = disk[Live(p)[k]] /\ disk[Live(p)[k]].type # "none"
  <2>1. k # "put1" /\ Live(p)'[k] = Live(p)[k]
    BY <1>4, <1>11, <1>12
  <2>2. Live(p)[k] # i
    BY <1>5, <2>1 DEF Sole
  <2>3. Live(p)[k] \in Inum
    BY <1>2, <1>12, <2>1, LiveAre DEF InumOrNone
  <2> QED
    BY <1>2, <1>8, <1>12, <2>1, <2>2, <2>3 DEF Local, Typed
<1>13. StepOf(p)
  <2>1. Gains(p)
    BY <1>12 DEF Gains
  <2>2. ASSUME NEW j \in Inum, disk'[j] # disk[j] \/ ent'[j] # ent[j] PROVE Writes(p, j)
    <3>1. j = i
      BY <1>8, <1>9, <2>2
    <3> QED
      BY <1>2, <1>5, <1>11, <3>1 DEF Writes
  <2>3. \A j \in Inum : valid[j] => valid'[j]
    BY <1>8
  <2> QED
    BY <1>4, <2>1, <2>2, <2>3 DEF StepOf
<1>14. Local(p)'
  <2>1. ASSUME sys'[p].call = "link", sys'[p].ip # 0 PROVE disk'[sys'[p].ip].type = "file"
    <3>1. sys'[p].ip = sys[p].ip /\ sys'[p].call = sys[p].call /\ Live(p)'["ip"] = sys'[p].ip
      BY <1>3, <1>4 DEF Live
    <3>2. disk'[sys[p].ip] = disk[sys[p].ip]
      BY <1>11, <1>12, <2>1, <3>1
    <3> QED
      BY <1>2, <2>1, <3>1, <3>2 DEF Local, Typed
  <2>2. Typed(p)'
    BY <1>4, <1>12, <2>1 DEF Typed
  <2>3. Frees(p)'
    BY <1>2, <1>3, <1>4, <1>7, <1>8 DEF Frees
  <2> QED
    BY <1>4, <2>2, <2>3 DEF Local
<1>15. \A q \in Process : Local(q)'
  BY <1>13, <1>14, OthersKeep
<1>16. NodesOK'
  <2>1. ASSUME NEW j \in Inum
        PROVE  /\ disk'[j].type \in {"none", "file", "dir"} /\ disk'[j].nlink \in Int
               /\ disk'[j].addrs \subseteq Block
               /\ disk'[j].type = "none" => disk'[j].nlink = 0 /\ disk'[j].addrs = {}
    BY <1>7, <1>8 DEF LInv, NodesOK
  <2>2. ASSUME NEW j \in Inum, NEW m \in Name, ent'[j][m] # 0
        PROVE  disk'[j].type = "dir" /\ disk'[ent'[j][m]].type # "none"
    <3>1. j # i /\ ent'[j][m] = ent[j][m] /\ ent[j][m] # i
      BY <1>9, <1>10, <2>2
    <3>2. ent[j][m] \in Inum
      BY <1>2, <2>2, <3>1 DEF TypesOK, InumOrNone
    <3> QED
      BY <1>8, <2>2, <3>1, <3>2 DEF LInv, NodesOK
  <2> QED
    BY <2>1, <2>2 DEF NodesOK, Inum, Block
<1>17. BlocksOK'
  <2>1. disk'[i].addrs = {} /\ used' = used \ disk[i].addrs /\ \A j \in Inum \ {i} : disk'[j].addrs = disk[j].addrs
    BY <1>1, <1>7, <1>8
  <2> QED
    BY <1>2, <2>1, BlocksFreed DEF LInv
<1>18. UnusedOK'
  <2>1. {i} \in SUBSET Inum /\ lost \subseteq lost'
    BY <1>1, <1>2
  <2>2. \A j \in {i} : valid'[j] \/ IsNew(j)' \/ disk'[j].type = "none" \/ j \in lost'
    BY <1>8
  <2>3. \A j \in Inum \ {i} : disk'[j] = disk[j] /\ (valid[j] => valid'[j])
    BY <1>8
  <2> QED
    BY <1>4, <2>1, <2>2, <2>3, UnusedMoves
<1>19. ASSUME NEW j \in Inum
       PROVE  disk'[j].nlink >= Count(j)' /\ (j \notin lost' => disk'[j].nlink = Count(j)')
  <2>0. \A d \in Inum : \A m \in Name : ent[d][m] \in InumOrNone /\ ent[d][m] # i
    BY <1>2, <1>10 DEF TypesOK
  <2>1. Named(j)' \subseteq Named(j) /\ (j \notin lost' => Named(j) \subseteq Named(j)')
    <3>1. Named(j)' \subseteq Named(j)
      BY <1>2, <1>8, <1>9 DEF Named, Inum
    <3>2. ASSUME j \notin lost', NEW x \in Named(j) PROVE x \in Named(j)'
      <4>1. x \in Inum \X Name /\ disk[x[1]].type = "dir" /\ ent[x[1]][x[2]] = j
        BY DEF Named
      <4>2. x[1] # i
        BY <1>1, <1>2, <3>2, <4>1
      <4> QED
        BY <1>8, <1>9, <4>1, <4>2 DEF Named, Inum
    <3> QED
      BY <3>1, <3>2
  <2>2. Below(j)' \subseteq Below(j) /\ (j # i => Below(j)' = Below(j))
    <3>1. CASE j = i
      BY <1>7, <1>8, <3>1 DEF Below
    <3>2. CASE j # i
      BY <1>8, <1>9, <2>0, <3>2 DEF Below, InumOrNone
    <3> QED
      BY <3>1, <3>2
  <2>3. Counting(j)' = Counting(j)
    <3>1. \A q \in Process : Pending(q)' = Pending(q)
      BY <1>4, <1>13, PendingStays
    <3> QED
      BY <3>1, CountingIs
  <2> DEFINE A == Named(j)
             A1 == Named(j)'
             B == Below(j)
             B1 == Below(j)'
             C == Counting(j)
             e == IF j = ROOTINO THEN 1 ELSE 0
  <2>4. Count(j) = Cardinality(A) + Cardinality(B) + Cardinality(C) + e
    BY DEF Count
  <2>5. Count(j)' = Cardinality(A1) + Cardinality(B1) + Cardinality(C) + e
    BY <2>3 DEF Count, ROOTINO
  <2>6. /\ IsFiniteSet(A) /\ IsFiniteSet(B) /\ Cardinality(A) \in Nat /\ Cardinality(B) \in Nat
        /\ Cardinality(C) \in Nat /\ Cardinality(A1) \in Nat /\ Cardinality(B1) \in Nat /\ e \in Nat
    BY CountParts
  <2>7. disk[j].nlink \in Int /\ disk[j].nlink >= Count(j) /\ (j \notin lost => disk[j].nlink = Count(j))
    BY DEF LInv, LinksOK, NodesOK
  <2>8. A1 \subseteq A /\ B1 \subseteq B /\ (j \notin lost' => A1 = A) /\ (j # i => B1 = B)
    BY <2>1, <2>2
  <2> HIDE DEF A, A1, B, B1, C, e
  <2>9. Cardinality(A1) <= Cardinality(A) /\ Cardinality(B1) <= Cardinality(B)
    BY <2>6, <2>8, FS_Subset
  <2>10. CASE j = i
    <3>1. disk'[j].nlink = 0 /\ disk[j].nlink = 0
      BY <1>5, <1>7, <1>8, <2>10
    <3> QED
      BY <2>4, <2>5, <2>6, <2>7, <2>9, <3>1
  <2>11. CASE j # i
    <3>1. disk'[j].nlink = disk[j].nlink /\ (j \notin lost' => j \notin lost)
      BY <1>1, <1>8, <2>11
    <3> QED
      BY <2>4, <2>5, <2>6, <2>7, <2>8, <2>9, <2>11, <3>1
  <2> QED
    BY <2>10, <2>11
<1>20. LinksOK' /\ ~panicked'
  BY <1>1, <1>19 DEF LinksOK, Inum, LInv
<1> QED
  BY <1>15, <1>16, <1>17, <1>18, <1>20 DEF LInv

\* No process finds an inode that it is about to lock free, nor removes one without a link.
LEMMA NeverPanics ==
  ASSUME InodesAssumption, IInv, LInv, NEW p \in Process
  PROVE  ~Panic(p)
<1>1. SUFFICES ASSUME Panic(p) PROVE FALSE
  OBVIOUS
<1>2. PICK t : t = Target(p)
  OBVIOUS
<1>3. TypesOK /\ Local(p)
  BY DEF IInv, LInv
<1>4. t \in {sys[p].dp, sys[p].ip} /\ t # 0 /\ ilock[t] = Nobody
  BY <1>1, <1>2 DEF Panic, Target
<1>5. t \in Inum /\ \E k \in Field : Live(p)[k] = t
  <2>1. \A j \in {sys[p].dp, sys[p].ip} : \E k \in Field : Live(p)[k] = j
    BY <1>3, LiveAre
  <2>2. \A k \in Field : Live(p)[k] \in InumOrNone
    BY <1>3, LiveAre
  <2> QED
    BY <1>4, <2>1, <2>2 DEF InumOrNone
<1>6. ~Untyped(t)
  BY <1>3, <1>4, <1>5 DEF Local, Typed, Untyped
<1>7. AtPc(p, "child") /\ Inode(t).nlink < 1
  BY <1>1, <1>2, <1>6 DEF Panic
<1>8. t = sys[p].ip /\ sys[p].dp \in Inum /\ sys[p].pc = "child" /\ "child" \in DirPc
  BY <1>2, <1>7, AtFacts DEF Target, AtPc, DirPc
<1>9. sys[p].name \in Name /\ ent[sys[p].dp][sys[p].name] = t
  BY <1>3, <1>8 DEF Local, Removes
<1>10. Inode(t) = disk[t]
  BY <1>4, <1>5, <1>6, Sees
<1>11. disk[t].nlink = 0
  <2>1. disk[t].nlink \in Int /\ disk[t].nlink >= Count(t) /\ Count(t) \in Nat
    BY <1>5, CountParts DEF LInv, LinksOK, NodesOK
  <2> QED
    BY <1>7, <1>10, <2>1
<1> QED
  BY <1>5, <1>8, <1>9, <1>11, NoName

\* A step of another part.
LEMMA SameLinks ==
  ASSUME LInv, UNCHANGED inodeVars
  PROVE  LInv'
<1>1. UNCHANGED <<disk, ent, used, valid, sys, cwd, file, lost, panicked>>
  BY DEF inodeVars, fs, itable
<1>2. \A p \in Process : Live(p)' = Live(p)
  BY <1>1 DEF Live
<1>3. \A i \in Inum : Count(i)' = Count(i)
  BY <1>1 DEF Count, Named, Below, Counting, Inum, ROOTINO
<1>4. ASSUME NEW p \in Process PROVE Local(p)'
  <2>1. Local(p)
    BY DEF LInv
  <2> QED
    BY <1>1, <1>2, <2>1 DEF Local, CallOf, Downward, Typed, Removes, Makes, Frees, Sole, IsNew
<1>5. NodesOK' /\ BlocksOK' /\ LinksOK' /\ UnusedOK'
  BY <1>1, <1>3 DEF LInv, NodesOK, BlocksOK, LinksOK, UnusedOK, IsNew, Inum, Block
<1> QED
  BY <1>1, <1>4, <1>5 DEF LInv

\* mkfs leaves a root without names.
LEMMA InodesInitLInv ==
  ASSUME InodesAssumption, InodesInit
  PROVE  LInv
<1>1. /\ ROOTINO \in Inum /\ 0 \notin Inum /\ ".." \notin Name /\ 1 \in Block
      /\ FreeNode.type = "none" /\ FreeNode.nlink = 0 /\ FreeNode.addrs = {}
  BY InumFacts DEF FreeNode, InodesAssumption, Block
<1>2. /\ \A i \in Inum : disk[i] = IF i = ROOTINO THEN [type |-> "dir", nlink |-> 1, addrs |-> {1}] ELSE FreeNode
      /\ \A i \in Inum : \A n \in Name : ent[i][n] = 0
      /\ \A p \in Process : sys[p] = Idle /\ cwd[p] = ROOTINO /\ file[p] = 0
      /\ used = {1} /\ lost = {} /\ ~panicked
  <2>1. \A n \in Name : NoEntries[n] = 0 /\ [NoEntries EXCEPT ![".."] = ROOTINO][n] = 0
    BY <1>1 DEF NoEntries
  <2> QED
    BY <2>1 DEF InodesInit
<1>3. /\ disk[ROOTINO].type = "dir" /\ disk[ROOTINO].nlink = 1 /\ disk[ROOTINO].addrs = {1}
      /\ \A i \in Inum \ {ROOTINO} : disk[i].type = "none" /\ disk[i].nlink = 0 /\ disk[i].addrs = {}
  BY <1>1, <1>2
<1>4. /\ Idle.pc = "idle" /\ Idle.call = "none" /\ Idle.dp = 0 /\ Idle.ip = 0 /\ Idle.puts = <<>>
      /\ Idle.put = "no" /\ Len(Idle.path) = 0 /\ Len(Idle.new) = 0
  BY DEF Idle
<1>5. ASSUME NEW p \in Process PROVE Local(p)
  <2>1. Put1(<<>>) = 0 /\ Put2(<<>>) = 0
    BY DEF Put1, Put2
  <2>2. \A k \in Field : Live(p)[k] \in {0, ROOTINO}
    BY <1>2, <1>4, <2>1 DEF Live, Field
  <2>3. Typed(p)
    BY <1>2, <1>3, <1>4, <2>2 DEF Typed
  <2> QED
    BY <1>2, <1>4, <2>3 DEF Local, CallOf, Downward, Removes, Makes, Frees
<1>6. NodesOK
  BY <1>1, <1>2, <1>3 DEF NodesOK
<1>7. BlocksOK
  BY <1>1, <1>2, <1>3 DEF BlocksOK
<1>8. LinksOK
  <2>1. ASSUME NEW i \in Inum PROVE Count(i) = IF i = ROOTINO THEN 1 ELSE 0
    <3>1. Named(i) = {} /\ Below(i) = {} /\ Counting(i) = {}
      BY <1>1, <1>2, <1>4 DEF Named, Below, Counting
    <3>2. Cardinality({}) = 0
      BY FS_EmptySet
    <3> QED
      BY <3>1, <3>2 DEF Count
  <2> QED
    BY <1>3, <2>1 DEF LinksOK
<1>9. UnusedOK
  BY <1>3 DEF UnusedOK
<1> QED
  BY <1>2, <1>5, <1>6, <1>7, <1>8, <1>9 DEF LInv

\* Every step preserves LInv.
LEMMA InodesNextLInv ==
  ASSUME InodesAssumption, PathsGoDown, IInv, IInv', LInv, [InodesNext]_inodeVars
  PROVE  LInv'
<1>1. CASE UNCHANGED inodeVars
  BY <1>1, SameLinks
<1>2. ASSUME NEW p \in Process, IputDrops(p) PROVE LInv'
  BY <1>2, DroppedLinks DEF IputDrops
<1>3. ASSUME NEW p \in Process, IputLast(p) PROVE LInv'
  BY <1>3, DroppedLinks DEF IputLast
<1>4. ASSUME NEW p \in Process, Panic(p) PROVE LInv'
  BY <1>4, NeverPanics
<1> QED
  BY <1>1, <1>2, <1>3, <1>4, BeginLinks, WalkOnLinks, WalkFailsLinks, WalkParentLinks, OpenLinks, ChdirLinks,
     LinkOldLinks, LinkNewLinks, LinkBadLinks, UnlinkLinks, UnlinkChildLinks, UnlinkedLinks, CreateLinks,
     CreateExistsLinks, CreateNewLinks, CreateFailsLinks, CreateOpensLinks, WriteLinks, CloseLinks,
     IputLocksLinks, IputFreesLinks, IputInvalidatesLinks DEF InodesNext

\* LInv is stronger than InodesExact.
LEMMA LInvExact ==
  ASSUME InodesAssumption, IInv, LInv
  PROVE  InodesExact
<1>1. LinksExact
  BY DEF LInv, LinksOK, LinksExact, Count
<1>2. RefsExact /\ TableExact
  BY IInvRefs, IInvTable
<1>3. ASSUME NEW i \in Inum, disk[i].type # "none", disk[i].nlink = 0, i \notin lost PROVE ref[i] > 0
  <2>1. CASE valid[i]
    BY <2>1 DEF IInv, CopiesOK
  <2>2. CASE IsNew(i)
    BY <2>2, InHand DEF IsNew
  <2> QED
    BY <1>3, <2>1, <2>2 DEF LInv, UnusedOK
<1>4. ASSUME NEW p \in Process, NEW i \in {cwd[p], file[p]} \ {0} PROVE disk[i].type # "none"
  <2>1. \E k \in Field : Live(p)[k] = i
    BY LiveAre DEF IInv
  <2> QED
    BY <2>1 DEF LInv, Local, Typed
<1> QED
  BY <1>1, <1>2, <1>3, <1>4 DEF InodesExact, LInv, BlocksOK

\* As long as no path leads through "..", links, references, the inode table and the bitmap
\* agree, whatever open(), link(), unlink(), create(), write(), chdir() and close() run at once: nlink is
\* the number of names (but for `lost`), an inode in use is allocated, one without a link is still to be
\* freed by an iput(), and no block has two inodes. So ilock() (fs.c:314-315) and sys_unlink()
\* (sysfile.c:223-224) never panic. With ".." it is false (fs_dotdot).
THEOREM InodesAlways ==
  ASSUME InodesAssumption, PathsGoDown
  PROVE  InodesSpec => []InodesExact
<1>1. InodesInit => IInv /\ LInv
  BY InodesInitIInv, InodesInitLInv
<1>2. IInv /\ LInv /\ [InodesNext]_inodeVars => IInv' /\ LInv'
  BY InodesNextIInv, InodesNextLInv
<1>3. IInv /\ LInv => InodesExact
  BY LInvExact
<1> QED
  BY <1>1, <1>2, <1>3, PTL DEF InodesSpec

-----------------------------------------------------------------------------

\* The directories below the root are a tree: a name in one leads to a directory of a lower rank.
Falls(r) == \A d \in Inum : \A n \in Name : IsDir(ent[d][n]) => r[ent[d][n]] < r[d]
RankOK == \E r \in [Inum -> Nat] : Falls(r)

\* No file becomes a directory.
DirsStay == \A j \in Inum : disk'[j].type = "dir" => disk[j].type \in {"dir", "none"}

IsDirNext(x) == x # 0 /\ disk'[x].type = "dir"

\* A step that makes no directory a name keeps the ranks.
LEMMA RankStays ==
  ASSUME InodesAssumption, IInv, LInv, RankOK, DirsStay,
         \A d \in Inum : \A n \in Name : ent'[d][n] = ent[d][n] \/ ~IsDirNext(ent'[d][n])
  PROVE  RankOK'
<1>1. PICK r \in [Inum -> Nat] : Falls(r)
  BY DEF RankOK
<1>2. ASSUME NEW d \in Inum, NEW n \in Name, IsDirNext(ent'[d][n]) PROVE r[ent'[d][n]] < r[d]
  <2>1. ent'[d][n] = ent[d][n] /\ ent[d][n] # 0 /\ disk'[ent[d][n]].type = "dir"
    BY <1>2 DEF IsDirNext
  <2>2. ent[d][n] \in Inum /\ disk[ent[d][n]].type # "none"
    BY <2>1 DEF IInv, TypesOK, InumOrNone, LInv, NodesOK
  <2>3. IsDir(ent[d][n])
    BY <2>1, <2>2 DEF DirsStay, IsDir
  <2> QED
    BY <1>1, <2>1, <2>3 DEF Falls
<1>3. Falls(r)'
  BY <1>2 DEF Falls, IsDir, IsDirNext, Inum
<1> QED
  BY <1>1, <1>3 DEF RankOK, Inum

\* So does one that leaves the disk alone, ...
LEMMA SameDisk ==
  ASSUME InodesAssumption, IInv, LInv, RankOK, UNCHANGED <<disk, ent>>
  PROVE  RankOK'
<1>1. DirsStay
  BY DEF DirsStay
<1> QED
  BY <1>1, RankStays

\* iupdate() of one inode keeps its type.
LEMMA NodeKept ==
  ASSUME TypesOK, NEW i \in Inum, NEW n, n.type = disk[i].type \/ n.type = "none", Iupdate(Only(i, n))
  PROVE  DirsStay
BY DEF DirsStay, Iupdate, Only

\* ... one that changes one inode, ...
LEMMA UpdateKeepsRank ==
  ASSUME InodesAssumption, IInv, LInv, RankOK, NEW p \in Process, NEW i \in Inum,
         ilock[i] = Nobody \/ (ilock[i] = p /\ sys[p].put = "no"), ~Untyped(i), ent' = ent,
         NEW k, NEW S,
         \/ Iupdate(Only(i, [Inode(i) EXCEPT !.nlink = k]))
         \/ Iupdate(Only(i, [Inode(i) EXCEPT !.addrs = S]))
         \/ Iupdate(Only(i, [Inode(i) EXCEPT !.nlink = k, !.addrs = S]))
  PROVE  RankOK'
<1>1. TypesOK /\ Inode(i) = disk[i] /\ IsNode(disk[i])
  BY Sees DEF IInv
<1>2. PICK m : m = disk[i]
  OBVIOUS
<1>3. PICK t, l, a : m = [type |-> t, nlink |-> l, addrs |-> a]
  BY <1>1, <1>2 DEF IsNode
<1>4. /\ [m EXCEPT !.nlink = k].type = m.type /\ [m EXCEPT !.addrs = S].type = m.type
      /\ [m EXCEPT !.nlink = k, !.addrs = S].type = m.type
  BY <1>3
<1>5. PICK n : Iupdate(Only(i, n)) /\ n.type = m.type
  BY <1>1, <1>2, <1>4
<1>6. DirsStay
  BY <1>1, <1>2, <1>5, NodeKept
<1> QED
  BY <1>6, RankStays

\* ... and one that changes its nlink.
LEMMA LinksRank ==
  ASSUME InodesAssumption, IInv, LInv, RankOK, NEW p \in Process, NEW i \in Inum,
         ilock[i] = Nobody \/ (ilock[i] = p /\ sys[p].put = "no"), ~Untyped(i), ent' = ent,
         NEW k, Iupdate(Only(i, Links(i, k)))
  PROVE  RankOK'
<1>1. PICK l : l = Inode(i).nlink + k
  OBVIOUS
<1>2. Iupdate(Only(i, [Inode(i) EXCEPT !.nlink = l]))
  BY <1>1 DEF Links
<1>3. ent' = ent /\ ~Untyped(i)
  OBVIOUS
<1> QED
  BY <1>2, <1>3, UpdateKeepsRank

\* The actions that change the disk, one by one: O_TRUNC,
LEMMA OpenRank ==
  ASSUME InodesAssumption, IInv, LInv, RankOK, NEW p \in Process, Open(p)
  PROVE  RankOK'
<1> DEFINE i == sys[p].dp
<1>1. AtPc(p, "walk") /\ ilock[i] = Nobody /\ ~Untyped(i) /\ ent' = ent
  BY DEF Open, Found, Ilock
<1>2. i \in Inum
  BY <1>1, AtFacts DEF WalkPc
<1>3. CASE Iupdate(Only(i, [Inode(i) EXCEPT !.addrs = {}]))
  BY <1>1, <1>2, <1>3, UpdateKeepsRank
<1>4. CASE disk' = disk
  BY <1>1, <1>4, SameDisk
<1> QED
  BY <1>3, <1>4 DEF Open, Itrunc

\* sys_link() and its bad label,
LEMMA LinkOldRank ==
  ASSUME InodesAssumption, IInv, LInv, RankOK, NEW p \in Process, LinkOld(p)
  PROVE  RankOK'
<1> DEFINE i == sys[p].dp
<1>1. /\ AtPc(p, "walk") /\ ilock[i] = Nobody /\ ~Untyped(i) /\ ent' = ent
      /\ Iupdate(Only(i, Links(i, 1))) \/ disk' = disk
  BY DEF LinkOld, Found, Ilock
<1>2. i \in Inum
  BY <1>1, AtFacts DEF WalkPc
<1> QED
  BY <1>1, <1>2, LinksRank, SameDisk

LEMMA LinkBadRank ==
  ASSUME InodesAssumption, IInv, LInv, RankOK, NEW p \in Process, LinkBad(p)
  PROVE  RankOK'
<1> DEFINE i == sys[p].ip
<1>1. AtPc(p, "bad") /\ ilock[i] = Nobody /\ ~Untyped(i) /\ ent' = ent /\ Iupdate(Only(i, Links(i, -1)))
  BY DEF LinkBad, Ilock
<1>2. i \in Inum
  BY <1>1, AtFacts
<1> QED
  BY <1>1, <1>2, LinksRank

\* the end of sys_unlink(),
LEMMA UnlinkedRank ==
  ASSUME InodesAssumption, IInv, LInv, RankOK, NEW p \in Process, Unlinked(p)
  PROVE  RankOK'
<1> DEFINE i == sys[p].ip
<1>1. AtPc(p, "unlinked") /\ ent' = ent /\ Iupdate(Only(i, Links(i, -1)))
  BY DEF Unlinked
<1>2. i \in Inum /\ ilock[i] = p /\ valid[i] /\ sys[p].put = "no"
  BY <1>1, AtFacts, HeldAre DEF NodePc
<1>3. ~Untyped(i)
  BY <1>2 DEF Untyped
<1> QED
  BY <1>1, <1>2, <1>3, LinksRank

\* the fail label of create(),
LEMMA CreateFailsRank ==
  ASSUME InodesAssumption, IInv, LInv, RankOK, NEW p \in Process, CreateFails(p)
  PROVE  RankOK'
<1> DEFINE i == sys[p].ip
<1>1. PICK S : Iupdate(Only(i, [Inode(i) EXCEPT !.nlink = 0, !.addrs = S]))
  BY DEF CreateFails
<1>2. AtPc(p, "new") /\ ilock[i] = Nobody /\ ~Untyped(i) /\ ent' = ent
  BY DEF CreateFails, Ilock
<1>3. i \in Inum
  BY <1>2, AtFacts DEF DirPc
<1> QED
  BY <1>1, <1>2, <1>3, UpdateKeepsRank

\* filewrite().
LEMMA WriteRank ==
  ASSUME InodesAssumption, IInv, LInv, RankOK, NEW p \in Process, Write(p)
  PROVE  RankOK'
<1> DEFINE i == file[p]
           S == Inode(i).addrs \cup {First(FreeBlocks)}
<1>1. /\ AtPc(p, "idle") /\ i # 0 /\ ilock[i] = Nobody /\ ~Untyped(i) /\ ent' = ent
      /\ Iupdate(Only(i, [Inode(i) EXCEPT !.addrs = S]))
  BY DEF Write, Ilock
<1>2. i \in Inum
  BY <1>1, AtFacts DEF InumOrNone
<1> HIDE DEF S
<1> QED
  BY <1>1, <1>2, UpdateKeepsRank

\* sys_link(): the new name leads to a file.
LEMMA LinkNewRank ==
  ASSUME InodesAssumption, IInv, LInv, RankOK, NEW p \in Process, LinkNew(p)
  PROVE  RankOK'
<1> DEFINE d == sys[p].dp
           n == sys[p].name
           i == sys[p].ip
<1>1. AtPc(p, "parent") /\ sys[p].call = "link"
  BY DEF LinkNew
<1>2. TypesOK /\ d \in Inum /\ i \in Inum /\ Local(p) /\ sys[p].pc = "parent" /\ 0 \notin Inum
  BY <1>1, AtFacts, InumFacts DEF WalkPc, IInv, LInv
<1>3. disk[d].type = "dir" /\ disk[i].type = "file"
  BY <1>1, <1>2 DEF Local, Typed
<1>4. CASE UNCHANGED fs
  BY <1>4, SameDisk DEF fs
<1>5. CASE /\ ent' = [ent EXCEPT ![d][n] = i]
           /\ Iupdate(Only(d, Grown(d, First(FreeBlocks))))
  <2>1. \A j \in Inum \ {d} : disk'[j] = disk[j]
    BY <1>2, <1>5 DEF Iupdate, Only
  <2>2. DirsStay
    BY <1>3, <2>1 DEF DirsStay
  <2>3. disk'[i].type = "file"
    BY <1>2, <1>3, <2>1
  <2>4. \A e \in Inum : \A m \in Name : ent'[e][m] = ent[e][m] \/ ent'[e][m] = i
    BY <1>2, <1>5 DEF TypesOK
  <2> QED
    BY <2>2, <2>3, <2>4, RankStays DEF IsDirNext
<1> QED
  BY <1>4, <1>5 DEF LinkNew, Dirlink

\* sys_unlink() removes a name.
LEMMA UnlinkChildRank ==
  ASSUME InodesAssumption, IInv, LInv, RankOK, NEW p \in Process, UnlinkChild(p)
  PROVE  RankOK'
<1> DEFINE d == sys[p].dp
           n == sys[p].name
           i == sys[p].ip
           f == [j \in {d, i} |-> IF j = d /\ Inode(i).type = "dir" THEN Links(d, -1) ELSE Inode(j)]
<1>1. AtPc(p, "child") /\ ilock[i] = Nobody /\ ~Untyped(i)
  BY DEF UnlinkChild, Ilock
<1>2. TypesOK /\ d \in Inum /\ i \in Inum /\ Local(p) /\ sys[p].pc = "child"
  BY <1>1, AtFacts DEF DirPc, IInv, LInv
<1>3. disk[d].type = "dir" /\ Inode(i) = disk[i]
  BY <1>1, <1>2, Sees DEF Local, Typed
<1>4. CASE UNCHANGED <<disk, ent>>
  BY <1>4, SameDisk
<1>5. CASE ent' = [ent EXCEPT ![d][n] = 0] /\ Iupdate(f)
  <2>1. i # d => f[i] = disk[i]
    BY <1>3
  <2>2. DOMAIN f = {d, i}
    OBVIOUS
  <2> HIDE DEF f
  <2>3. \A j \in Inum \ {d} : disk'[j] = disk[j]
    BY <1>2, <1>5, <2>1, <2>2 DEF Iupdate
  <2>4. DirsStay
    BY <1>3, <2>3 DEF DirsStay
  <2>5. \A e \in Inum : \A m \in Name : ent'[e][m] = ent[e][m] \/ ent'[e][m] = 0
    BY <1>2, <1>5 DEF TypesOK
  <2> QED
    BY <2>4, <2>5, RankStays DEF IsDirNext
<1> QED
  BY <1>4, <1>5 DEF UnlinkChild

\* ialloc(): the new inode has no name yet.
LEMMA CreateRank ==
  ASSUME InodesAssumption, IInv, LInv, RankOK, NEW p \in Process, Create(p)
  PROVE  RankOK'
<1>1. ent' = ent
  BY DEF Create
<1>2. CASE disk' = disk
  BY <1>1, <1>2, SameDisk
<1>3. ASSUME NEW n, n = First(FreeInodes), FreeInodes # {}, NEW m, disk' = [disk EXCEPT ![n] = m]
      PROVE  RankOK'
  <2>1. FreeInodes \in SUBSET Nat
    BY DEF FreeInodes, Inum, InodesAssumption
  <2>2. disk[n].type = "none"
    BY <1>3, <2>1, FirstIs DEF FreeInodes
  <2>3. DirsStay
    BY <1>3, <2>2 DEF DirsStay, IInv, TypesOK
  <2> QED
    BY <1>1, <2>3, RankStays
<1> QED
  BY <1>2, <1>3 DEF Create

\* create(): the new directory is below all others.
LEMMA CreateNewRank ==
  ASSUME InodesAssumption, IInv, LInv, RankOK, NEW p \in Process, CreateNew(p)
  PROVE  RankOK'
<1> DEFINE d == sys[p].dp
           n == sys[p].name
           i == sys[p].ip
<1>1. AtPc(p, "new") /\ ilock[i] = Nobody
  BY DEF CreateNew, Ilock
<1>2. TypesOK /\ d \in Inum /\ i \in Inum /\ Local(p) /\ sys[p].pc = "new" /\ "new" \in DirPc
  BY <1>1, AtFacts DEF DirPc, IInv, LInv
<1>3. disk[d].type = "dir" /\ n \in Name /\ disk[i].nlink = 0
  BY <1>2 DEF Local, Typed, Makes
<1>4. i # d
  BY <1>1, <1>2, HoldsDir, InumFacts
<1>5. \A e \in Inum : \A m \in Name : ent[e][m] # i
  BY <1>2, <1>3, NoName
<1>6. \A j \in Inum \ {d, i} : disk'[j] = disk[j]
  <2> DEFINE own == IF sys[p].call = "mkdir" THEN {First(FreeBlocks)} ELSE {}
             b == First(FreeBlocks \ own)
             f == [j \in {d, i} |-> IF j = i THEN [Inode(i) EXCEPT !.nlink = 1, !.addrs = own]
                    ELSE [Grown(d, b) EXCEPT !.nlink = IF sys[p].call = "mkdir" THEN @ + 1 ELSE @]]
  <2>1. Iupdate(f)
    BY DEF CreateNew
  <2>2. DOMAIN f = {d, i}
    OBVIOUS
  <2> HIDE DEF f
  <2> QED
    BY <2>1, <2>2 DEF Iupdate
<1>7. \A e \in Inum : \A m \in Name : ent'[e][m] \in {0, ent[e][m]} \/ (e = d /\ ent'[e][m] = i)
  <2>1. PICK up : ent' = [ent EXCEPT ![i] = [NoEntries EXCEPT ![".."] = up], ![d][n] = i]
    BY DEF CreateNew
  <2> DEFINE g == [NoEntries EXCEPT ![".."] = up]
  <2>2. \A m \in Name : g[m] = 0
    BY InumFacts DEF NoEntries
  <2> HIDE DEF g
  <2>3. PICK h : h = [ent EXCEPT ![i] = g]
    OBVIOUS
  <2>4. ent' = [h EXCEPT ![d][n] = i]
    BY <2>1, <2>3 DEF g
  <2>5. h[d] = ent[d] /\ h[i] = g /\ DOMAIN h = Inum /\ \A j \in Inum \ {i} : h[j] = ent[j]
    BY <1>2, <1>4, <2>3 DEF TypesOK
  <2>6. DOMAIN ent[d] = Name \cup {".."}
    BY <1>2 DEF TypesOK
  <2>7. ent'[d] = [ent[d] EXCEPT ![n] = i] /\ \A j \in Inum \ {d} : ent'[j] = h[j]
    BY <1>2, <2>4, <2>5
  <2>8. \A m \in Name : ent'[d][m] \in {ent[d][m], i}
    BY <2>6, <2>7
  <2>9. \A m \in Name : ent'[i][m] = 0
    BY <1>2, <1>4, <2>2, <2>5, <2>7
  <2>10. \A e \in Inum \ {d, i} : ent'[e] = ent[e]
    BY <2>5, <2>7
  <2> QED
    BY <2>8, <2>9, <2>10
<1>8. PICK r \in [Inum -> Nat] : Falls(r)
  BY DEF RankOK
<1>9. PICK s \in [Inum -> Nat] : s[i] = 0 /\ \A j \in Inum \ {i} : s[j] = r[j] + 1
  <2> DEFINE t == [j \in Inum |-> IF j = i THEN 0 ELSE r[j] + 1]
  <2>1. t \in [Inum -> Nat] /\ t[i] = 0 /\ \A j \in Inum \ {i} : t[j] = r[j] + 1
    BY <1>2
  <2> QED
    BY <2>1
<1>10. ASSUME NEW e \in Inum, NEW m \in Name, IsDirNext(ent'[e][m]) PROVE s[ent'[e][m]] < s[e]
  <2>1. CASE e = d /\ ent'[e][m] = i
    BY <1>2, <1>4, <1>9, <2>1
  <2>2. CASE ~(e = d /\ ent'[e][m] = i)
    <3>1. PICK x : x = ent[e][m]
      OBVIOUS
    <3>2. ent'[e][m] = x /\ x # 0 /\ x # i /\ disk'[x].type = "dir"
      BY <1>5, <1>7, <1>10, <2>2, <3>1 DEF IsDirNext
    <3>3. x \in Inum /\ disk[x].type # "none"
      BY <1>2, <3>1, <3>2 DEF TypesOK, InumOrNone, LInv, NodesOK
    <3>4. disk[x].type = "dir"
      BY <1>3, <1>6, <3>2, <3>3
    <3>5. r[x] < r[e]
      BY <1>8, <3>1, <3>2, <3>4 DEF Falls, IsDir
    <3>6. e # i
      <4>1. ent[i][m] = 0
        BY <1>2 DEF Local, Makes
      <4> QED
        BY <3>1, <3>2, <4>1
    <3>7. s[x] = r[x] + 1 /\ s[e] = r[e] + 1 /\ r[x] \in Nat /\ r[e] \in Nat
      BY <1>9, <3>2, <3>3, <3>6
    <3> QED
      BY <3>2, <3>5, <3>7
  <2> QED
    BY <2>1, <2>2
<1>11. Falls(s)'
  BY <1>10 DEF Falls, IsDir, IsDirNext, Inum
<1> QED
  BY <1>11 DEF RankOK, Inum

\* iput() frees an inode.
LEMMA IputFreesRank ==
  ASSUME InodesAssumption, IInv, LInv, RankOK, NEW p \in Process, IputFrees(p)
  PROVE  RankOK'
<1> DEFINE i == Put(p)
<1>1. Putting(p, "free")
  BY DEF IputFrees
<1>2. TypesOK /\ i \in Inum
  BY <1>1, PutFacts DEF IInv
<1>3. PICK n : Iupdate(Only(i, n)) /\ n.type = "none"
  <2>1. IsNode(mem[i])
    BY <1>2 DEF TypesOK
  <2>2. PICK t, l, a : mem[i] = [type |-> t, nlink |-> l, addrs |-> a]
    BY <2>1 DEF IsNode
  <2>3. [[mem[i] EXCEPT !.type = "none"] EXCEPT !.addrs = {}].type = "none"
    BY <2>2
  <2> QED
    BY <2>3 DEF IputFrees, Itrunc
<1>4. DirsStay
  BY <1>2, <1>3, NodeKept
<1>5. \A e \in Inum : \A m \in Name : ent'[e][m] = ent[e][m] \/ ent'[e][m] = 0
  BY <1>2 DEF IputFrees, NoEntries, TypesOK
<1> QED
  BY <1>4, <1>5, RankStays DEF IsDirNext

\* Every step keeps the directories a tree.
LEMMA NextRank ==
  ASSUME InodesAssumption, IInv, LInv, RankOK, [InodesNext]_inodeVars
  PROVE  RankOK'
<1>1. CASE UNCHANGED inodeVars
  BY <1>1, SameDisk DEF inodeVars, fs
<1>2. ASSUME NEW p \in Process,
             \/ \E k \in Call, path, new \in Path : Begin(p, k, path, new)
             \/ WalkOn(p) \/ WalkFails(p) \/ WalkParent(p) \/ Chdir(p) \/ Unlink(p)
             \/ CreateExists(p) \/ CreateOpens(p) \/ Close(p)
             \/ IputDrops(p) \/ IputLocks(p) \/ IputInvalidates(p) \/ IputLast(p) \/ Panic(p)
      PROVE  RankOK'
  <2>1. UNCHANGED fs
    BY <1>2 DEF Begin, WalkOn, WalkFails, WalkParent, Chdir, Unlink, CreateExists, CreateOpens, Close,
       IputDrops, IputLocks, IputInvalidates, IputLast, Panic
  <2> QED
    BY <2>1, SameDisk DEF fs
<1> QED
  BY <1>1, <1>2, OpenRank, LinkOldRank, LinkNewRank, LinkBadRank, UnlinkChildRank, UnlinkedRank, CreateRank,
     CreateNewRank, CreateFailsRank, WriteRank, IputFreesRank DEF InodesNext

\* In the root that mkfs leaves there is no name.
LEMMA InitRank ==
  ASSUME InodesAssumption, InodesInit
  PROVE  RankOK
<1>1. \A d \in Inum : \A n \in Name : ent[d][n] = 0
  <2>1. ".." \notin Name
    BY InumFacts
  <2>2. \A n \in Name : NoEntries[n] = 0 /\ [NoEntries EXCEPT ![".."] = ROOTINO][n] = 0
    BY <2>1 DEF NoEntries
  <2> QED
    BY <2>2 DEF InodesInit
<1>2. PICK r \in [Inum -> Nat] : TRUE
  <2>1. [i \in Inum |-> 0] \in [Inum -> Nat]
    OBVIOUS
  <2> QED
    BY <2>1
<1> QED
  BY <1>1, <1>2 DEF RankOK, Falls, IsDir

\* Who waits for an inode and has another has a directory, and waits for what is in it.
LEMMA WaiterHas ==
  ASSUME InodesAssumption, IInv, LInv, NEW q \in Process, Waits(q), NEW i \in Inum, ilock[i] = q
  PROVE  sys[q].pc \in DirPc /\ i = sys[q].dp /\ Target(q) = sys[q].ip
<1>1. PICK l : AtPc(q, l) /\ l \in {"walk", "parent", "child", "exists", "new", "bad"}
  BY DEF Waits, Target
<1>2. /\ sys[q].pc = l /\ sys[q].put = "no" /\ Put2(sys[q].puts) = 0
      /\ l \notin DirPc \cup NodePc => \A j \in Inum : ilock[j] # q
  BY <1>1, AtFacts
<1>3. l \in DirPc
  BY <1>1, <1>2 DEF NodePc
<1>4. i = sys[q].dp
  BY <1>1, <1>3, HoldsDir
<1> QED
  BY <1>1, <1>2, <1>3, <1>4 DEF Target, AtPc, DirPc

\* If all waited, the one with the lowest directory would wait for somebody with a lower one.
LEMMA SomebodyGoes ==
  ASSUME InodesAssumption, IInv, LInv, RankOK
  PROVE  NoDeadlock
<1>1. SUFFICES ASSUME NEW p \in Process, sys[p] # Idle, \A q \in Process : sys[q] # Idle => Waits(q) PROVE FALSE
  BY DEF NoDeadlock
<1>2. PICK r \in [Inum -> Nat] : Falls(r)
  BY DEF RankOK
<1>3. TypesOK /\ Nobody \notin Process /\ 0 \notin Inum
  BY InumFacts DEF IInv
<1> DEFINE W == {q \in Process : Waits(q) /\ sys[q].pc \in DirPc}
<1>4. ASSUME NEW q \in Process, Waits(q)
      PROVE  \E s \in W : sys[s].dp = Target(q) /\ Target(q) \in Inum
  <2>1. PICK t : t = Target(q)
    OBVIOUS
  <2>2. t \in Inum /\ ilock[t] # Nobody
    <3>1. t \in {sys[q].dp, sys[q].ip} /\ t # 0 /\ ilock[t] # Nobody
      BY <1>4, <2>1 DEF Waits, Target
    <3>2. sys[q] \in CallType
      BY <1>3 DEF TypesOK
    <3> QED
      BY <3>1, <3>2 DEF CallType, InumOrNone
  <2>3. PICK s \in Process : s = ilock[t]
    BY <1>3, <2>2 DEF TypesOK
  <2>4. sys[s] # Idle
    <3>1. t \in MayHold(s)
      BY <2>2, <2>3 DEF IInv, LocksOK
    <3>2. Put2(<<>>) = 0
      BY DEF Put2
    <3> QED
      BY <1>3, <3>1, <3>2 DEF MayHold, Idle, DirPc, NodePc
  <2>5. Waits(s)
    BY <1>1, <2>4
  <2>6. sys[s].pc \in DirPc /\ sys[s].dp = t
    BY <2>2, <2>3, <2>5, WaiterHas
  <2> QED
    BY <2>1, <2>2, <2>5, <2>6
<1>5. W # {}
  BY <1>1, <1>4
<1>6. \A q \in W : sys[q].dp \in Inum /\ r[sys[q].dp] \in Nat
  BY HeldAre, <1>2
<1>7. PICK q \in W : \A s \in W : ~(r[sys[s].dp] < r[sys[q].dp])
  <2> DEFINE S == {r[sys[s].dp] : s \in W}
  <2>1. S \in SUBSET Nat /\ S # {}
    BY <1>5, <1>6
  <2>2. PICK n \in S : \A m \in S : ~(m < n)
    BY <2>1, LeastOf
  <2> QED
    BY <2>2
<1>8. PICK s \in W : sys[s].dp = Target(q) /\ Target(q) \in Inum
  BY <1>4
<1>9. ilock[sys[q].dp] = q /\ sys[q].dp \in Inum
  BY HeldAre
<1>10. Target(q) = sys[q].ip
  BY <1>9, WaiterHas
<1>11. PICK i : i = sys[q].ip /\ i = sys[s].dp /\ i \in Inum
  BY <1>8, <1>10
<1>12. Local(q) /\ Local(s)
  BY DEF LInv
<1>13. disk[i].type = "dir"
  BY <1>11, <1>12 DEF Local, Typed, DirPc
<1>14. CASE sys[q].pc = "child"
  <2>1. sys[q].name \in Name /\ ent[sys[q].dp][sys[q].name] = i
    BY <1>11, <1>12, <1>14 DEF Local, Removes
  <2>2. r[i] < r[sys[q].dp]
    BY <1>2, <1>3, <1>9, <1>11, <1>13, <2>1 DEF Falls, IsDir
  <2> QED
    BY <1>7, <1>11, <2>2
<1>15. CASE sys[q].pc = "new"
  <2>1. Sole(q, "ip", i)
    BY <1>11, <1>12, <1>15 DEF Local, Makes
  <2>2. Live(s)["dp"] = i /\ "dp" \in Field
    BY <1>3, <1>11, LiveAre
  <2> QED
    BY <2>1, <2>2 DEF Sole
<1> QED
  BY <1>14, <1>15 DEF DirPc

\* As long as no path leads through "..", some process in a system call does not wait for the
\* lock of an inode: sys_unlink() and create() are the only ones that lock an inode with another locked
\* (sysfile.c:221, :278), a directory before what is in it. For any number of processes.
THEOREM NoDeadlockAlways ==
  ASSUME InodesAssumption, PathsGoDown
  PROVE  InodesSpec => []NoDeadlock
<1>1. InodesInit => IInv /\ LInv /\ RankOK
  BY InodesInitIInv, InodesInitLInv, InitRank
<1>2. IInv /\ LInv /\ RankOK /\ [InodesNext]_inodeVars => IInv' /\ LInv' /\ RankOK'
  BY InodesNextIInv, InodesNextLInv, NextRank
<1>3. IInv /\ LInv /\ RankOK => NoDeadlock
  BY SomebodyGoes
<1> QED
  BY <1>1, <1>2, <1>3, PTL DEF InodesSpec

=============================================================================
