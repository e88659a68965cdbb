------------------------------ MODULE DevicesProof ------------------------------
(***************************************************************************)
(* Proofs about Pipe, for any number of processes, descriptors and files and *)
(* any size of a pipe: descriptors, files and pipes are counted exactly.     *)
(* Proofs about BufferCache, for any number of processes, blocks, buffers    *)
(* and descriptors of the ring: the cache and the driver store blocks.       *)
(***************************************************************************)
EXTENDS Pipe, BufferCache, FiniteSetTheorems, SequenceTheorems, WellFoundedInduction, TLAPS

Place == {"dead", "user", "dup", "close", "exit", "read", "rsleep", "write", "wsleep"}
End == {"none", "read", "write"}

PipeTypeOK ==
  /\ ofile \in [Client -> [Fds -> Files \cup {0}]]
  /\ ref \in [Files -> Int] /\ end \in [Files -> End]
  /\ alive \in BOOLEAN /\ readopen \in BOOLEAN /\ writeopen \in BOOLEAN
  /\ data \in [0 .. PIPESIZE - 1 -> Byte \cup {Nil}]
  /\ nread \in 0 .. Wrap - 1 /\ nwrite \in 0 .. Wrap - 1
  /\ lock \in Client \cup {Nil} /\ at \in [Client -> Place] /\ left \in [Client -> Nat]
  /\ todo \in [Client -> Seq(Files)] /\ ff \in [Client -> End]
  /\ killed \in [Client -> BOOLEAN] /\ unwoken \in BOOLEAN

\* The descriptors, of those in o, that name file f; the files that a process is about to
\* close, or about to count, if t is what it has to do and x the copy of a closed file.
Among(o, f) == {fd \in Fds : o[fd] = f}
Pending(t, x) == {f \in Files : \E i \in DOMAIN t : t[i] = f /\ (i = 1 => x = "none")}

\* A process at a holds the end e of the pipe open.
HasEnd(o, ends, e) == \E fd \in Fds : o[fd] \in Files /\ ends[o[fd]] = e

\* What belongs to a process at a: t is what it has to do, x its copy of a closed file, o
\* its descriptors; ends tells the ends of the files.
Fits(a, t, x, o, ends) ==
  /\ a = "close" => \/ \E f \in Files : t = <<f>>
                    \/ \E f, g \in Files : f # g /\ t = <<f, g>>
  /\ a = "exit" => (t = <<>> /\ x = "none") \/ \E f \in Files : t = <<f>>
  /\ a = "dup" => /\ x = "none"
                  /\ \E f \in Files, i, j \in Fds : i # j /\ t = <<f>> /\ o[i] = f /\ o[j] = f
  /\ a \notin {"close", "exit", "dup"} => t = <<>> /\ x = "none"
  /\ a = "dead" => \A fd \in Fds : o[fd] = 0
  /\ a \in {"read", "rsleep"} => HasEnd(o, ends, "read")
  /\ a \in {"write", "wsleep"} => HasEnd(o, ends, "write")

FitsAll == \A p \in Client : Fits(at[p], todo[p], ff[p], ofile[p], end)
CountsRight == \A f \in Files : ref[f] = Count(f) /\ (ref[f] = 0 <=> end[f] = "none")

\* There is one file for each end, or one copy of it.
OneEnd ==
  \A e \in {"read", "write"} :
    /\ \A f, g \in Files : end[f] = e /\ end[g] = e => f = g
    /\ \A p, q \in Client : ff[p] = e /\ ff[q] = e => p = q
    /\ \A f \in Files, p \in Client : end[f] = e => ff[p] # e
EndsOpen ==
  readopen = IsOpen("read") /\ writeopen = IsOpen("write") /\ alive = (readopen \/ writeopen)

FilesInv == PipeTypeOK /\ FitsAll /\ CountsRight /\ OneEnd /\ EndsOpen

-----------------------------------------------------------------------------
(* Counting                                                                *)

LEMMA PipeNumbers ==
  /\ NOFILE \in Nat /\ NFILE \in Nat /\ MaxN \in Nat /\ PIPESIZE \in Nat \ {0}
  /\ Wrap \in Nat /\ Wrap > PIPESIZE /\ Wrap % PIPESIZE = 0
  /\ IsFiniteSet(Client) /\ Nil \notin Client
  /\ IsFiniteSet(Fds) /\ Fds \subseteq Nat \ {0} /\ Files \subseteq Nat \ {0}
<1>1. IsFiniteSet(1 .. NOFILE)
  BY PipeConstants, FS_Interval DEF PipeAssumption
<1> QED BY <1>1, PipeConstants DEF PipeAssumption, Fds, Files

One(b) == IF b THEN 1 ELSE 0

\* What process p counts for file f.
Mine(t, x, o, a, f) ==
  Cardinality(Among(o, f)) + (One(f \in Pending(t, x) /\ a # "dup")
                              - One(f \in Pending(t, x) /\ a = "dup"))

LEMMA CountFinite ==
  ASSUME NEW f
  PROVE  /\ IsFiniteSet(Naming(f)) /\ IsFiniteSet(Counting(f)) /\ IsFiniteSet(Closing(f))
         /\ Cardinality(Naming(f)) \in Nat /\ Cardinality(Counting(f)) \in Nat
         /\ Cardinality(Closing(f)) \in Nat
         /\ Count(f) = Cardinality(Naming(f)) + Cardinality(Closing(f)) - Cardinality(Counting(f))
<1>1. IsFiniteSet(Client \X Fds)
  BY PipeNumbers, FS_Product
<1>2. IsFiniteSet(Naming(f))
  BY <1>1, FS_Subset DEF Naming
<1>3. IsFiniteSet(Counting(f)) /\ IsFiniteSet(Closing(f))
  BY PipeNumbers, FS_Subset DEF Closing, Counting
<1> QED BY <1>2, <1>3, FS_CardinalityType DEF Count

\* A set that differs from another in one element at most.
LEMMA OneElement ==
  ASSUME NEW S, NEW T, NEW p, IsFiniteSet(S), IsFiniteSet(T), S \ {p} = T \ {p}
  PROVE  /\ Cardinality(T) = Cardinality(S) + (One(p \in T) - One(p \in S))
         /\ Cardinality(S) \in Nat
<1> DEFINE R == S \ {p}
<1>1. IsFiniteSet(R) /\ Cardinality(R) = (IF p \in S THEN Cardinality(S) - 1 ELSE Cardinality(S))
  BY FS_RemoveElement
<1>2. Cardinality(R) = (IF p \in T THEN Cardinality(T) - 1 ELSE Cardinality(T))
  BY FS_RemoveElement
<1>3. Cardinality(S) \in Nat /\ Cardinality(T) \in Nat /\ Cardinality(R) \in Nat
  BY <1>1, FS_CardinalityType
<1> HIDE DEF R
<1>4. /\ p \in S => Cardinality(S) = Cardinality(R) + 1 /\ One(p \in S) = 1
      /\ p \notin S => Cardinality(S) = Cardinality(R) /\ One(p \in S) = 0
  BY <1>1, <1>3 DEF One
<1>5. /\ p \in T => Cardinality(T) = Cardinality(R) + 1 /\ One(p \in T) = 1
      /\ p \notin T => Cardinality(T) = Cardinality(R) /\ One(p \in T) = 0
  BY <1>2, <1>3 DEF One
<1>6. Cardinality(S) = Cardinality(R) + One(p \in S) /\ One(p \in S) \in Int
  BY <1>3, <1>4
<1>7. Cardinality(T) = Cardinality(R) + One(p \in T) /\ One(p \in T) \in Int
  BY <1>3, <1>5
<1> QED BY <1>3, <1>6, <1>7

\* Only process p moves.
LEMMA OneCounts ==
  ASSUME PipeTypeOK, PipeTypeOK', NEW p \in Client, NEW f \in Files,
         \A q \in Client \ {p} : /\ ofile'[q] = ofile[q] /\ todo'[q] = todo[q] /\ ff'[q] = ff[q]
                                 /\ (at'[q] = "dup") = (at[q] = "dup")
  PROVE  /\ Count(f)' = Count(f) + (Mine(todo'[p], ff'[p], ofile'[p], at'[p], f)
                                    - Mine(todo[p], ff[p], ofile[p], at[p], f))
         /\ Count(f) \in Int
<1> DEFINE A == Among(ofile[p], f)
           B == Among(ofile'[p], f)
           R == {x \in Naming(f) : x[1] # p}
<1>1. Naming(f) = R \cup ({p} \X A) /\ Naming(f)' = R \cup ({p} \X B) /\ R \cap ({p} \X A) = {} /\ R \cap ({p} \X B) = {}
  <2>1. Naming(f) = R \cup ({p} \X A)
    BY DEF Naming, Among
  <2>2. Naming(f)' = R \cup ({p} \X B)
    BY DEF Naming, Among
  <2> QED BY <2>1, <2>2
<1>2. IsFiniteSet(A) /\ IsFiniteSet(B)
  BY PipeNumbers, FS_Subset DEF Among
<1>3. IsFiniteSet(R) /\ Cardinality(R) \in Nat
  BY CountFinite, FS_Subset, FS_CardinalityType
<1> HIDE DEF A, B, R
<1>4. ASSUME NEW X, IsFiniteSet(X), R \cap ({p} \X X) = {}
      PROVE  Cardinality(R \cup ({p} \X X)) = Cardinality(R) + Cardinality(X) /\ Cardinality(X) \in Nat
  <2>1. IsFiniteSet({p}) /\ Cardinality({p}) = 1
    BY FS_Singleton
  <2>2. IsFiniteSet({p} \X X) /\ Cardinality({p} \X X) = Cardinality({p}) * Cardinality(X)
    BY <1>4, <2>1, FS_Product
  <2>3. Cardinality(X) \in Nat
    BY <1>4, FS_CardinalityType
  <2>4. Cardinality({p} \X X) = Cardinality(X)
    BY <2>1, <2>2, <2>3
  <2>5. Cardinality(R \cup ({p} \X X)) = Cardinality(R) + Cardinality({p} \X X) - Cardinality(R \cap ({p} \X X))
    BY <1>3, <2>2, FS_Union
  <2>6. Cardinality(R \cap ({p} \X X)) = 0
    BY <1>4, FS_EmptySet
  <2> QED BY <1>3, <2>3, <2>4, <2>5, <2>6
<1>5. /\ Cardinality(Naming(f)) = Cardinality(R) + Cardinality(A)
      /\ Cardinality(Naming(f)') = Cardinality(R) + Cardinality(B)
      /\ Cardinality(A) \in Nat /\ Cardinality(B) \in Nat
  BY <1>1, <1>2, <1>4
<1>6. /\ Cardinality(Closing(f)') = Cardinality(Closing(f))
           + (One(f \in Pending(todo'[p], ff'[p]) /\ at'[p] # "dup")
               - One(f \in Pending(todo[p], ff[p]) /\ at[p] # "dup"))
      /\ Cardinality(Closing(f)) \in Nat
  <2>1. Closing(f) \ {p} = Closing(f)' \ {p}
    BY DEF Closing, Pends
  <2>2. (p \in Closing(f)) = (f \in Pending(todo[p], ff[p]) /\ at[p] # "dup")
    BY DEF Closing, Pends, Pending
  <2>3. (p \in Closing(f)') = (f \in Pending(todo'[p], ff'[p]) /\ at'[p] # "dup")
    BY DEF Closing, Pends, Pending
  <2>4. IsFiniteSet(Closing(f)) /\ IsFiniteSet(Closing(f)')
    BY PipeNumbers, FS_Subset DEF Closing
  <2>5. /\ Cardinality(Closing(f)') = Cardinality(Closing(f))
                + (One(p \in Closing(f)') - One(p \in Closing(f)))
        /\ Cardinality(Closing(f)) \in Nat
    BY <2>1, <2>4, OneElement
  <2> QED BY <2>2, <2>3, <2>5
<1>7. /\ Cardinality(Counting(f)') = Cardinality(Counting(f))
           + (One(f \in Pending(todo'[p], ff'[p]) /\ at'[p] = "dup")
               - One(f \in Pending(todo[p], ff[p]) /\ at[p] = "dup"))
      /\ Cardinality(Counting(f)) \in Nat
  <2>1. Counting(f) \ {p} = Counting(f)' \ {p}
    BY DEF Counting, Pends
  <2>2. (p \in Counting(f)) = (f \in Pending(todo[p], ff[p]) /\ at[p] = "dup")
    BY DEF Counting, Pends, Pending
  <2>3. (p \in Counting(f)') = (f \in Pending(todo'[p], ff'[p]) /\ at'[p] = "dup")
    BY DEF Counting, Pends, Pending
  <2>4. IsFiniteSet(Counting(f)) /\ IsFiniteSet(Counting(f)')
    BY PipeNumbers, FS_Subset DEF Counting
  <2>5. /\ Cardinality(Counting(f)') = Cardinality(Counting(f))
                + (One(p \in Counting(f)') - One(p \in Counting(f)))
        /\ Cardinality(Counting(f)) \in Nat
    BY <2>1, <2>4, OneElement
  <2> QED BY <2>2, <2>3, <2>5
<1> DEFINE i == One(f \in Pending(todo[p], ff[p]) /\ at[p] # "dup")
           j == One(f \in Pending(todo[p], ff[p]) /\ at[p] = "dup")
           k == One(f \in Pending(todo'[p], ff'[p]) /\ at'[p] # "dup")
           l == One(f \in Pending(todo'[p], ff'[p]) /\ at'[p] = "dup")
           r == Cardinality(R)
           a == Cardinality(A)
           b == Cardinality(B)
           t == Cardinality(Closing(f))
           d == Cardinality(Counting(f))
           m == Mine(todo[p], ff[p], ofile[p], at[p], f)
           n == Mine(todo'[p], ff'[p], ofile'[p], at'[p], f)
<1>8. i \in Int /\ j \in Int /\ k \in Int /\ l \in Int
  BY DEF One
<1>9. m = a + (i - j) /\ n = b + (k - l)
  BY DEF Mine, A, B
<1>10. Cardinality(Closing(f)') = t + (k - i) /\ Cardinality(Counting(f)') = d + (l - j)
  BY <1>6, <1>7
<1>11. r \in Int /\ a \in Int /\ b \in Int /\ t \in Int /\ d \in Int
  BY <1>3, <1>5, <1>6, <1>7
<1> HIDE DEF i, j, k, l, m, n
<1>12. Count(f) = (r + a) + t - d
  BY <1>5 DEF Count
<1>13. Count(f)' = (r + b) + (t + (k - i)) - (d + (l - j))
  BY <1>5, <1>10 DEF Count
<1> HIDE DEF r, a, b, t, d
<1>14. Count(f)' = Count(f) + (n - m) /\ Count(f) \in Int
  BY <1>8, <1>9, <1>11, <1>12, <1>13
<1> QED BY <1>14 DEF m, n

\* A process about to count a file has two descriptors of it, so there is one too many.
LEMMA NamedCounts ==
  ASSUME PipeTypeOK, FitsAll, NEW f \in Files
  PROVE  /\ Naming(f) # {} => Count(f) > Cardinality(Closing(f))
         /\ Closing(f) # {} => Cardinality(Closing(f)) > 0
         /\ Naming(f) = {} => Counting(f) = {}
         /\ Count(f) \in Int /\ Cardinality(Closing(f)) \in Nat
         /\ Count(f) >= Cardinality(Closing(f))
<1>1. ASSUME NEW q \in Counting(f)
      PROVE  q \in Client /\ \E i, j \in Fds : i # j /\ ofile[q][i] = f /\ ofile[q][j] = f
  <2>1. q \in Client /\ at[q] = "dup" /\ \E i \in DOMAIN todo[q] : todo[q][i] = f
    BY DEF Counting, Pends
  <2>2. PICK g \in Files, i, j \in Fds :
          i # j /\ todo[q] = <<g>> /\ ofile[q][i] = g /\ ofile[q][j] = g
    BY <2>1 DEF FitsAll, Fits
  <2>3. f = g
    BY <2>1, <2>2
  <2> QED BY <2>1, <2>2, <2>3
<1>2. Naming(f) = {} => Counting(f) = {}
  <2>1. ASSUME NEW q \in Counting(f) PROVE Naming(f) # {}
    <3>1. PICK i \in Fds : ofile[q][i] = f
      BY <1>1
    <3>2. <<q, i>> \in Naming(f)
      BY <1>1, <3>1 DEF Naming
    <3> QED BY <3>2
  <2> QED BY <2>1
<1>3. ASSUME Naming(f) # {} PROVE Cardinality(Naming(f)) > Cardinality(Counting(f))
  <2>1. PICK x \in Naming(f) : TRUE
    BY <1>3
  <2> DEFINE N == Naming(f) \ {x}
             g == [q \in Counting(f) |-> <<q, CHOOSE j \in Fds : ofile[q][j] = f /\ <<q, j>> # x>>]
  <2>2. ASSUME NEW q \in Counting(f)
        PROVE  g[q] \in N /\ g[q][1] = q
    <3>1. \E i \in Fds : ofile[q][i] = f /\ <<q, i>> # x
      <4>1. PICK i \in Fds, j \in Fds : i # j /\ ofile[q][i] = f /\ ofile[q][j] = f
        BY <1>1
      <4>2. <<q, i>> # x \/ <<q, j>> # x
        BY <4>1
      <4> QED BY <4>1, <4>2
    <3>2. PICK i \in Fds : i = (CHOOSE j \in Fds : ofile[q][j] = f /\ <<q, j>> # x)
                           /\ ofile[q][i] = f /\ <<q, i>> # x
      BY <3>1
    <3>3. g[q] = <<q, i>> /\ q \in Client
      BY <1>1, <3>2
    <3> QED BY <3>2, <3>3 DEF Naming
  <2>3. g \in Injection(Counting(f), N)
    <3>1. g \in [Counting(f) -> N]
      BY <2>2
    <3> HIDE DEF g
    <3> QED BY <2>2, <3>1 DEF Injection, IsInjective
  <2>4. IsFiniteSet(N) /\ Cardinality(N) = Cardinality(Naming(f)) - 1
    <3>1. Cardinality(Naming(f) \ {x})
            = (IF x \in Naming(f) THEN Cardinality(Naming(f)) - 1 ELSE Cardinality(Naming(f)))
          /\ IsFiniteSet(Naming(f) \ {x})
      BY CountFinite, FS_RemoveElement
    <3> QED BY <2>1, <3>1
  <2>5. Cardinality(Counting(f)) <= Cardinality(N)
    BY <2>3, <2>4, FS_Injection
  <2> HIDE DEF N
  <2>6. Cardinality(Naming(f)) \in Nat /\ Cardinality(Counting(f)) \in Nat
    BY CountFinite
  <2> DEFINE x1 == Cardinality(Naming(f))
             d1 == Cardinality(Counting(f))
             n1 == Cardinality(N)
  <2>7. x1 \in Int /\ d1 \in Int /\ n1 = x1 - 1 /\ d1 <= n1
    BY <2>4, <2>5, <2>6
  <2> HIDE DEF x1, d1, n1
  <2>8. x1 > d1
    BY <2>7
  <2> QED BY <2>8 DEF x1, d1
<1>4. Closing(f) # {} => Cardinality(Closing(f)) > 0
  <2>1. Cardinality(Closing(f)) = 0 <=> Closing(f) = {}
    BY CountFinite, FS_EmptySet
  <2>2. Cardinality(Closing(f)) \in Nat
    BY CountFinite
  <2> DEFINE t1 == Cardinality(Closing(f))
  <2>3. t1 \in Nat /\ (Closing(f) # {} => t1 # 0)
    BY <2>1, <2>2
  <2> HIDE DEF t1
  <2>4. Closing(f) # {} => t1 > 0
    BY <2>3
  <2> QED BY <2>4 DEF t1
<1>5. Naming(f) = {} => Cardinality(Counting(f)) = 0 /\ Cardinality(Naming(f)) = 0
  BY <1>2, FS_EmptySet
<1>6. /\ Count(f) = Cardinality(Naming(f)) + Cardinality(Closing(f)) - Cardinality(Counting(f))
      /\ Cardinality(Naming(f)) \in Nat /\ Cardinality(Counting(f)) \in Nat
      /\ Cardinality(Closing(f)) \in Nat
  BY CountFinite
<1> DEFINE x == Cardinality(Naming(f))
           d == Cardinality(Counting(f))
           t == Cardinality(Closing(f))
           c == Count(f)
<1>7. /\ c = x + t - d /\ x \in Nat /\ d \in Nat /\ t \in Nat
      /\ Naming(f) # {} => x > d
      /\ Naming(f) = {} => d = 0 /\ x = 0
  BY <1>3, <1>5, <1>6
<1> HIDE DEF x, d, t, c
<1>8. c \in Int /\ (Naming(f) # {} => c > t) /\ c >= t
  BY <1>7
<1> QED BY <1>2, <1>4, <1>7, <1>8 DEF t, c

LEMMA PendingOf ==
  /\ \A x : Pending(<<>>, x) = {}
  /\ \A f \in Files : Pending(<<f>>, "none") = {f}
  /\ \A f \in Files : \A x : x # "none" => Pending(<<f>>, x) = {}
  /\ \A f, g \in Files : Pending(<<f, g>>, "none") = {f, g}
  /\ \A f, g \in Files : \A x : x # "none" => Pending(<<f, g>>, x) = {g}
<1>1. DOMAIN <<>> = {}
  OBVIOUS
<1>2. \A f : DOMAIN <<f>> = {1} /\ <<f>>[1] = f
  OBVIOUS
<1>3. \A f, g : DOMAIN <<f, g>> = {1, 2} /\ <<f, g>>[1] = f /\ <<f, g>>[2] = g
  OBVIOUS
<1> QED BY <1>1, <1>2, <1>3 DEF Pending

-----------------------------------------------------------------------------
(* Steps that leave descriptors and files alone                            *)

\* A process may go from a to b and own what it owned.
Eases(a, b) ==
  \/ a = b
  \/ {a, b} \subseteq {"read", "rsleep"} \/ {a, b} \subseteq {"write", "wsleep"}
  \/ a \in {"read", "rsleep", "write", "wsleep"} /\ b = "user"
  \/ a = "user" /\ b = "exit"

LEMMA FitsOn ==
  ASSUME NEW a, NEW b, NEW t, NEW x, NEW o, NEW e, Fits(a, t, x, o, e), Eases(a, b)
  PROVE  Fits(b, t, x, o, e) /\ (b = "dup" <=> a = "dup")
  BY DEF Fits, Eases

LEMMA QuietFiles ==
  ASSUME FilesInv, PipeTypeOK', FitsAll', UNCHANGED <<table, todo, ff, alive, readopen, writeopen>>,
         \A q \in Client : at'[q] = "dup" <=> at[q] = "dup"
  PROVE  FilesInv'
<1>1. \A f : Count(f)' = Count(f)
  BY DEF Count, Naming, Closing, Counting, Pends, table
<1>2. CountsRight'
  BY <1>1 DEF FilesInv, CountsRight, table
<1>3. OneEnd' /\ EndsOpen'
  BY DEF FilesInv, OneEnd, EndsOpen, IsOpen, table
<1> QED BY <1>2, <1>3 DEF FilesInv

LEMMA QuietMoves ==
  ASSUME FilesInv, PipeTypeOK', UNCHANGED <<table, todo, ff, alive, readopen, writeopen>>,
         \A q \in Client : Eases(at[q], at'[q])
  PROVE  FilesInv'
<1>1. FitsAll' /\ \A q \in Client : at'[q] = "dup" <=> at[q] = "dup"
  BY FitsOn DEF FilesInv, FitsAll, table
<1> QED BY <1>1, QuietFiles

LEMMA WokenEases ==
  ASSUME PipeTypeOK, NEW a, NEW b, {a, b} \subseteq {"read", "rsleep"} \/ {a, b} \subseteq {"write", "wsleep"}
  PROVE  /\ Woken(a, b) \in [Client -> Place]
         /\ \A q \in Client : Eases(at[q], Woken(a, b)[q])
  BY DEF PipeTypeOK, Woken, Eases, Place

\* p goes to b, and others wake up.
LEMMA Wakes ==
  ASSUME PipeTypeOK, NEW p \in Client, NEW b \in Place, NEW st \in [Client -> Place],
         \A q \in Client : Eases(at[q], st[q]), Eases(at[p], b), at' = [st EXCEPT ![p] = b]
  PROVE  at' \in [Client -> Place] /\ \A q \in Client : Eases(at[q], at'[q])
  OBVIOUS

LEMMA Asleep ==
  ASSUME PipeTypeOK
  PROVE  /\ at \in [Client -> Place] /\ \A q \in Client : Eases(at[q], at[q])
         /\ WakeReaders \in [Client -> Place] /\ \A q \in Client : Eases(at[q], WakeReaders[q])
         /\ WakeWriters \in [Client -> Place] /\ \A q \in Client : Eases(at[q], WakeWriters[q])
  BY WokenEases DEF PipeTypeOK, Eases, WakeReaders, WakeWriters

LEMMA FilesReadWait == ASSUME FilesInv, NEW p \in Client, ReadWait(p) PROVE FilesInv'
<1>1. at[p] = "read" /\ UNCHANGED <<table, pi, lock, todo, ff, killed, unwoken>>
  BY DEF ReadWait
<1>2. /\ at' = [at EXCEPT ![p] = "user"] \/ at' = [at EXCEPT ![p] = "rsleep"]
      /\ left' \in [Client -> Nat]
  <2>1. left \in [Client -> Nat]
    BY DEF FilesInv, PipeTypeOK
  <2>2. CASE killed[p]
    BY <2>1, <2>2 DEF ReadWait, Leave
  <2>3. CASE ~killed[p]
    BY <2>1, <2>3 DEF ReadWait
  <2> QED BY <2>2, <2>3
<1>3. at' \in [Client -> Place] /\ \A q \in Client : Eases(at[q], at'[q])
  <2>1. Eases("read", "user") /\ Eases("read", "rsleep") /\ {"user", "rsleep"} \subseteq Place
    BY DEF Eases, Place
  <2> QED BY <1>1, <1>2, <2>1, Asleep, Wakes DEF FilesInv
<1>4. PipeTypeOK'
  BY <1>1, <1>2, <1>3 DEF FilesInv, PipeTypeOK, table, pi
<1> QED BY <1>1, <1>3, <1>4, QuietMoves DEF pi

LEMMA FilesReadCopy == ASSUME FilesInv, NEW p \in Client, ReadCopy(p) PROVE FilesInv'
<1>1. /\ at[p] = "read" /\ UNCHANGED <<table, alive, data, nwrite, readopen, writeopen, lock, todo, ff, killed, unwoken>>
      /\ at' = [WakeWriters EXCEPT ![p] = "user"] /\ left' = [left EXCEPT ![p] = 0]
  BY DEF ReadCopy, Leave
<1>2. nread' \in 0 .. Wrap - 1
  <2>1. PICK k \in 0 .. Length : nread' = (nread + k) % Wrap
    BY DEF ReadCopy
  <2>2. nread \in Int /\ k \in Int
    BY <2>1 DEF FilesInv, PipeTypeOK
  <2> QED BY <2>1, <2>2, PipeNumbers
<1>3. at' \in [Client -> Place] /\ \A q \in Client : Eases(at[q], at'[q])
  <2>1. Eases("read", "user") /\ "user" \in Place
    BY DEF Eases, Place
  <2> QED BY <1>1, <2>1, Asleep, Wakes DEF FilesInv
<1>4. PipeTypeOK'
  BY <1>1, <1>2, <1>3 DEF FilesInv, PipeTypeOK, table
<1> QED BY <1>1, <1>3, <1>4, QuietMoves

LEMMA FilesWrite ==
  ASSUME FilesInv, NEW p \in Client, WriteRefused(p) \/ WriteFull(p) \/ WriteDone(p)
  PROVE  FilesInv'
<1>1. at[p] = "write" /\ lock' = Nil /\ UNCHANGED <<table, pi, todo, ff, killed>>
  BY DEF WriteRefused, WriteFull, WriteDone, Writing
<1>2. /\ \/ at' = [at EXCEPT ![p] = "user"] \/ at' = [WakeReaders EXCEPT ![p] = "user"]
         \/ at' = [WakeReaders EXCEPT ![p] = "wsleep"]
      /\ left' \in [Client -> Nat] /\ unwoken' \in BOOLEAN
  <2>1. left \in [Client -> Nat] /\ unwoken \in BOOLEAN
    BY DEF FilesInv, PipeTypeOK
  <2>2. CASE WriteRefused(p)
    BY <2>1, <2>2 DEF WriteRefused, Leave
  <2>3. CASE WriteFull(p)
    BY <2>1, <2>3 DEF WriteFull
  <2>4. CASE WriteDone(p)
    BY <2>1, <2>4 DEF WriteDone, Leave
  <2> QED BY <2>2, <2>3, <2>4
<1>3. at' \in [Client -> Place] /\ \A q \in Client : Eases(at[q], at'[q])
  <2>1. Eases("write", "user") /\ Eases("write", "wsleep") /\ {"user", "wsleep"} \subseteq Place
    BY DEF Eases, Place
  <2> QED BY <1>1, <1>2, <2>1, Asleep, Wakes DEF FilesInv
<1>4. PipeTypeOK'
  BY <1>1, <1>2, <1>3 DEF FilesInv, PipeTypeOK, table, pi
<1> QED BY <1>1, <1>3, <1>4, QuietMoves DEF pi

LEMMA FilesWriteByte ==
  ASSUME FilesInv, NEW p \in Client, NEW b \in Byte, WriteByte(p, b)
  PROVE  FilesInv'
<1>1. /\ lock' = p /\ data' = [data EXCEPT ![nwrite % PIPESIZE] = b]
      /\ nwrite' = (nwrite + 1) % Wrap /\ left' = [left EXCEPT ![p] = left[p] - 1] /\ left[p] > 0
      /\ UNCHANGED <<table, alive, nread, readopen, writeopen, at, todo, ff, killed, unwoken>>
  BY DEF WriteByte
<1>2. nwrite' \in 0 .. Wrap - 1
  BY <1>1, PipeNumbers DEF FilesInv, PipeTypeOK
<1>3. left' \in [Client -> Nat]
  <2>1. left[p] - 1 \in Nat /\ left \in [Client -> Nat]
    BY <1>1 DEF FilesInv, PipeTypeOK
  <2> QED BY <1>1, <2>1
<1>4. data' \in [0 .. PIPESIZE - 1 -> Byte \cup {Nil}]
  BY <1>1 DEF FilesInv, PipeTypeOK
<1>5. PipeTypeOK'
  BY <1>1, <1>2, <1>3, <1>4 DEF FilesInv, PipeTypeOK, table
<1>6. \A q \in Client : Eases(at[q], at'[q])
  BY <1>1 DEF Eases
<1> QED BY <1>1, <1>5, <1>6, QuietMoves

LEMMA FilesKill == ASSUME FilesInv, NEW p \in Client, Kill(p) PROVE FilesInv'
<1>1. /\ killed' = [killed EXCEPT ![p] = TRUE]
      /\ UNCHANGED <<table, pi, lock, left, todo, ff, unwoken>>
  BY DEF Kill
<1> DEFINE b == CASE at[p] = "rsleep" -> "read" [] at[p] = "wsleep" -> "write" [] OTHER -> at[p]
<1>2. at' = [at EXCEPT ![p] = b]
  BY DEF Kill
<1>3. b \in Place /\ Eases(at[p], b)
  <2>1. at[p] \in Place
    BY DEF FilesInv, PipeTypeOK
  <2>2. CASE at[p] = "rsleep"
    BY <2>2 DEF Place, Eases
  <2>3. CASE at[p] = "wsleep"
    BY <2>3 DEF Place, Eases
  <2>4. CASE at[p] \notin {"rsleep", "wsleep"}
    BY <2>1, <2>4 DEF Eases
  <2> QED BY <2>2, <2>3, <2>4
<1> HIDE DEF b
<1>4. at' \in [Client -> Place] /\ \A q \in Client : Eases(at[q], at'[q])
  BY <1>2, <1>3, Asleep, Wakes DEF FilesInv
<1>5. PipeTypeOK'
  BY <1>1, <1>4 DEF FilesInv, PipeTypeOK, table, pi
<1> QED BY <1>1, <1>4, <1>5, QuietMoves DEF pi

LEMMA FilesExitFiles == ASSUME FilesInv, NEW p \in Client, ExitFiles(p) PROVE FilesInv'
<1>1. /\ at[p] = "user" /\ at' = [at EXCEPT ![p] = "exit"]
      /\ UNCHANGED <<table, pi, lock, left, todo, ff, killed, unwoken>>
  BY DEF ExitFiles
<1>2. at' \in [Client -> Place] /\ \A q \in Client : Eases(at[q], at'[q])
  <2>1. Eases("user", "exit") /\ "exit" \in Place
    BY DEF Eases, Place
  <2> QED BY <1>1, <2>1, Asleep, Wakes DEF FilesInv
<1>3. PipeTypeOK'
  BY <1>1, <1>2 DEF FilesInv, PipeTypeOK, table, pi
<1> QED BY <1>1, <1>2, <1>3, QuietMoves DEF pi

LEMMA FilesExited == ASSUME FilesInv, NEW p \in Client, Exited(p) PROVE FilesInv'
<1>1. /\ at[p] = "exit" /\ Occupied(p) = {} /\ todo[p] = <<>> /\ at' = [at EXCEPT ![p] = "dead"]
      /\ killed' = [killed EXCEPT ![p] = FALSE]
      /\ UNCHANGED <<table, pi, lock, left, todo, ff, unwoken>>
  BY DEF Exited
<1>2. at \in [Client -> Place] /\ Fits("exit", <<>>, ff[p], ofile[p], end)
  BY <1>1 DEF FilesInv, PipeTypeOK, FitsAll
<1>3. Fits("dead", <<>>, ff[p], ofile[p], end)
  BY <1>1, <1>2 DEF Fits, Occupied
<1>4. FitsAll'
  BY <1>1, <1>2, <1>3 DEF FilesInv, FitsAll, table
<1>5. PipeTypeOK'
  BY <1>1 DEF FilesInv, PipeTypeOK, table, pi, Place
<1> QED BY <1>1, <1>2, <1>4, <1>5, QuietFiles DEF pi

LEMMA FilesCall ==
  ASSUME FilesInv, NEW p \in Client, NEW e \in {"read", "write"}, NEW n \in 1 .. MaxN, Call(p, e, n)
  PROVE  FilesInv'
<1>1. /\ at[p] = "user" /\ at' = [at EXCEPT ![p] = e] /\ left' = [left EXCEPT ![p] = n]
      /\ \E fd \in Occupied(p) : end[ofile[p][fd]] = e
      /\ UNCHANGED <<table, pi, lock, todo, ff, killed, unwoken>>
  BY DEF Call, Calls
<1>2. at \in [Client -> Place] /\ Fits("user", todo[p], ff[p], ofile[p], end)
  BY <1>1 DEF FilesInv, PipeTypeOK, FitsAll
<1>3. HasEnd(ofile[p], end, e)
  BY <1>1 DEF HasEnd, Occupied, FilesInv, PipeTypeOK
<1>4. Fits(e, todo[p], ff[p], ofile[p], end)
  BY <1>2, <1>3 DEF Fits
<1>5. FitsAll'
  BY <1>1, <1>2, <1>4 DEF FilesInv, FitsAll, table
<1>6. PipeTypeOK'
  BY <1>1, PipeNumbers DEF FilesInv, PipeTypeOK, table, pi, Place
<1> QED BY <1>1, <1>2, <1>5, <1>6, QuietFiles DEF pi

-----------------------------------------------------------------------------
(* Steps of one process on descriptors and files                           *)

LEMMA OneMoves ==
  ASSUME FilesInv, PipeTypeOK', NEW p \in Client,
         \A q \in Client \ {p} : /\ ofile'[q] = ofile[q] /\ todo'[q] = todo[q] /\ ff'[q] = ff[q]
                                 /\ Eases(at[q], at'[q]),
         Fits(at'[p], todo'[p], ff'[p], ofile'[p], end'),
         \A q \in Client \ {p}, fd \in Fds : ofile[q][fd] \in Files => end'[ofile[q][fd]] = end[ofile[q][fd]],
         \A f \in Files : /\ ref'[f] = ref[f] + (Mine(todo'[p], ff'[p], ofile'[p], at'[p], f)
                                                  - Mine(todo[p], ff[p], ofile[p], at[p], f))
                          /\ ref'[f] = 0 <=> end'[f] = "none",
         OneEnd', EndsOpen'
  PROVE  FilesInv'
<1>1. ASSUME NEW q \in Client \ {p}
      PROVE  Fits(at'[q], todo'[q], ff'[q], ofile'[q], end') /\ (at'[q] = "dup" <=> at[q] = "dup")
  <2>1. Fits(at[q], todo[q], ff[q], ofile[q], end) /\ Eases(at[q], at'[q])
    BY DEF FilesInv, FitsAll
  <2>2. Fits(at'[q], todo[q], ff[q], ofile[q], end) /\ (at'[q] = "dup" <=> at[q] = "dup")
    BY <2>1, FitsOn
  <2>3. Fits(at'[q], todo[q], ff[q], ofile[q], end')
    BY <2>2 DEF Fits, HasEnd
  <2> QED BY <2>2, <2>3
<1>2. FitsAll'
  BY <1>1 DEF FitsAll
<1>3. ASSUME NEW f \in Files PROVE ref'[f] = Count(f)'
  <2>1. \A q \in Client \ {p} : (at'[q] = "dup") = (at[q] = "dup")
    BY <1>1
  <2>2. Count(f)' = Count(f) + (Mine(todo'[p], ff'[p], ofile'[p], at'[p], f)
                                - Mine(todo[p], ff[p], ofile[p], at[p], f))
    BY <2>1, OneCounts DEF FilesInv
  <2> QED BY <2>2 DEF FilesInv, CountsRight
<1>4. CountsRight'
  BY <1>3 DEF CountsRight
<1> QED BY <1>2, <1>4 DEF FilesInv

Same(x, y) == IF x = y THEN 1 ELSE 0

\* One descriptor is filled or emptied.
LEMMA AmongOne ==
  ASSUME NEW o, NEW u, NEW fd \in Fds, NEW f, Among(u, f) \ {fd} = Among(o, f) \ {fd}
  PROVE  /\ Cardinality(Among(u, f)) = Cardinality(Among(o, f)) + (Same(f, u[fd]) - Same(f, o[fd]))
         /\ Cardinality(Among(o, f)) \in Nat
<1> DEFINE S == Among(o, f)
           T == Among(u, f)
<1>1. S \ {fd} = T \ {fd} /\ (fd \in T) = (f = u[fd]) /\ (fd \in S) = (f = o[fd])
  BY DEF Among
<1>2. IsFiniteSet(S) /\ IsFiniteSet(T)
  BY PipeNumbers, FS_Subset DEF Among
<1> HIDE DEF S, T
<1>3. Cardinality(T) = Cardinality(S) + (One(fd \in T) - One(fd \in S)) /\ Cardinality(S) \in Nat
  BY <1>1, <1>2, OneElement
<1>4. One(fd \in T) = Same(f, u[fd]) /\ One(fd \in S) = Same(f, o[fd])
  BY <1>1 DEF One, Same
<1> QED BY <1>3, <1>4 DEF S, T

LEMMA OneIs == ASSUME NEW b \in BOOLEAN PROVE One(b) \in {0, 1} /\ (b => One(b) = 1) /\ (~b => One(b) = 0)
  BY DEF One

LEMMA MineIs ==
  ASSUME NEW t, NEW x, NEW o, NEW a, NEW f
  PROVE  /\ a # "dup" => Mine(t, x, o, a, f) = Cardinality(Among(o, f)) + One(f \in Pending(t, x))
         /\ a = "dup" => Mine(t, x, o, a, f) = Cardinality(Among(o, f)) - One(f \in Pending(t, x))
         /\ Cardinality(Among(o, f)) \in Nat
<1> DEFINE n == Cardinality(Among(o, f))
           c == One(f \in Pending(t, x))
<1>1. n \in Nat
  BY PipeNumbers, FS_Subset, FS_CardinalityType DEF Among
<1>2. /\ Mine(t, x, o, a, f) = n + (One(f \in Pending(t, x) /\ a # "dup") - One(f \in Pending(t, x) /\ a = "dup"))
      /\ c \in Int
  BY DEF Mine, One
<1>3. CASE a = "dup"
  <2>1. One(f \in Pending(t, x) /\ a # "dup") = 0 /\ One(f \in Pending(t, x) /\ a = "dup") = c
    BY <1>3 DEF One
  <2> HIDE DEF n, c
  <2>2. Mine(t, x, o, a, f) = n - c
    BY <1>1, <1>2, <2>1
  <2> QED BY <1>1, <1>3, <2>2 DEF n, c
<1>4. CASE a # "dup"
  <2>1. One(f \in Pending(t, x) /\ a # "dup") = c /\ One(f \in Pending(t, x) /\ a = "dup") = 0
    BY <1>4 DEF One
  <2> HIDE DEF n, c
  <2>2. Mine(t, x, o, a, f) = n + c
    BY <1>1, <1>2, <2>1
  <2> QED BY <1>1, <1>4, <2>2 DEF n, c
<1> QED BY <1>3, <1>4

LEMMA LeastIs == ASSUME NEW S, S \subseteq Nat, S # {} PROVE Least(S) \in S
<1>1. IsWellFoundedOn(OpToRel(<, Nat), Nat)
  BY NatLessThanWellFounded
<1>2. PICK n \in S : \A m \in S : <<m, n>> \notin OpToRel(<, Nat)
  BY <1>1, WFMin
<1>3. \A m \in S : ~(m < n)
  BY <1>2, Zenon DEF OpToRel
<1>4. \E k \in S : \A m \in S : k <= m
  <2>1. ASSUME NEW m \in S PROVE n <= m
    <3>1. n \in Nat /\ m \in Nat /\ ~(m < n)
      BY <1>2, <1>3
    <3> QED BY <3>1
  <2> QED BY <1>2, <2>1
<1> QED BY <1>4 DEF Least

\* A file with a descriptor is in use, whatever processes are about to count or close.
LEMMA InUseFile ==
  ASSUME FilesInv, NEW f \in Files
  PROVE  /\ ref[f] \in Nat /\ ref[f] = Count(f)
         /\ \A q \in Client, fd \in Fds : ofile[q][fd] = f => ref[f] > 0 /\ end[f] # "none"
         /\ \A q \in Client : q \in Closing(f) => ref[f] > 0 /\ end[f] # "none"
         /\ \A q, r \in Client, fd \in Fds : q \in Closing(f) /\ ofile[r][fd] = f => ref[f] > 1
<1> DEFINE t == Cardinality(Closing(f))
<1>1. /\ Naming(f) # {} => ref[f] > t
      /\ Closing(f) # {} => t > 0
      /\ t \in Nat /\ ref[f] \in Int /\ ref[f] = Count(f) /\ ref[f] >= t
  BY NamedCounts DEF FilesInv, CountsRight
<1> HIDE DEF t
<1>2. \A q \in Client, fd \in Fds : ofile[q][fd] = f => Naming(f) # {}
  <2>1. ASSUME NEW q \in Client, NEW fd \in Fds, ofile[q][fd] = f PROVE <<q, fd>> \in Naming(f)
    BY <2>1 DEF Naming
  <2> QED BY <2>1
<1>3. (ref[f] = 0 <=> end[f] = "none") /\ ref[f] \in Nat
  BY <1>1 DEF FilesInv, CountsRight
<1>4. Naming(f) # {} => ref[f] > 0
  BY <1>1
<1>5. Closing(f) # {} => ref[f] > 0
  BY <1>1
<1>6. Naming(f) # {} /\ Closing(f) # {} => ref[f] > 1
  BY <1>1
<1> QED BY <1>1, <1>2, <1>3, <1>4, <1>5, <1>6

\* Nothing happens to the ends.
LEMMA EndsStay ==
  ASSUME FilesInv, UNCHANGED <<end, ff, readopen, writeopen, alive>>
  PROVE  OneEnd' /\ EndsOpen'
  BY DEF FilesInv, OneEnd, EndsOpen, IsOpen

LEMMA Stays ==
  ASSUME PipeTypeOK, NEW p \in Client, NEW b, at' = [at EXCEPT ![p] = b]
  PROVE  at'[p] = b /\ \A q \in Client \ {p} : Eases(at[q], at'[q])
  BY DEF PipeTypeOK, Eases

\* A descriptor of p becomes x.
LEMMA Filled ==
  ASSUME PipeTypeOK, NEW p \in Client, NEW i \in Fds, NEW x \in Files \cup {0},
         ofile' = [ofile EXCEPT ![p][i] = x]
  PROVE  /\ ofile' \in [Client -> [Fds -> Files \cup {0}]]
         /\ \A q \in Client \ {p} : ofile'[q] = ofile[q]
         /\ ofile'[p][i] = x /\ \A k \in Fds \ {i} : ofile'[p][k] = ofile[p][k]
         /\ \A g : /\ Cardinality(Among(ofile'[p], g))
                        = Cardinality(Among(ofile[p], g)) + (Same(g, x) - Same(g, ofile[p][i]))
                   /\ Cardinality(Among(ofile[p], g)) \in Nat
<1>1. /\ ofile' \in [Client -> [Fds -> Files \cup {0}]]
      /\ \A q \in Client \ {p} : ofile'[q] = ofile[q]
      /\ ofile'[p][i] = x /\ \A k \in Fds \ {i} : ofile'[p][k] = ofile[p][k]
  BY DEF PipeTypeOK
<1>2. ASSUME NEW g
      PROVE  /\ Cardinality(Among(ofile'[p], g))
                  = Cardinality(Among(ofile[p], g)) + (Same(g, x) - Same(g, ofile[p][i]))
             /\ Cardinality(Among(ofile[p], g)) \in Nat
  <2>1. Among(ofile'[p], g) \ {i} = Among(ofile[p], g) \ {i}
    BY <1>1 DEF Among
  <2>2. i \in Fds
    OBVIOUS
  <2>3. /\ Cardinality(Among(ofile'[p], g))
             = Cardinality(Among(ofile[p], g)) + (Same(g, ofile'[p][i]) - Same(g, ofile[p][i]))
        /\ Cardinality(Among(ofile[p], g)) \in Nat
    BY <2>1, <2>2, AmongOne, Zenon
  <2> QED BY <1>1, <2>3, Zenon
<1> QED BY <1>1, <1>2, Zenon

LEMMA SameIs ==
  /\ \A x, y : Same(x, y) \in {0, 1}
  /\ \A x : Same(x, x) = 1
  /\ \A x, y : x # y => Same(x, y) = 0
  /\ \A x : One(x \in {}) = 0
  /\ \A x, y : One(x \in {y}) = Same(x, y)
  /\ \A x, y, z : y # z => One(x \in {y, z}) = Same(x, y) + Same(x, z)
  BY DEF Same, One

LEMMA FilesFdalloc ==
  ASSUME FilesInv, NEW p \in Client, NEW f \in Files, Fdalloc(p, f)
  PROVE  FilesInv'
<1>1. /\ at[p] = "user" /\ at' = [at EXCEPT ![p] = "dup"] /\ todo' = [todo EXCEPT ![p] = <<f>>]
      /\ f \in {ofile[p][fd] : fd \in Occupied(p)}
      /\ UNCHANGED <<ref, end, pi, lock, left, ff, killed, unwoken>>
  BY DEF Fdalloc, Calls
<1>2. PICK i \in Fds : ofile[p][i] = 0 /\ ofile' = [ofile EXCEPT ![p][i] = f]
  <2> DEFINE room == Fds \ Occupied(p)
  <2>1. room \subseteq Nat /\ room # {} /\ ofile' = [ofile EXCEPT ![p][Least(room)] = f]
    BY PipeNumbers DEF Fdalloc
  <2>2. Least(room) \in room
    BY <2>1, LeastIs
  <2> QED BY <2>1, <2>2 DEF Occupied
<1>3. PipeTypeOK /\ todo[p] = <<>> /\ ff[p] = "none" /\ ref \in [Files -> Int] /\ ofile[p] \in [Fds -> Files \cup {0}]
  BY <1>1 DEF FilesInv, PipeTypeOK, FitsAll, Fits
<1>4. PICK j \in Fds : ofile[p][j] = f
  BY <1>1 DEF Occupied
<1>5. todo'[p] = <<f>> /\ ff'[p] = "none" /\ at'[p] = "dup" /\ i # j
  BY <1>1, <1>2, <1>3, <1>4, PipeNumbers DEF PipeTypeOK
<1>6. /\ ofile' \in [Client -> [Fds -> Files \cup {0}]]
      /\ \A q \in Client \ {p} : ofile'[q] = ofile[q]
      /\ ofile'[p][i] = f /\ \A k \in Fds \ {i} : ofile'[p][k] = ofile[p][k]
      /\ \A g : /\ Cardinality(Among(ofile'[p], g)) = Cardinality(Among(ofile[p], g)) + (Same(g, f) - Same(g, 0))
                /\ Cardinality(Among(ofile[p], g)) \in Nat
  <2>1. f \in Files \cup {0} /\ i \in Fds /\ PipeTypeOK /\ ofile' = [ofile EXCEPT ![p][i] = f]
    BY <1>2, <1>3
  <2>2. /\ ofile' \in [Client -> [Fds -> Files \cup {0}]]
        /\ \A q \in Client \ {p} : ofile'[q] = ofile[q]
        /\ ofile'[p][i] = f /\ \A k \in Fds \ {i} : ofile'[p][k] = ofile[p][k]
        /\ \A g : /\ Cardinality(Among(ofile'[p], g))
                        = Cardinality(Among(ofile[p], g)) + (Same(g, f) - Same(g, ofile[p][i]))
                  /\ Cardinality(Among(ofile[p], g)) \in Nat
    BY <2>1, Filled
  <2> QED BY <1>2, <2>2, Zenon
<1>7. Fits(at'[p], todo'[p], ff'[p], ofile'[p], end')
  <2>1. i # j /\ i \in Fds /\ j \in Fds /\ ofile'[p][i] = f /\ ofile'[p][j] = f
    BY <1>2, <1>4, <1>5, <1>6
  <2> QED BY <1>5, <2>1 DEF Fits
<1>8. PipeTypeOK'
  BY <1>1, <1>3, <1>6 DEF PipeTypeOK, pi, Place
<1>9. ASSUME NEW g \in Files
      PROVE  ref'[g] = ref[g] + (Mine(todo'[p], ff'[p], ofile'[p], at'[p], g)
                                 - Mine(todo[p], ff[p], ofile[p], at[p], g))
  <2> DEFINE n == Cardinality(Among(ofile[p], g))
             m == Cardinality(Among(ofile'[p], g))
  <2>1. m = n + (Same(g, f) - Same(g, 0)) /\ n \in Nat
    BY <1>6, Zenon
  <2>2. Mine(todo[p], ff[p], ofile[p], at[p], g) = n + One(g \in {})
    BY <1>1, <1>3, MineIs, PendingOf
  <2>3. Mine(todo'[p], ff'[p], ofile'[p], at'[p], g) = m - One(g \in {f})
    BY <1>5, MineIs, PendingOf
  <2>4. Same(g, 0) = 0 /\ One(g \in {}) = 0 /\ One(g \in {f}) = Same(g, f) /\ Same(g, f) \in Int
    BY SameIs, PipeNumbers
  <2>5. ref'[g] = ref[g] /\ ref[g] \in Int
    BY <1>1, <1>3
  <2> HIDE DEF n, m
  <2> QED BY <2>1, <2>2, <2>3, <2>4, <2>5
<1>10. OneEnd' /\ EndsOpen'
  BY <1>1, EndsStay DEF pi
<1>11. \A q \in Client \ {p} : /\ ofile'[q] = ofile[q] /\ todo'[q] = todo[q] /\ ff'[q] = ff[q]
                               /\ Eases(at[q], at'[q])
  <2>1. \A q \in Client \ {p} : ofile'[q] = ofile[q] /\ todo'[q] = todo[q] /\ ff'[q] = ff[q]
    BY <1>1, <1>6
  <2> QED BY <1>1, <1>3, <2>1, Stays
<1>12. \A g \in Files : ref'[g] = 0 <=> end'[g] = "none"
  BY <1>1 DEF FilesInv, CountsRight
<1> QED BY <1>1, <1>7, <1>8, <1>9, <1>10, <1>11, <1>12, OneMoves

LEMMA FilesFiledup == ASSUME FilesInv, NEW p \in Client, Filedup(p) PROVE FilesInv'
<1>1. /\ at[p] = "dup" /\ at' = [at EXCEPT ![p] = "user"] /\ todo' = [todo EXCEPT ![p] = <<>>]
      /\ ref' = [ref EXCEPT ![todo[p][1]] = @ + 1]
      /\ UNCHANGED <<ofile, end, pi, lock, left, ff, killed, unwoken>>
  BY DEF Filedup
<1>2. /\ ff[p] = "none"
      /\ \E f \in Files, i, j \in Fds : i # j /\ todo[p] = <<f>> /\ ofile[p][i] = f /\ ofile[p][j] = f
  BY <1>1 DEF FilesInv, FitsAll, Fits
<1>3. PICK f \in Files, i \in Fds : todo[p] = <<f>> /\ ofile[p][i] = f
  BY <1>2
<1>4. PipeTypeOK /\ ref \in [Files -> Int] /\ ref' = [ref EXCEPT ![f] = ref[f] + 1]
  BY <1>1, <1>3 DEF FilesInv, PipeTypeOK
<1>5. /\ todo'[p] = <<>> /\ ff'[p] = "none" /\ at'[p] = "user" /\ ofile'[p] = ofile[p]
      /\ ref[f] > 0 /\ end[f] # "none"
  <2>1. ref[f] > 0 /\ end[f] # "none"
    BY <1>3, InUseFile
  <2> QED BY <1>1, <1>2, <1>4, <2>1 DEF PipeTypeOK
<1>6. Fits(at'[p], todo'[p], ff'[p], ofile'[p], end')
  BY <1>5 DEF Fits
<1>7. PipeTypeOK'
  BY <1>1, <1>3, <1>4 DEF PipeTypeOK, pi, Place
<1>8. ASSUME NEW g \in Files
      PROVE  /\ ref'[g] = ref[g] + (Mine(todo'[p], ff'[p], ofile'[p], at'[p], g)
                                    - Mine(todo[p], ff[p], ofile[p], at[p], g))
             /\ ref'[g] = 0 <=> end'[g] = "none"
  <2> DEFINE n == Cardinality(Among(ofile[p], g))
  <2>1. n \in Nat
    BY MineIs
  <2>2. Mine(todo[p], ff[p], ofile[p], at[p], g) = n - One(g \in {f})
    BY <1>1, <1>2, <1>3, MineIs, PendingOf
  <2>3. Mine(todo'[p], ff'[p], ofile'[p], at'[p], g) = n + One(g \in {})
    BY <1>5, MineIs, PendingOf
  <2>4. One(g \in {}) = 0 /\ One(g \in {f}) = Same(g, f) /\ Same(g, f) \in Int
    BY SameIs
  <2>5. ref'[g] = ref[g] + Same(g, f) /\ ref[g] \in Int
    BY <1>4 DEF Same
  <2>6. ref'[g] = 0 <=> end'[g] = "none"
    BY <1>1, <1>4, <1>5 DEF FilesInv, CountsRight
  <2> HIDE DEF n
  <2>7. ref'[g] = ref[g] + (Mine(todo'[p], ff'[p], ofile'[p], at'[p], g)
                            - Mine(todo[p], ff[p], ofile[p], at[p], g))
    BY <2>1, <2>2, <2>3, <2>4, <2>5
  <2> QED BY <2>6, <2>7
<1>9. OneEnd' /\ EndsOpen'
  BY <1>1, EndsStay DEF pi
<1>10. \A q \in Client \ {p} : /\ ofile'[q] = ofile[q] /\ todo'[q] = todo[q] /\ ff'[q] = ff[q]
                               /\ Eases(at[q], at'[q])
  <2>1. \A q \in Client \ {p} : ofile'[q] = ofile[q] /\ todo'[q] = todo[q] /\ ff'[q] = ff[q]
    BY <1>1
  <2> QED BY <1>1, <1>4, <2>1, Stays
<1> QED BY <1>1, <1>6, <1>7, <1>8, <1>9, <1>10, OneMoves

LEMMA FilesClose ==
  ASSUME FilesInv, NEW p \in Client, NEW fd \in Fds, Close(p, fd)
  PROVE  FilesInv'
<1> DEFINE f == ofile[p][fd]
<1>1. /\ fd \in Occupied(p) /\ todo[p] = <<>> /\ at[p] \in {"user", "exit"}
      /\ ofile' = [ofile EXCEPT ![p][fd] = 0] /\ todo' = [todo EXCEPT ![p] = <<f>>]
      /\ UNCHANGED <<ref, end, pi, lock, left, ff, killed, unwoken>>
  BY DEF Close, Calls
<1>2. f \in Files /\ PipeTypeOK /\ ref \in [Files -> Int]
  BY <1>1 DEF FilesInv, PipeTypeOK, Occupied
<1>3. PICK b \in {"close", "exit"} : at' = [at EXCEPT ![p] = b]
  BY <1>1, <1>2 DEF Close, PipeTypeOK
<1>4. ff[p] = "none"
  <2>1. Fits(at[p], todo[p], ff[p], ofile[p], end) /\ \A g : <<g>> # <<>>
    BY DEF FilesInv, FitsAll
  <2> QED BY <1>1, <2>1 DEF Fits
<1>5. todo'[p] = <<f>> /\ ff'[p] = "none" /\ at'[p] = b
  BY <1>1, <1>2, <1>3, <1>4 DEF PipeTypeOK
<1>6. /\ ofile' \in [Client -> [Fds -> Files \cup {0}]]
      /\ \A q \in Client \ {p} : ofile'[q] = ofile[q]
      /\ \A g : /\ Cardinality(Among(ofile'[p], g)) = Cardinality(Among(ofile[p], g)) + (Same(g, 0) - Same(g, f))
                /\ Cardinality(Among(ofile[p], g)) \in Nat
  BY <1>1, <1>2, Filled
<1> HIDE DEF f
<1>7. Fits(at'[p], todo'[p], ff'[p], ofile'[p], end')
  BY <1>2, <1>3, <1>5 DEF Fits
<1>8. PipeTypeOK'
  BY <1>1, <1>2, <1>3, <1>6 DEF PipeTypeOK, pi, Place
<1>9. ASSUME NEW g \in Files
      PROVE  ref'[g] = ref[g] + (Mine(todo'[p], ff'[p], ofile'[p], at'[p], g)
                                 - Mine(todo[p], ff[p], ofile[p], at[p], g))
  <2> DEFINE n == Cardinality(Among(ofile[p], g))
             m == Cardinality(Among(ofile'[p], g))
  <2>1. m = n + (Same(g, 0) - Same(g, f)) /\ n \in Nat
    BY <1>6, Zenon
  <2>2. Mine(todo[p], ff[p], ofile[p], at[p], g) = n + One(g \in {})
    BY <1>1, <1>4, MineIs, PendingOf
  <2>3. Mine(todo'[p], ff'[p], ofile'[p], at'[p], g) = m + One(g \in {f})
    BY <1>2, <1>3, <1>5, MineIs, PendingOf
  <2>4. Same(g, 0) = 0 /\ One(g \in {}) = 0 /\ One(g \in {f}) = Same(g, f) /\ Same(g, f) \in Int
    BY SameIs, PipeNumbers
  <2>5. ref'[g] = ref[g] /\ ref[g] \in Int
    BY <1>1, <1>2
  <2> HIDE DEF n, m
  <2> QED BY <2>1, <2>2, <2>3, <2>4, <2>5
<1>10. OneEnd' /\ EndsOpen'
  BY <1>1, EndsStay DEF pi
<1>11. \A q \in Client \ {p} : /\ ofile'[q] = ofile[q] /\ todo'[q] = todo[q] /\ ff'[q] = ff[q]
                               /\ Eases(at[q], at'[q])
  <2>1. \A q \in Client \ {p} : ofile'[q] = ofile[q] /\ todo'[q] = todo[q] /\ ff'[q] = ff[q]
    BY <1>1, <1>6
  <2> QED BY <1>2, <1>3, <2>1, Stays
<1>12. \A g \in Files : ref'[g] = 0 <=> end'[g] = "none"
  BY <1>1 DEF FilesInv, CountsRight
<1> QED BY <1>1, <1>7, <1>8, <1>9, <1>10, <1>11, <1>12, OneMoves

\* The file that a process is closing, and the other one of a failed sys_pipe().
Owes(p, f) ==
  \/ todo[p] = <<f>>
  \/ at[p] = "close" /\ \E g \in Files : f # g /\ todo[p] = <<f, g>>

LEMMA OwesOf ==
  ASSUME FilesInv, NEW p \in Client, at[p] \in {"close", "exit"}, todo[p] # <<>>
  PROVE  \E f \in Files : Head(todo[p]) = f /\ Owes(p, f) /\ f \in Pending(todo[p], "none")
<1>1. Fits(at[p], todo[p], ff[p], ofile[p], end)
  BY DEF FilesInv, FitsAll
<1>2. CASE \E f \in Files : todo[p] = <<f>>
  BY <1>2, PendingOf DEF Owes
<1>3. CASE at[p] = "close" /\ \E f, g \in Files : f # g /\ todo[p] = <<f, g>>
  BY <1>3, PendingOf DEF Owes
<1> QED BY <1>1, <1>2, <1>3 DEF Fits

LEMMA AfterClosed ==
  ASSUME PipeTypeOK, NEW p \in Client, NEW f \in Files, NEW st \in [Client -> Place],
         st[p] = at[p], at[p] \in {"close", "exit"}, Owes(p, f), Closed(p, st)
  PROVE  /\ todo' \in [Client -> Seq(Files)] /\ at' \in [Client -> Place]
         /\ \A q \in Client \ {p} : todo'[q] = todo[q] /\ at'[q] = st[q]
         /\ at'[p] # "dup" /\ \A o, e : Fits(at'[p], todo'[p], "none", o, e)
         /\ \A h \in Files : /\ One(h \in Pending(todo[p], "none"))
                                  = One(h \in Pending(todo'[p], "none")) + Same(h, f)
                             /\ One(h \in Pending(todo'[p], "none")) \in Nat
         /\ \A x : x # "none" => Pending(todo'[p], "none") = Pending(todo[p], x)
<1>1. /\ todo' = [todo EXCEPT ![p] = Tail(todo[p])]
      /\ at' = [st EXCEPT ![p] = IF at[p] = "close" /\ Len(todo[p]) = 1 THEN "user" ELSE at[p]]
      /\ todo \in [Client -> Seq(Files)] /\ at[p] \in Place
  BY DEF Closed, PipeTypeOK
<1>2. /\ \A q \in Client \ {p} : todo'[q] = todo[q] /\ at'[q] = st[q]
      /\ todo'[p] = Tail(todo[p])
      /\ at'[p] = IF at[p] = "close" /\ Len(todo[p]) = 1 THEN "user" ELSE at[p]
      /\ at' \in [Client -> Place]
  BY <1>1 DEF Place
<1>3. CASE todo[p] = <<f>>
  <2>1. Tail(<<f>>) = <<>> /\ Len(<<f>>) = 1 /\ <<>> \in Seq(Files)
    OBVIOUS
  <2>2. todo'[p] = <<>> /\ at'[p] \in {"user", "exit"}
    BY <1>2, <1>3, <2>1
  <2>3. todo' \in [Client -> Seq(Files)]
    BY <1>1, <1>3, <2>1
  <2>4. \A o, e : Fits(at'[p], todo'[p], "none", o, e)
    BY <2>2 DEF Fits
  <2>5. \A h \in Files : /\ One(h \in Pending(todo[p], "none"))
                              = One(h \in Pending(todo'[p], "none")) + Same(h, f)
                         /\ One(h \in Pending(todo'[p], "none")) \in Nat
    <3>1. Pending(todo[p], "none") = {f} /\ Pending(todo'[p], "none") = {}
      BY <1>3, <2>2, PendingOf
    <3> QED BY <3>1 DEF One, Same
  <2>6. \A x : x # "none" => Pending(todo'[p], "none") = Pending(todo[p], x)
    BY <1>3, <2>2, PendingOf
  <2> QED BY <1>2, <2>2, <2>3, <2>4, <2>5, <2>6
<1>4. CASE at[p] = "close" /\ \E g \in Files : f # g /\ todo[p] = <<f, g>>
  <2>0. PICK g \in Files : f # g /\ todo[p] = <<f, g>>
    BY <1>4
  <2>1. Tail(<<f, g>>) = <<g>> /\ Len(<<f, g>>) = 2 /\ <<g>> \in Seq(Files)
    OBVIOUS
  <2>2. todo'[p] = <<g>> /\ at'[p] = "close"
    BY <1>2, <1>4, <2>0, <2>1
  <2>3. todo' \in [Client -> Seq(Files)]
    BY <1>1, <2>0, <2>1
  <2>4. \A o, e : Fits(at'[p], todo'[p], "none", o, e)
    BY <2>0, <2>2 DEF Fits
  <2>5. \A h \in Files : /\ One(h \in Pending(todo[p], "none"))
                              = One(h \in Pending(todo'[p], "none")) + Same(h, f)
                         /\ One(h \in Pending(todo'[p], "none")) \in Nat
    <3>1. Pending(todo[p], "none") = {f, g} /\ Pending(todo'[p], "none") = {g}
      BY <2>0, <2>2, PendingOf
    <3> QED BY <2>0, <3>1 DEF One, Same
  <2>6. ASSUME NEW x, x # "none" PROVE Pending(todo'[p], "none") = Pending(todo[p], x)
    <3>1. Pending(<<g>>, "none") = {g}
      BY <2>0, PendingOf
    <3>2. Pending(<<f, g>>, x) = {g}
      BY <2>0, <2>6, PendingOf
    <3> QED BY <2>0, <2>2, <3>1, <3>2
  <2> QED BY <1>2, <2>2, <2>3, <2>4, <2>5, <2>6
<1> QED BY <1>3, <1>4 DEF Owes

\* fileclose() of a file that is still referred to.
LEMMA FilesReleased ==
  ASSUME FilesInv, NEW p \in Client, NEW f \in Files, at[p] \in {"close", "exit"}, ff[p] = "none",
         Owes(p, f), ref' = [ref EXCEPT ![f] = @ - 1], ref[f] > 1, Closed(p, at),
         UNCHANGED <<ofile, end, ff, pi, lock, left, killed, unwoken>>
  PROVE  FilesInv'
<1>1. PipeTypeOK /\ ref \in [Files -> Int] /\ at \in [Client -> Place]
  BY DEF FilesInv, PipeTypeOK
<1>2. /\ todo' \in [Client -> Seq(Files)] /\ at' \in [Client -> Place]
      /\ \A q \in Client \ {p} : todo'[q] = todo[q] /\ at'[q] = at[q]
      /\ at'[p] # "dup" /\ \A o, e : Fits(at'[p], todo'[p], "none", o, e)
      /\ \A h \in Files : /\ One(h \in Pending(todo[p], "none"))
                                = One(h \in Pending(todo'[p], "none")) + Same(h, f)
                          /\ One(h \in Pending(todo'[p], "none")) \in Nat
  BY <1>1, AfterClosed
<1>3. Fits(at'[p], todo'[p], ff'[p], ofile'[p], end')
  BY <1>2
<1>4. PipeTypeOK'
  BY <1>1, <1>2 DEF PipeTypeOK, pi
<1>5. ASSUME NEW g \in Files
      PROVE  /\ ref'[g] = ref[g] + (Mine(todo'[p], ff'[p], ofile'[p], at'[p], g)
                                    - Mine(todo[p], ff[p], ofile[p], at[p], g))
             /\ ref'[g] = 0 <=> end'[g] = "none"
  <2> DEFINE n == Cardinality(Among(ofile[p], g))
             c == One(g \in Pending(todo[p], "none"))
             d == One(g \in Pending(todo'[p], "none"))
  <2>1. n \in Nat
    BY MineIs
  <2>2. Mine(todo[p], ff[p], ofile[p], at[p], g) = n + c
    BY MineIs
  <2>3. Mine(todo'[p], ff'[p], ofile'[p], at'[p], g) = n + d
    BY <1>2, MineIs
  <2>4. c = d + Same(g, f) /\ d \in Nat /\ Same(g, f) \in Int
    BY <1>2 DEF Same
  <2>5. ref'[g] = ref[g] - Same(g, f) /\ ref[g] \in Int
    BY <1>1 DEF Same
  <2>6. ref'[g] = 0 <=> end'[g] = "none"
    BY <1>1 DEF FilesInv, CountsRight
  <2> HIDE DEF n, c, d
  <2>7. ref'[g] = ref[g] + (Mine(todo'[p], ff'[p], ofile'[p], at'[p], g)
                            - Mine(todo[p], ff[p], ofile[p], at[p], g))
    BY <2>1, <2>2, <2>3, <2>4, <2>5
  <2> QED BY <2>6, <2>7
<1>6. OneEnd' /\ EndsOpen'
  BY EndsStay DEF pi
<1>7. \A q \in Client \ {p} : /\ ofile'[q] = ofile[q] /\ todo'[q] = todo[q] /\ ff'[q] = ff[q]
                              /\ Eases(at[q], at'[q])
  BY <1>2 DEF Eases
<1> QED BY <1>3, <1>4, <1>5, <1>6, <1>7, OneMoves

\* fileclose() of the last reference: the end passes to the copy ff.
LEMMA FilesLast ==
  ASSUME FilesInv, NEW p \in Client, NEW f \in Files, at[p] \in {"close", "exit"}, ff[p] = "none",
         Owes(p, f), f \in Pending(todo[p], "none"), ref' = [ref EXCEPT ![f] = @ - 1], ~(ref[f] > 1),
         ff' = [ff EXCEPT ![p] = end[f]], end' = [end EXCEPT ![f] = "none"],
         UNCHANGED <<ofile, at, todo, pi, lock, left, killed, unwoken>>
  PROVE  FilesInv'
<1>1. /\ PipeTypeOK /\ ref \in [Files -> Int] /\ end \in [Files -> End] /\ ff \in [Client -> End]
      /\ Fits(at[p], todo[p], ff[p], ofile[p], end)
  BY DEF FilesInv, PipeTypeOK, FitsAll
<1>2. p \in Closing(f)
  BY DEF Closing, Pends, Pending
<1>3. ref[f] = 1 /\ end[f] # "none" /\ \A q \in Client, fd \in Fds : ofile[q][fd] # f
  <2>1. ref[f] \in Nat /\ ref[f] > 0 /\ end[f] # "none"
    BY <1>2, InUseFile
  <2>2. \A q \in Client, fd \in Fds : ofile[q][fd] # f
    BY <1>2, InUseFile
  <2> QED BY <2>1, <2>2
<1>4. /\ ff'[p] = end[f] /\ \A q \in Client \ {p} : ff'[q] = ff[q]
      /\ end'[f] = "none" /\ \A g \in Files \ {f} : end'[g] = end[g]
      /\ end[f] \in {"read", "write"}
  BY <1>1, <1>3 DEF End
<1>5. Fits(at'[p], todo'[p], ff'[p], ofile'[p], end')
  <2>1. at[p] = "exit" => todo[p] = <<f>>
    BY DEF Owes
  <2> QED BY <1>1, <2>1 DEF Fits
<1>6. PipeTypeOK'
  BY <1>1, <1>4 DEF PipeTypeOK, pi, End
<1>7. ASSUME NEW g \in Files
      PROVE  /\ ref'[g] = ref[g] + (Mine(todo'[p], ff'[p], ofile'[p], at'[p], g)
                                    - Mine(todo[p], ff[p], ofile[p], at[p], g))
             /\ ref'[g] = 0 <=> end'[g] = "none"
  <2> DEFINE n == Cardinality(Among(ofile[p], g))
             c == One(g \in Pending(todo[p], "none"))
             d == One(g \in Pending(todo[p], end[f]))
  <2>1. n \in Nat
    BY MineIs
  <2>2. Mine(todo[p], ff[p], ofile[p], at[p], g) = n + c
    BY MineIs
  <2>3. Mine(todo'[p], ff'[p], ofile'[p], at'[p], g) = n + d
    BY <1>4, MineIs
  <2>4. c = d + Same(g, f) /\ d \in Int /\ Same(g, f) \in Int
    <3>1. CASE todo[p] = <<f>>
      <4>1. Pending(todo[p], "none") = {f} /\ Pending(todo[p], end[f]) = {}
        BY <1>3, <3>1, PendingOf
      <4> QED BY <4>1 DEF One, Same
    <3>2. CASE \E h \in Files : f # h /\ todo[p] = <<f, h>>
      <4>1. PICK h \in Files : f # h /\ todo[p] = <<f, h>>
        BY <3>2
      <4>2. Pending(todo[p], "none") = {f, h} /\ Pending(todo[p], end[f]) = {h}
        BY <1>3, <4>1, PendingOf
      <4> QED BY <4>1, <4>2 DEF One, Same
    <3> QED BY <3>1, <3>2 DEF Owes
  <2>5. ref'[g] = ref[g] - Same(g, f) /\ ref[g] \in Int
    BY <1>1 DEF Same
  <2>6. ref'[g] = 0 <=> end'[g] = "none"
    BY <1>1, <1>3 DEF FilesInv, CountsRight
  <2> HIDE DEF n, c, d
  <2>7. ref'[g] = ref[g] + (Mine(todo'[p], ff'[p], ofile'[p], at'[p], g)
                            - Mine(todo[p], ff[p], ofile[p], at[p], g))
    BY <2>1, <2>2, <2>3, <2>4, <2>5
  <2> QED BY <2>6, <2>7
<1>8. OneEnd'
  BY <1>4 DEF FilesInv, OneEnd
<1>9. EndsOpen'
  <2>1. ASSUME NEW e \in {"read", "write"} PROVE IsOpen(e)' <=> IsOpen(e)
    BY <1>4, <2>1 DEF IsOpen
  <2>2. (IsOpen("read")' <=> IsOpen("read")) /\ (IsOpen("write")' <=> IsOpen("write"))
    BY <2>1
  <2>3. readopen' = readopen /\ writeopen' = writeopen /\ alive' = alive
    BY DEF pi
  <2> QED BY <2>2, <2>3 DEF FilesInv, EndsOpen, IsOpen
<1>10. \A q \in Client \ {p} : /\ ofile'[q] = ofile[q] /\ todo'[q] = todo[q] /\ ff'[q] = ff[q]
                               /\ Eases(at[q], at'[q])
  BY <1>4 DEF Eases
<1>11. \A q \in Client \ {p}, fd \in Fds : ofile[q][fd] \in Files => end'[ofile[q][fd]] = end[ofile[q][fd]]
  BY <1>3, <1>4
<1> QED BY <1>5, <1>6, <1>7, <1>8, <1>9, <1>10, <1>11, OneMoves

LEMMA FilesFileClose == ASSUME FilesInv, NEW p \in Client, FileClose(p) PROVE FilesInv'
<1>1. at[p] \in {"close", "exit"} /\ todo[p] # <<>> /\ ff[p] = "none"
  BY DEF FileClose
<1>2. PICK f \in Files : Head(todo[p]) = f /\ Owes(p, f) /\ f \in Pending(todo[p], "none")
  BY <1>1, OwesOf
<1>3. /\ ref' = [ref EXCEPT ![f] = @ - 1]
      /\ UNCHANGED <<ofile, pi, lock, left, killed, unwoken>>
  BY <1>2 DEF FileClose
<1>4. CASE ref[f] > 1
  <2>1. Closed(p, at) /\ UNCHANGED <<end, ff>>
    BY <1>2, <1>4 DEF FileClose
  <2> QED BY <1>1, <1>2, <1>3, <1>4, <2>1, FilesReleased
<1>5. CASE ~(ref[f] > 1)
  <2>1. /\ ff' = [ff EXCEPT ![p] = end[f]] /\ end' = [end EXCEPT ![f] = "none"]
        /\ UNCHANGED <<at, todo>>
    BY <1>2, <1>5 DEF FileClose
  <2> QED BY <1>1, <1>2, <1>3, <1>5, <2>1, FilesLast
<1> QED BY <1>4, <1>5

\* The end e of the pipe is closed, and st is where the others are.
LEMMA FilesEnd ==
  ASSUME FilesInv, NEW p \in Client, NEW e \in {"read", "write"}, ff[p] = e,
         NEW st \in [Client -> Place], st[p] = at[p], \A q \in Client : Eases(at[q], st[q]),
         Closed(p, st), ff' = [ff EXCEPT ![p] = "none"],
         e = "write" => writeopen' = FALSE /\ readopen' = readopen /\ alive' = readopen,
         e = "read" => readopen' = FALSE /\ writeopen' = writeopen /\ alive' = writeopen,
         unwoken' \in BOOLEAN,
         UNCHANGED <<table, data, nread, nwrite, lock, left, killed>>
  PROVE  FilesInv'
<1>1. /\ PipeTypeOK /\ ref \in [Files -> Int] /\ ff \in [Client -> End] /\ e # "none"
      /\ Fits(at[p], todo[p], ff[p], ofile[p], end)
  BY DEF FilesInv, PipeTypeOK, FitsAll
<1>2. at[p] \in {"close", "exit"} /\ todo[p] # <<>>
  <2>1. \A f, g : <<f, g>> # <<>> /\ <<f>> # <<>>
    OBVIOUS
  <2> QED BY <1>1, <2>1 DEF Fits
<1>3. PICK f \in Files : Owes(p, f)
  BY <1>2, OwesOf
<1>4. /\ todo' \in [Client -> Seq(Files)] /\ at' \in [Client -> Place]
      /\ \A q \in Client \ {p} : todo'[q] = todo[q] /\ at'[q] = st[q]
      /\ at'[p] # "dup" /\ \A o, x : Fits(at'[p], todo'[p], "none", o, x)
      /\ Pending(todo'[p], "none") = Pending(todo[p], e)
  BY <1>1, <1>2, <1>3, AfterClosed
<1>5. ff'[p] = "none" /\ \A q \in Client \ {p} : ff'[q] = ff[q]
  BY <1>1
<1>6. Fits(at'[p], todo'[p], ff'[p], ofile'[p], end')
  BY <1>4, <1>5
<1>7. PipeTypeOK'
  <2>1. ff' \in [Client -> End]
    BY <1>1 DEF End
  <2>2. readopen \in BOOLEAN /\ writeopen \in BOOLEAN
    BY <1>1 DEF PipeTypeOK
  <2>3. readopen' \in BOOLEAN /\ writeopen' \in BOOLEAN /\ alive' \in BOOLEAN
    <3>1. CASE e = "read"
      BY <2>2, <3>1
    <3>2. CASE e = "write"
      BY <2>2, <3>2
    <3> QED BY <3>1, <3>2
  <2> QED BY <1>1, <1>4, <2>1, <2>3 DEF PipeTypeOK, table
<1>8. ASSUME NEW g \in Files
      PROVE  /\ ref'[g] = ref[g] + (Mine(todo'[p], ff'[p], ofile'[p], at'[p], g)
                                    - Mine(todo[p], ff[p], ofile[p], at[p], g))
             /\ ref'[g] = 0 <=> end'[g] = "none"
  <2> DEFINE n == Cardinality(Among(ofile[p], g))
             c == One(g \in Pending(todo[p], e))
  <2>1. n \in Nat
    BY MineIs
  <2>0. c \in Int
    BY DEF One
  <2>2. Mine(todo[p], ff[p], ofile[p], at[p], g) = n + c
    BY <1>2, MineIs
  <2>3. Mine(todo'[p], ff'[p], ofile'[p], at'[p], g) = n + c
    <3>1. ofile'[p] = ofile[p]
      BY DEF table
    <3>2. Mine(todo'[p], ff'[p], ofile'[p], at'[p], g)
            = Cardinality(Among(ofile'[p], g)) + One(g \in Pending(todo'[p], ff'[p]))
      BY <1>4, MineIs
    <3> QED BY <1>4, <1>5, <3>1, <3>2
  <2>4. ref'[g] = ref[g] /\ ref[g] \in Int
    BY <1>1 DEF table
  <2>5. ref'[g] = 0 <=> end'[g] = "none"
    BY DEF FilesInv, CountsRight, table
  <2> HIDE DEF n, c
  <2>6. ref'[g] = ref[g] + (Mine(todo'[p], ff'[p], ofile'[p], at'[p], g)
                            - Mine(todo[p], ff[p], ofile[p], at[p], g))
    BY <2>0, <2>1, <2>2, <2>3, <2>4
  <2> QED BY <2>5, <2>6
<1>9. end' = end
  BY DEF table
<1>10. OneEnd'
  BY <1>5, <1>9 DEF FilesInv, OneEnd
<1>11. ~IsOpen(e)' /\ IsOpen(e)
  <2>1. \A f1 \in Files : end[f1] # e
    BY DEF FilesInv, OneEnd
  <2>2. \A q \in Client \ {p} : ff[q] # e
    BY DEF FilesInv, OneEnd
  <2> QED BY <1>1, <1>5, <1>9, <2>1, <2>2 DEF IsOpen
<1>12. ASSUME NEW d \in {"read", "write"}, d # e PROVE IsOpen(d)' <=> IsOpen(d)
  BY <1>5, <1>9, <1>12 DEF IsOpen
<1>13. readopen = IsOpen("read") /\ writeopen = IsOpen("write")
  BY DEF FilesInv, EndsOpen
<1>14. EndsOpen'
  <2>1. CASE e = "write"
    <3>1. ~IsOpen("write")' /\ (IsOpen("read")' <=> IsOpen("read"))
      BY <1>11, <1>12, <2>1
    <3> HIDE DEF IsOpen
    <3>2. readopen' = IsOpen("read")' /\ writeopen' = IsOpen("write")' /\ alive' = (readopen' \/ writeopen')
      BY <1>1, <1>7, <1>13, <2>1, <3>1 DEF PipeTypeOK, IsOpen
    <3> QED BY <3>2 DEF EndsOpen
  <2>2. CASE e = "read"
    <3>1. ~IsOpen("read")' /\ (IsOpen("write")' <=> IsOpen("write"))
      BY <1>11, <1>12, <2>2
    <3>2. readopen' = IsOpen("read")' /\ writeopen' = IsOpen("write")' /\ alive' = (readopen' \/ writeopen')
      BY <1>1, <1>7, <1>13, <2>2, <3>1 DEF PipeTypeOK, IsOpen
    <3> QED BY <3>2 DEF EndsOpen
  <2> QED BY <2>1, <2>2
<1>15. \A q \in Client \ {p} : /\ ofile'[q] = ofile[q] /\ todo'[q] = todo[q] /\ ff'[q] = ff[q]
                               /\ Eases(at[q], at'[q])
  <2>1. ofile' = ofile
    BY DEF table
  <2> QED BY <1>4, <1>5, <2>1
<1> QED BY <1>6, <1>7, <1>8, <1>9, <1>10, <1>14, <1>15, OneMoves

LEMMA FilesPipeClose == ASSUME FilesInv, NEW p \in Client, PipeClose(p) PROVE FilesInv'
<1>1. /\ ff' = [ff EXCEPT ![p] = "none"]
      /\ UNCHANGED <<table, data, nread, nwrite, lock, left, killed>>
  BY DEF PipeClose
<1>2. /\ WakeReaders \in [Client -> Place] /\ \A q \in Client : Eases(at[q], WakeReaders[q])
      /\ WakeWriters \in [Client -> Place] /\ \A q \in Client : Eases(at[q], WakeWriters[q])
  BY Asleep DEF FilesInv
<1>3. ASSUME ff[p] \in {"read", "write"} PROVE WakeReaders[p] = at[p] /\ WakeWriters[p] = at[p]
  <2>1. at[p] \notin {"rsleep", "wsleep"}
    BY <1>3 DEF FilesInv, FitsAll, Fits
  <2> QED BY <2>1 DEF WakeReaders, WakeWriters, Woken
<1>4. CASE /\ ff[p] = "write" /\ writeopen' = FALSE /\ alive' = readopen
           /\ Closed(p, WakeReaders) /\ unwoken' = FALSE /\ UNCHANGED readopen
  BY <1>1, <1>2, <1>3, <1>4, FilesEnd
<1>5. CASE /\ ff[p] = "read" /\ readopen' = FALSE /\ alive' = writeopen
           /\ Closed(p, WakeWriters) /\ UNCHANGED <<writeopen, unwoken>>
  <2>1. unwoken' \in BOOLEAN
    BY <1>5 DEF FilesInv, PipeTypeOK
  <2> QED BY <1>1, <1>2, <1>3, <1>5, <2>1, FilesEnd
<1> QED BY <1>4, <1>5 DEF PipeClose

LEMMA FilesForkFiles ==
  ASSUME FilesInv, NEW p \in Client, NEW c \in Client, ForkFiles(p, c)
  PROVE  FilesInv'
<1>1. /\ at[p] = "user" /\ at[c] = "dead" /\ at' = [at EXCEPT ![c] = "user"]
      /\ ofile' = [ofile EXCEPT ![c] = ofile[p]]
      /\ ref' = [f \in Files |-> ref[f] + Cardinality(Among(ofile[p], f))]
      /\ UNCHANGED <<end, pi, lock, left, todo, ff, killed, unwoken>>
  BY DEF ForkFiles, Calls, Among
<1>2. /\ PipeTypeOK /\ ref \in [Files -> Int] /\ todo[c] = <<>> /\ ff[c] = "none"
      /\ \A fd \in Fds : ofile[c][fd] = 0
  BY <1>1 DEF FilesInv, PipeTypeOK, FitsAll, Fits
<1>3. /\ ofile'[c] = ofile[p] /\ todo'[c] = <<>> /\ ff'[c] = "none" /\ at'[c] = "user"
      /\ \A q \in Client \ {c} : ofile'[q] = ofile[q] /\ todo'[q] = todo[q] /\ ff'[q] = ff[q]
      /\ ofile' \in [Client -> [Fds -> Files \cup {0}]]
  BY <1>1, <1>2 DEF PipeTypeOK
<1>4. Fits(at'[c], todo'[c], ff'[c], ofile'[c], end')
  BY <1>3 DEF Fits
<1>5. \A f \in Files : Cardinality(Among(ofile[p], f)) \in Nat
  BY MineIs
<1>6. PipeTypeOK'
  <2>1. ref' \in [Files -> Int]
    <3>1. ASSUME NEW f \in Files PROVE ref[f] + Cardinality(Among(ofile[p], f)) \in Int
      BY <1>2, <1>5
    <3> QED BY <1>1, <3>1
  <2> QED BY <1>1, <1>2, <1>3, <2>1 DEF PipeTypeOK, pi, Place
<1>7. ASSUME NEW f \in Files
      PROVE  /\ ref'[f] = ref[f] + (Mine(todo'[c], ff'[c], ofile'[c], at'[c], f)
                                    - Mine(todo[c], ff[c], ofile[c], at[c], f))
             /\ ref'[f] = 0 <=> end'[f] = "none"
  <2> DEFINE n == Cardinality(Among(ofile[p], f))
  <2>1. n \in Nat /\ ref[f] \in Nat /\ ref'[f] = ref[f] + n
    BY <1>1, <1>5, InUseFile
  <2>2. Mine(todo[c], ff[c], ofile[c], at[c], f) = 0
    <3>1. Among(ofile[c], f) = {} /\ Cardinality(Among(ofile[c], f)) = 0
      <4>1. Among(ofile[c], f) = {}
        BY <1>2, PipeNumbers DEF Among
      <4> QED BY <4>1, FS_EmptySet
    <3>2. Mine(todo[c], ff[c], ofile[c], at[c], f) = Cardinality(Among(ofile[c], f)) + One(f \in {})
      BY <1>1, <1>2, MineIs, PendingOf
    <3> QED BY <3>1, <3>2 DEF One
  <2>3. Mine(todo'[c], ff'[c], ofile'[c], at'[c], f) = n
    <3>1. Mine(todo'[c], ff'[c], ofile'[c], at'[c], f) = n + One(f \in {})
      BY <1>3, MineIs, PendingOf
    <3> QED BY <2>1, <3>1 DEF One
  <2>4. ref[f] = 0 => n = 0
    <3>1. ASSUME ref[f] = 0 PROVE Among(ofile[p], f) = {}
      BY <3>1, InUseFile DEF Among
    <3> QED BY <3>1, FS_EmptySet
  <2>5. (ref[f] = 0 <=> end[f] = "none") /\ end' = end
    BY <1>1 DEF FilesInv, CountsRight
  <2> HIDE DEF n
  <2>6. ref'[f] = ref[f] + (Mine(todo'[c], ff'[c], ofile'[c], at'[c], f)
                            - Mine(todo[c], ff[c], ofile[c], at[c], f))
    BY <2>1, <2>2, <2>3
  <2>7. ref'[f] = 0 <=> end'[f] = "none"
    BY <2>1, <2>4, <2>5
  <2> QED BY <2>6, <2>7
<1>8. OneEnd' /\ EndsOpen'
  BY <1>1, EndsStay DEF pi
<1>9. \A q \in Client \ {c} : /\ ofile'[q] = ofile[q] /\ todo'[q] = todo[q] /\ ff'[q] = ff[q]
                              /\ Eases(at[q], at'[q])
  BY <1>1, <1>2, <1>3, Stays
<1> QED BY <1>1, <1>4, <1>6, <1>7, <1>8, <1>9, OneMoves

\* The two least of at least two.
LEMMA LeastTwo ==
  ASSUME NEW S, S \subseteq Nat, IsFiniteSet(S), Cardinality(S) >= 2
  PROVE  /\ Least(S) \in S /\ Least(S \ {Least(S)}) \in S
         /\ Least(S) # Least(S \ {Least(S)})
<1>1. S # {}
  <2>1. Cardinality({}) = 0
    BY FS_EmptySet
  <2> QED BY <2>1
<1>2. Least(S) \in S
  BY <1>1, LeastIs
<1>3. S \ {Least(S)} # {}
  <2>1. ASSUME S \ {Least(S)} = {} PROVE FALSE
    <3>1. S = {Least(S)}
      BY <1>2, <2>1
    <3>2. Cardinality({Least(S)}) = 1
      BY FS_Singleton
    <3>3. Cardinality(S) = 1
      BY <3>1, <3>2
    <3> QED BY <3>3
  <2> QED BY <2>1
<1>4. Least(S \ {Least(S)}) \in S \ {Least(S)}
  <2>1. S \ {Least(S)} \subseteq Nat
    OBVIOUS
  <2> QED BY <1>3, <2>1, LeastIs
<1> QED BY <1>2, <1>4

\* sys_pipe() with the files r and w: they were of nobody, and p names them or is to close them.
LEMMA FilesOpened ==
  ASSUME FilesInv, NEW p \in Client, NEW r \in Files, NEW w \in Files, r # w,
         at[p] = "user", ref[r] = 0, ref[w] = 0, ~alive, PipeTypeOK',
         ref' = [ref EXCEPT ![r] = 1, ![w] = 1], end' = [end EXCEPT ![r] = "read", ![w] = "write"],
         alive' = TRUE, readopen' = TRUE, writeopen' = TRUE, ff' = ff,
         \A q \in Client \ {p} : ofile'[q] = ofile[q] /\ todo'[q] = todo[q] /\ at'[q] = at[q],
         Fits(at'[p], todo'[p], "none", ofile'[p], end'), at'[p] # "dup",
         \A g \in Files : Cardinality(Among(ofile'[p], g)) + One(g \in Pending(todo'[p], "none"))
                            = Cardinality(Among(ofile[p], g)) + (Same(g, r) + Same(g, w))
  PROVE  FilesInv'
<1>1. /\ PipeTypeOK /\ ref \in [Files -> Int] /\ end \in [Files -> End] /\ ff \in [Client -> End]
      /\ todo[p] = <<>> /\ ff[p] = "none"
  BY DEF FilesInv, PipeTypeOK, FitsAll, Fits
<1>2. (\A f \in Files : end[f] = "none") /\ (\A q \in Client : ff[q] = "none")
  <2>1. ~readopen /\ ~writeopen
    BY DEF FilesInv, EndsOpen
  <2>2. ~IsOpen("read") /\ ~IsOpen("write")
    BY <2>1 DEF FilesInv, EndsOpen
  <2> QED BY <1>1, <2>2 DEF IsOpen, End
<1>3. \A q \in Client, fd \in Fds : ofile[q][fd] \notin Files
  BY <1>2, InUseFile
<1>4. /\ end'[r] = "read" /\ end'[w] = "write" /\ \A g \in Files \ {r, w} : end'[g] = "none"
      /\ \A q \in Client : ff'[q] = "none"
  BY <1>1, <1>2
<1>5. Fits(at'[p], todo'[p], ff'[p], ofile'[p], end')
  BY <1>1
<1>6. ASSUME NEW g \in Files
      PROVE  /\ ref'[g] = ref[g] + (Mine(todo'[p], ff'[p], ofile'[p], at'[p], g)
                                    - Mine(todo[p], ff[p], ofile[p], at[p], g))
             /\ ref'[g] = 0 <=> end'[g] = "none"
  <2> DEFINE n == Cardinality(Among(ofile[p], g))
             m == Cardinality(Among(ofile'[p], g))
             d == One(g \in Pending(todo'[p], "none"))
             k == Same(g, r) + Same(g, w)
  <2>1. m \in Nat /\ n \in Nat
    BY MineIs
  <2>2. Mine(todo[p], ff[p], ofile[p], at[p], g) = n + One(g \in {})
    BY <1>1, MineIs, PendingOf
  <2>3. Mine(todo'[p], ff'[p], ofile'[p], at'[p], g) = m + d
    BY <1>1, MineIs
  <2>4. One(g \in {}) = 0 /\ d \in Int /\ k \in Int
    BY DEF One, Same
  <2>5. ref'[g] = ref[g] + k /\ ref[g] \in Int
    BY <1>1 DEF Same
  <2>6. m + d = n + k
    OBVIOUS
  <2>7. ref'[g] = 0 <=> end'[g] = "none"
    BY <1>1, <1>4 DEF FilesInv, CountsRight
  <2> HIDE DEF n, m, d, k
  <2>8. ref'[g] = ref[g] + (Mine(todo'[p], ff'[p], ofile'[p], at'[p], g)
                            - Mine(todo[p], ff[p], ofile[p], at[p], g))
    BY <2>1, <2>2, <2>3, <2>4, <2>5, <2>6
  <2> QED BY <2>7, <2>8
<1>7. OneEnd'
  BY <1>4 DEF OneEnd
<1>8. EndsOpen'
  <2>1. IsOpen("read")' /\ IsOpen("write")'
    BY <1>4 DEF IsOpen
  <2> QED BY <2>1 DEF EndsOpen, IsOpen
<1>9. \A q \in Client \ {p} : /\ ofile'[q] = ofile[q] /\ todo'[q] = todo[q] /\ ff'[q] = ff[q]
                              /\ Eases(at[q], at'[q])
  BY DEF Eases
<1> QED BY <1>3, <1>5, <1>6, <1>7, <1>8, <1>9, OneMoves

LEMMA TwoFilled ==
  ASSUME NEW o, NEW u, NEW i \in Fds, NEW j \in Fds, i # j, NEW x, NEW y, NEW g, g # 0,
         o[i] = 0, o[j] = 0, u[i] = x, u[j] = y, \A k \in Fds : k \notin {i, j} => u[k] = o[k]
  PROVE  Cardinality(Among(u, g)) = Cardinality(Among(o, g)) + (Same(g, x) + Same(g, y))
<1> DEFINE v == [k \in Fds |-> IF k = i THEN x ELSE o[k]]
<1>1. /\ v[i] = x /\ v[j] = 0 /\ \A k \in Fds \ {i} : v[k] = o[k]
      /\ u[j] = y /\ \A k \in Fds \ {j} : u[k] = v[k]
  OBVIOUS
<1> HIDE DEF v
<1>9. i \in Fds /\ j \in Fds
  OBVIOUS
<1>2. Among(v, g) \ {i} = Among(o, g) \ {i}
  BY <1>1 DEF Among
<1>0. Among(u, g) \ {j} = Among(v, g) \ {j}
  BY <1>1 DEF Among
<1>3. /\ Cardinality(Among(v, g)) = Cardinality(Among(o, g)) + (Same(g, v[i]) - Same(g, o[i]))
      /\ Cardinality(Among(o, g)) \in Nat
  BY ONLY <1>2, <1>9, AmongOne
<1>4. /\ Cardinality(Among(u, g)) = Cardinality(Among(v, g)) + (Same(g, u[j]) - Same(g, v[j]))
      /\ Cardinality(Among(v, g)) \in Nat
  BY <1>0, <1>9, AmongOne
<1>5. Same(g, v[i]) = Same(g, x) /\ Same(g, u[j]) = Same(g, y) /\ Same(g, o[i]) = 0 /\ Same(g, v[j]) = 0
  BY <1>1 DEF Same
<1>6. Same(g, x) \in Int /\ Same(g, y) \in Int
  BY DEF Same
<1> DEFINE a == Cardinality(Among(o, g))
           b == Cardinality(Among(v, g))
           c == Cardinality(Among(u, g))
<1>7. b = a + (Same(g, x) - 0) /\ c = b + (Same(g, y) - 0) /\ a \in Nat /\ b \in Nat
  BY <1>3, <1>4, <1>5
<1> HIDE DEF a, b, c
<1>8. c = a + (Same(g, x) + Same(g, y))
  BY <1>6, <1>7
<1> QED BY <1>8 DEF a, c

LEMMA ZeroFits == 0 \in 0 .. Wrap - 1
<1>1. Wrap \in Nat /\ PIPESIZE \in Nat /\ Wrap > PIPESIZE
  BY PipeNumbers
<1> QED BY <1>1

LEMMA FilesSysPipe == ASSUME FilesInv, NEW p \in Client, SysPipe(p) PROVE FilesInv'
<1> DEFINE unused == {f \in Files : ref[f] = 0}
           r == Least(unused)
           w == Least(unused \ {r})
           room == Fds \ Occupied(p)
           fd0 == Least(room)
           fd1 == Least(room \ {fd0})
<1>1. /\ at[p] = "user" /\ Cardinality(unused) >= 2 /\ ~alive
      /\ ref' = [ref EXCEPT ![r] = 1, ![w] = 1] /\ end' = [end EXCEPT ![r] = "read", ![w] = "write"]
      /\ alive' = TRUE /\ readopen' = TRUE /\ writeopen' = TRUE /\ nread' = 0 /\ nwrite' = 0
      /\ UNCHANGED <<data, lock, left, ff, killed, unwoken>>
  BY DEF SysPipe, Calls
<1>2. \/ /\ Cardinality(room) >= 2
         /\ ofile' = [ofile EXCEPT ![p][fd0] = r, ![p][fd1] = w]
         /\ UNCHANGED <<at, todo>>
      \/ /\ at' = [at EXCEPT ![p] = "close"] /\ todo' = [todo EXCEPT ![p] = <<r, w>>]
         /\ UNCHANGED ofile
  BY DEF SysPipe
<1>3. r \in unused /\ w \in unused /\ r # w
  <2>1. IsFiniteSet(1 .. NFILE)
    BY PipeNumbers, FS_Interval
  <2>2. unused \subseteq Nat /\ IsFiniteSet(unused)
    BY <2>1, PipeNumbers, FS_Subset DEF Files
  <2> HIDE DEF unused
  <2> QED BY <1>1, <2>2, LeastTwo
<1>4. r \in Files /\ w \in Files /\ r # w /\ ref[r] = 0 /\ ref[w] = 0
  BY <1>3
<1>5. CASE /\ Cardinality(room) >= 2
           /\ ofile' = [ofile EXCEPT ![p][fd0] = r, ![p][fd1] = w]
           /\ UNCHANGED <<at, todo>>
  <2>1. fd0 \in room /\ fd1 \in room /\ fd0 # fd1
    <3>1. room \subseteq Nat /\ IsFiniteSet(room)
      BY PipeNumbers, FS_Subset
    <3> HIDE DEF room
    <3> QED BY <1>5, <3>1, LeastTwo
  <2>2. fd0 \in Fds /\ fd1 \in Fds /\ fd0 # fd1 /\ ofile[p][fd0] = 0 /\ ofile[p][fd1] = 0
    BY <2>1 DEF Occupied
  <2> HIDE DEF r, w, unused, fd0, fd1, room
  <2>3. PICK x \in Files, y \in Files, i \in Fds, j \in Fds :
          x = r /\ y = w /\ i = fd0 /\ j = fd1
    BY <1>4, <2>2
  <2>4. /\ x # y /\ ref[x] = 0 /\ ref[y] = 0 /\ i # j /\ ofile[p][i] = 0 /\ ofile[p][j] = 0
        /\ ref' = [ref EXCEPT ![x] = 1, ![y] = 1] /\ end' = [end EXCEPT ![x] = "read", ![y] = "write"]
        /\ ofile' = [ofile EXCEPT ![p][i] = x, ![p][j] = y]
    BY <1>1, <1>4, <1>5, <2>2, <2>3
  <2>5. /\ PipeTypeOK /\ ofile \in [Client -> [Fds -> Files \cup {0}]] /\ ref \in [Files -> Int]
        /\ todo[p] = <<>> /\ ff[p] = "none" /\ 0 \in 0 .. Wrap - 1 /\ end \in [Files -> End]
    BY <1>1, ZeroFits DEF FilesInv, PipeTypeOK, FitsAll, Fits
  <2>6. /\ ofile'[p] = [ofile[p] EXCEPT ![i] = x, ![j] = y] /\ \A q \in Client \ {p} : ofile'[q] = ofile[q]
        /\ ofile' \in [Client -> [Fds -> Files \cup {0}]]
    BY <2>3, <2>4, <2>5
  <2>7. PipeTypeOK'
    <3>1. ref' \in [Files -> Int] /\ end' \in [Files -> End]
      BY <2>3, <2>4, <2>5 DEF End
    <3> QED BY <1>1, <1>5, <2>5, <2>6, <3>1 DEF PipeTypeOK
  <2>8. Fits(at'[p], todo'[p], "none", ofile'[p], end') /\ at'[p] # "dup"
    BY <1>1, <1>5, <2>5 DEF Fits
  <2>9. ASSUME NEW g \in Files
        PROVE  Cardinality(Among(ofile'[p], g)) + One(g \in Pending(todo'[p], "none"))
                 = Cardinality(Among(ofile[p], g)) + (Same(g, x) + Same(g, y))
    <3>1. ofile[p] \in [Fds -> Files \cup {0}] /\ ofile'[p] \in [Fds -> Files \cup {0}] /\ g # 0
      BY <2>5, <2>6, PipeNumbers
    <3>2. Cardinality(Among(ofile'[p], g)) = Cardinality(Among(ofile[p], g)) + (Same(g, x) + Same(g, y))
      <4>1. /\ i \in Fds /\ j \in Fds /\ i # j /\ ofile[p][i] = 0 /\ ofile[p][j] = 0
            /\ ofile'[p][i] = x /\ ofile'[p][j] = y
            /\ \A k \in Fds : k \notin {i, j} => ofile'[p][k] = ofile[p][k]
        BY <2>3, <2>4, <2>5, <2>6, <3>1
      <4> QED BY <3>1, <4>1, TwoFilled
    <3>3. One(g \in Pending(todo'[p], "none")) = 0
      <4>1. Pending(todo'[p], "none") = {}
        BY <1>5, <2>5, PendingOf
      <4> QED BY <4>1 DEF One
    <3>4. Cardinality(Among(ofile'[p], g)) \in Nat
      BY MineIs
    <3> QED BY <3>2, <3>3, <3>4
  <2>10. \A q \in Client \ {p} : ofile'[q] = ofile[q] /\ todo'[q] = todo[q] /\ at'[q] = at[q]
    BY <1>5, <2>6
  <2>11. /\ at[p] = "user" /\ ~alive /\ alive' = TRUE /\ readopen' = TRUE /\ writeopen' = TRUE /\ ff' = ff
         /\ x \in Files /\ y \in Files
    BY <1>1, <2>3
  <2> QED BY <2>4, <2>7, <2>8, <2>9, <2>10, <2>11, FilesOpened, Zenon
<1>6. CASE /\ at' = [at EXCEPT ![p] = "close"] /\ todo' = [todo EXCEPT ![p] = <<r, w>>]
           /\ UNCHANGED ofile
  <2> HIDE DEF r, w, unused
  <2>1. PICK x \in Files, y \in Files : x = r /\ y = w
    BY <1>4
  <2>2. /\ x # y /\ ref[x] = 0 /\ ref[y] = 0
        /\ ref' = [ref EXCEPT ![x] = 1, ![y] = 1] /\ end' = [end EXCEPT ![x] = "read", ![y] = "write"]
        /\ todo' = [todo EXCEPT ![p] = <<x, y>>]
    BY <1>1, <1>4, <1>6, <2>1
  <2>3. /\ PipeTypeOK /\ ref \in [Files -> Int] /\ end \in [Files -> End]
        /\ todo[p] = <<>> /\ ff[p] = "none" /\ 0 \in 0 .. Wrap - 1
        /\ todo \in [Client -> Seq(Files)] /\ at \in [Client -> Place]
    BY <1>1, ZeroFits DEF FilesInv, PipeTypeOK, FitsAll, Fits
  <2>4. /\ todo'[p] = <<x, y>> /\ at'[p] = "close"
        /\ \A q \in Client \ {p} : ofile'[q] = ofile[q] /\ todo'[q] = todo[q] /\ at'[q] = at[q]
    BY <1>6, <2>2, <2>3
  <2>5. PipeTypeOK'
    <3>1. ref' \in [Files -> Int] /\ end' \in [Files -> End]
      BY <2>1, <2>2, <2>3 DEF End
    <3>2. todo' \in [Client -> Seq(Files)]
      <4>1. <<x, y>> \in Seq(Files)
        BY <2>1
      <4> QED BY <2>2, <2>3, <4>1
    <3>3. at' \in [Client -> Place]
      BY <1>6, <2>3 DEF Place
    <3> QED BY <1>1, <1>6, <2>3, <3>1, <3>2, <3>3 DEF PipeTypeOK
  <2>6. Fits(at'[p], todo'[p], "none", ofile'[p], end') /\ at'[p] # "dup"
    BY <2>1, <2>2, <2>4 DEF Fits
  <2>7. ASSUME NEW g \in Files
        PROVE  Cardinality(Among(ofile'[p], g)) + One(g \in Pending(todo'[p], "none"))
                 = Cardinality(Among(ofile[p], g)) + (Same(g, x) + Same(g, y))
    <3>1. Pending(todo'[p], "none") = {x, y}
      BY <2>1, <2>4, PendingOf
    <3>2. One(g \in {x, y}) = Same(g, x) + Same(g, y)
      BY <2>2 DEF One, Same
    <3> QED BY <1>6, <3>1, <3>2
  <2>8. /\ at[p] = "user" /\ ~alive /\ alive' = TRUE /\ readopen' = TRUE /\ writeopen' = TRUE /\ ff' = ff
        /\ x \in Files /\ y \in Files
    BY <1>1, <2>1
  <2> QED BY <2>2, <2>4, <2>5, <2>6, <2>7, <2>8, FilesOpened, Zenon
<1> QED BY <1>2, <1>5, <1>6

-----------------------------------------------------------------------------

LEMMA FilesInit == PipeInit => FilesInv
<1> SUFFICES ASSUME PipeInit PROVE FilesInv
  OBVIOUS
<1>1. PICK r \in Client : at = [q \in Client |-> IF q = r THEN "user" ELSE "dead"]
  BY DEF PipeInit, PipeIdle
<1>2. PipeTypeOK
  <2>1. <<>> \in Seq(Files) /\ 0 \in 0 .. Wrap - 1
    BY ZeroFits
  <2>2. at \in [Client -> Place]
    BY <1>1 DEF Place
  <2>3. /\ ofile \in [Client -> [Fds -> Files \cup {0}]]
        /\ ref \in [Files -> Int] /\ end \in [Files -> End] /\ ff \in [Client -> End]
    BY DEF PipeInit, PipeIdle, End
  <2>4. todo \in [Client -> Seq(Files)] /\ left \in [Client -> Nat] /\ killed \in [Client -> BOOLEAN]
    BY <2>1 DEF PipeInit, PipeIdle
  <2>5. /\ data \in [0 .. PIPESIZE - 1 -> Byte \cup {Nil}] /\ lock \in Client \cup {Nil}
        /\ alive \in BOOLEAN /\ readopen \in BOOLEAN /\ writeopen \in BOOLEAN /\ unwoken \in BOOLEAN
        /\ nread \in 0 .. Wrap - 1 /\ nwrite \in 0 .. Wrap - 1
    BY <2>1 DEF PipeInit, PipeIdle
  <2> QED BY <2>2, <2>3, <2>4, <2>5 DEF PipeTypeOK
<1>3. FitsAll
  BY <1>1 DEF PipeInit, PipeIdle, FitsAll, Fits
<1>4. CountsRight
  <2>1. ASSUME NEW f \in Files PROVE Count(f) = 0
    <3>1. Naming(f) = {} /\ Closing(f) = {} /\ Counting(f) = {}
      <4>1. Naming(f) = {}
        BY PipeNumbers DEF PipeInit, PipeIdle, Naming
      <4>2. \A q \in Client : todo[q] = <<>>
        BY DEF PipeInit, PipeIdle
      <4>3. \A q \in Client : ~Pends(q, f)
        BY <4>2 DEF Pends
      <4> QED BY <4>1, <4>3 DEF Closing, Counting
    <3> QED BY <3>1, FS_EmptySet DEF Count
  <2> QED BY <2>1 DEF PipeInit, PipeIdle, CountsRight
<1>5. OneEnd /\ EndsOpen
  BY DEF PipeInit, PipeIdle, OneEnd, EndsOpen, IsOpen
<1> QED BY <1>2, <1>3, <1>4, <1>5 DEF FilesInv

LEMMA FilesNext == FilesInv /\ PipeNext => FilesInv'
<1> SUFFICES ASSUME FilesInv, PipeNext PROVE FilesInv'
  OBVIOUS
<1>1. PICK p \in Client :
    \/ SysPipe(p) \/ Filedup(p) \/ FileClose(p) \/ PipeClose(p)
    \/ \E f \in Files : Fdalloc(p, f)
    \/ \E fd \in Fds : Close(p, fd)
    \/ \E e \in {"read", "write"}, n \in 1 .. MaxN : Call(p, e, n)
    \/ ReadWait(p) \/ ReadCopy(p)
    \/ WriteRefused(p) \/ WriteFull(p) \/ WriteDone(p)
    \/ \E b \in Byte : WriteByte(p, b)
    \/ \E c \in Client : ForkFiles(p, c)
    \/ Kill(p) \/ ExitFiles(p) \/ Exited(p)
  BY DEF PipeNext
<1>2. CASE SysPipe(p) BY <1>2, FilesSysPipe
<1>3. CASE Filedup(p) BY <1>3, FilesFiledup
<1>4. CASE FileClose(p) BY <1>4, FilesFileClose
<1>5. CASE PipeClose(p) BY <1>5, FilesPipeClose
<1>6. CASE \E f \in Files : Fdalloc(p, f) BY <1>6, FilesFdalloc
<1>7. CASE \E fd \in Fds : Close(p, fd) BY <1>7, FilesClose
<1>8. CASE \E e \in {"read", "write"}, n \in 1 .. MaxN : Call(p, e, n) BY <1>8, FilesCall
<1>9. CASE ReadWait(p) BY <1>9, FilesReadWait
<1>10. CASE ReadCopy(p) BY <1>10, FilesReadCopy
<1>11. CASE WriteRefused(p) \/ WriteFull(p) \/ WriteDone(p) BY <1>11, FilesWrite
<1>12. CASE \E b \in Byte : WriteByte(p, b) BY <1>12, FilesWriteByte
<1>13. CASE \E c \in Client : ForkFiles(p, c) BY <1>13, FilesForkFiles
<1>14. CASE Kill(p) BY <1>14, FilesKill
<1>15. CASE ExitFiles(p) BY <1>15, FilesExitFiles
<1>16. CASE Exited(p) BY <1>16, FilesExited
<1> QED BY <1>1, <1>2, <1>3, <1>4, <1>5, <1>6, <1>7, <1>8, <1>9, <1>10, <1>11, <1>12, <1>13, <1>14,
           <1>15, <1>16

LEMMA FilesStutter == FilesInv /\ UNCHANGED pipeVars => FilesInv'
<1> SUFFICES ASSUME FilesInv, UNCHANGED pipeVars PROVE FilesInv'
  OBVIOUS
<1>1. PipeTypeOK' /\ FitsAll'
  BY DEF FilesInv, PipeTypeOK, FitsAll, pipeVars, table, pi
<1> QED BY <1>1, QuietFiles DEF pipeVars, pi

\* Whoever reads or writes has a descriptor of its end, so the end is open.
LEMMA FilesAre == FilesInv => FilesExact
<1> SUFFICES ASSUME FilesInv PROVE FilesExact
  OBVIOUS
<1>1. ASSUME NEW p \in Client, NEW e \in {"read", "write"}, HasEnd(ofile[p], end, e) PROVE IsOpen(e)
  BY <1>1 DEF HasEnd, IsOpen
<1>2. ASSUME NEW p \in Client
      PROVE  /\ at[p] \in {"read", "rsleep"} => readopen
             /\ at[p] \in {"write", "wsleep"} => writeopen
  BY <1>1 DEF FilesInv, FitsAll, Fits, EndsOpen
<1> QED BY <1>2 DEF FilesInv, CountsRight, EndsOpen, FilesExact

LEMMA FilesAlways == PipeSpec => []FilesInv
  BY FilesInit, FilesNext, FilesStutter, PTL DEF PipeSpec

\* A file's count is the number of descriptors that name it, and an end of a pipe
\* is open until the last of them is closed, whoever forks, dups, closes or dies.
THEOREM FilesCounted == PipeSpec => []FilesExact
  BY FilesAlways, FilesAre, PTL

-----------------------------------------------------------------------------
(* Sleeping and waking                                                     *)

\* Nothing that a sleeper waits for changes, and nobody falls asleep.
LEMMA SleepersStay ==
  ASSUME NoneOversleeps, UNCHANGED <<nread, nwrite, readopen, writeopen, lock, unwoken>>,
         \A q \in Client : /\ at'[q] = "rsleep" => at[q] = "rsleep"
                           /\ at'[q] = "wsleep" => at[q] = "wsleep"
  PROVE  NoneOversleeps'
  BY DEF NoneOversleeps, Empty, Full

LEMMA NoSleeper ==
  /\ \A q \in Client : WakeReaders[q] # "rsleep" /\ (WakeReaders[q] = "wsleep" => at[q] = "wsleep")
  /\ \A q \in Client : WakeWriters[q] # "wsleep" /\ (WakeWriters[q] = "rsleep" => at[q] = "rsleep")
  BY DEF WakeReaders, WakeWriters, Woken

\* p goes to b.
LEMMA GoesTo ==
  ASSUME PipeTypeOK, NEW p \in Client, NEW st \in [Client -> Place], NEW b, at' = [st EXCEPT ![p] = b]
  PROVE  at'[p] = b /\ \A q \in Client \ {p} : at'[q] = st[q]
  OBVIOUS

LEMMA SleepersNext ==
  ASSUME FilesInv, FilesExact, NoneOversleeps, NEW p \in Client,
         \/ SysPipe(p) \/ Filedup(p) \/ FileClose(p)
         \/ \E f \in Files : Fdalloc(p, f)
         \/ \E fd \in Fds : Close(p, fd)
         \/ \E e \in {"read", "write"}, n \in 1 .. MaxN : Call(p, e, n)
         \/ \E c \in Client : ForkFiles(p, c)
         \/ Kill(p) \/ ExitFiles(p) \/ Exited(p)
  PROVE  NoneOversleeps'
<1>1. PipeTypeOK /\ at \in [Client -> Place]
  BY DEF FilesInv, PipeTypeOK
<1>2. CASE SysPipe(p)
  <2>0. ~alive
    BY <1>2 DEF SysPipe
  <2>4. ~readopen /\ ~writeopen
    BY <2>0 DEF FilesInv, EndsOpen
  <2>1. \A q \in Client : at[q] \notin {"rsleep", "wsleep"}
    <3>1. \A q \in Client : /\ at[q] \in {"read", "rsleep"} => readopen
                            /\ at[q] \in {"write", "wsleep"} => writeopen
      BY Zenon DEF FilesExact
    <3> QED BY <2>4, <3>1
  <2>2. at' = at \/ at' = [at EXCEPT ![p] = "close"]
    BY <1>2 DEF SysPipe
  <2>3. \A q \in Client : at'[q] \notin {"rsleep", "wsleep"}
    BY <1>1, <2>1, <2>2
  <2> QED BY <2>3 DEF NoneOversleeps
<1>3. ASSUME UNCHANGED <<pi, lock, unwoken>>, NEW c \in Client,
             NEW b, b \notin {"rsleep", "wsleep"}, at' = [at EXCEPT ![c] = b]
      PROVE  NoneOversleeps'
  BY <1>1, <1>3, SleepersStay DEF pi
<1>4. CASE Filedup(p)
  BY <1>3, <1>4 DEF Filedup
<1>5. CASE FileClose(p)
  <2>1. UNCHANGED <<pi, lock, unwoken>>
    BY <1>5 DEF FileClose
  <2>2. at' = at \/ \E b \in {"user", at[p]} : at' = [at EXCEPT ![p] = b]
    BY <1>5 DEF FileClose, Closed
  <2>3. at[p] \notin {"rsleep", "wsleep"}
    BY <1>5 DEF FileClose
  <2>4. CASE at' = at
    BY <2>1, <2>4, SleepersStay DEF pi
  <2> QED BY <1>3, <2>1, <2>2, <2>3, <2>4
<1>6. CASE \E f \in Files : Fdalloc(p, f)
  BY <1>3, <1>6 DEF Fdalloc
<1>7. CASE \E fd \in Fds : Close(p, fd)
  <2>1. UNCHANGED <<pi, lock, unwoken>> /\ (at' = at \/ at' = [at EXCEPT ![p] = "close"])
    BY <1>7 DEF Close
  <2>2. CASE at' = at
    BY <2>1, <2>2, SleepersStay DEF pi
  <2> QED BY <1>3, <2>1, <2>2
<1>8. CASE \E e \in {"read", "write"}, n \in 1 .. MaxN : Call(p, e, n)
  <2>1. UNCHANGED <<pi, lock, unwoken>> /\ (at' = [at EXCEPT ![p] = "read"] \/ at' = [at EXCEPT ![p] = "write"])
    BY <1>8 DEF Call
  <2> QED BY <1>3, <2>1
<1>9. CASE \E c \in Client : ForkFiles(p, c)
  BY <1>3, <1>9 DEF ForkFiles
<1>10. CASE Kill(p)
  <2> DEFINE b == CASE at[p] = "rsleep" -> "read" [] at[p] = "wsleep" -> "write" [] OTHER -> at[p]
  <2>1. at' = [at EXCEPT ![p] = b] /\ UNCHANGED <<pi, lock, unwoken>>
    BY <1>10 DEF Kill
  <2>2. b \notin {"rsleep", "wsleep"}
    OBVIOUS
  <2> HIDE DEF b
  <2> QED BY <1>3, <2>1, <2>2
<1>11. CASE ExitFiles(p)
  BY <1>3, <1>11 DEF ExitFiles
<1>12. CASE Exited(p)
  BY <1>3, <1>12 DEF Exited
<1> QED BY <1>2, <1>4, <1>5, <1>6, <1>7, <1>8, <1>9, <1>10, <1>11, <1>12

LEMMA SleepersPipe ==
  ASSUME FilesInv, FilesExact, NoneOversleeps, NEW p \in Client,
         \/ PipeClose(p) \/ ReadWait(p) \/ ReadCopy(p)
         \/ WriteRefused(p) \/ WriteFull(p) \/ WriteDone(p)
         \/ \E b \in Byte : WriteByte(p, b)
  PROVE  NoneOversleeps'
<1>1. /\ PipeTypeOK /\ at \in [Client -> Place]
      /\ WakeReaders \in [Client -> Place] /\ WakeWriters \in [Client -> Place] /\ p # Nil
  BY Asleep, PipeNumbers DEF FilesInv, PipeTypeOK
<1> DEFINE Sleeps(q, st) == /\ at'[q] = "rsleep" => st[q] = "rsleep"
                            /\ at'[q] = "wsleep" => st[q] = "wsleep"
<1>2. ASSUME NEW st \in [Client -> Place], NEW b, b \notin {"rsleep", "wsleep"}, at' = [st EXCEPT ![p] = b]
      PROVE  \A q \in Client : Sleeps(q, st)
  BY <1>1, <1>2, GoesTo
<1>3. CASE PipeClose(p)
  <2>1. at[p] \notin {"rsleep", "wsleep"} /\ lock = Nil /\ lock' = lock /\ UNCHANGED <<nread, nwrite>>
    <3>1. ff[p] # "none" /\ lock = Nil /\ UNCHANGED <<nread, nwrite, lock>>
      BY <1>3 DEF PipeClose
    <3> QED BY <3>1 DEF FilesInv, FitsAll, Fits
  <2>2. CASE /\ Closed(p, WakeReaders) /\ UNCHANGED readopen
    <3>1. \E b \in {"user", WakeReaders[p]} : at' = [WakeReaders EXCEPT ![p] = b]
      BY <2>2 DEF Closed
    <3>2. WakeReaders[p] = at[p]
      BY <2>1 DEF WakeReaders, Woken
    <3>3. \A q \in Client : Sleeps(q, WakeReaders)
      BY <1>1, <1>2, <2>1, <3>1, <3>2
    <3>4. \A q \in Client : at'[q] # "rsleep" /\ (at'[q] = "wsleep" => at[q] = "wsleep")
      BY <3>3, NoSleeper
    <3> QED BY <2>1, <2>2, <3>4 DEF NoneOversleeps, Full
  <2>3. CASE Closed(p, WakeWriters) /\ UNCHANGED <<writeopen, unwoken>>
    <3>1. \E b \in {"user", WakeWriters[p]} : at' = [WakeWriters EXCEPT ![p] = b]
      BY <2>3 DEF Closed
    <3>2. WakeWriters[p] = at[p]
      BY <2>1 DEF WakeWriters, Woken
    <3>3. \A q \in Client : Sleeps(q, WakeWriters)
      BY <1>1, <1>2, <2>1, <3>1, <3>2
    <3>4. \A q \in Client : at'[q] # "wsleep" /\ (at'[q] = "rsleep" => at[q] = "rsleep")
      BY <3>3, NoSleeper
    <3> QED BY <2>1, <2>3, <3>4 DEF NoneOversleeps, Empty
  <2> QED BY <1>3, <2>2, <2>3 DEF PipeClose
<1>4. CASE ReadWait(p)
  <2>1. /\ Empty /\ writeopen /\ UNCHANGED <<nread, nwrite, readopen, writeopen, lock, unwoken>>
        /\ at' = [at EXCEPT ![p] = "user"] \/ at' = [at EXCEPT ![p] = "rsleep"]
    BY <1>4 DEF ReadWait, Leave, pi
  <2>2. \A q \in Client : at'[q] = "wsleep" => at[q] = "wsleep"
    BY <1>1, <2>1
  <2> QED BY <2>1, <2>2 DEF NoneOversleeps, Empty, Full
<1>5. CASE ReadCopy(p)
  <2>1. /\ lock = Nil /\ ~(Empty /\ writeopen) /\ UNCHANGED <<readopen, writeopen, lock, unwoken>>
        /\ at' = [WakeWriters EXCEPT ![p] = "user"]
    BY <1>5 DEF ReadCopy, Leave
  <2>2. \A q \in Client : Sleeps(q, WakeWriters)
    BY <1>1, <1>2, <2>1
  <2>3. \A q \in Client : at'[q] # "wsleep" /\ (at'[q] = "rsleep" => at[q] = "rsleep")
    BY <2>2, NoSleeper
  <2> QED BY <2>1, <2>3 DEF NoneOversleeps
<1>6. CASE WriteRefused(p)
  <2>1. /\ at[p] = "write" /\ unwoken' = (unwoken \/ ~Empty) /\ at' = [at EXCEPT ![p] = "user"]
        /\ UNCHANGED <<nread, nwrite, readopen, writeopen>>
    BY <1>6 DEF WriteRefused, Writing, Leave, pi
  <2>2. \A q \in Client : Sleeps(q, at)
    BY <1>1, <1>2, <2>1
  <2>3. writeopen
    BY <2>1 DEF FilesExact
  <2>4. ~unwoken' => Empty
    BY <2>1
  <2> QED BY <2>1, <2>2, <2>3, <2>4 DEF NoneOversleeps, Empty, Full
<1>7. CASE WriteFull(p)
  <2>1. /\ Full /\ readopen /\ at' = [WakeReaders EXCEPT ![p] = "wsleep"]
        /\ UNCHANGED <<nread, nwrite, readopen, writeopen>>
    BY <1>7 DEF WriteFull, Refused, pi
  <2>2. at'[p] = "wsleep" /\ \A q \in Client \ {p} : at'[q] = WakeReaders[q]
    BY <1>1, <2>1, GoesTo
  <2>3. \A q \in Client : at'[q] # "rsleep"
    BY <2>2, NoSleeper
  <2> QED BY <2>1, <2>3 DEF NoneOversleeps, Full
<1>8. CASE WriteDone(p)
  <2>1. at' = [WakeReaders EXCEPT ![p] = "user"] /\ UNCHANGED <<nread, nwrite, readopen, writeopen>>
    BY <1>8 DEF WriteDone, Leave, pi
  <2>2. \A q \in Client : Sleeps(q, WakeReaders)
    BY <1>1, <1>2, <2>1
  <2>3. \A q \in Client : at'[q] # "rsleep" /\ (at'[q] = "wsleep" => at[q] = "wsleep")
    BY <2>2, NoSleeper
  <2> QED BY <2>1, <2>3 DEF NoneOversleeps, Full
<1>9. CASE \E b \in Byte : WriteByte(p, b)
  <2>1. ~Full /\ at' = at /\ lock' = p
    BY <1>9 DEF WriteByte
  <2>2. \A q \in Client : at'[q] # "wsleep"
    BY <2>1 DEF NoneOversleeps
  <2> QED BY <1>1, <2>1, <2>2 DEF NoneOversleeps
<1> QED BY <1>3, <1>4, <1>5, <1>6, <1>7, <1>8, <1>9

\* A reader sleeps only in an empty pipe that a writer may still fill, a writer only in a
\* full one that a reader may still empty: no wakeup() is lost but one.  A killed writer
\* leaves without it (pipe.c:84-86), and from then to the next wakeup of readers this says
\* nothing of a reader, which may sleep beside the bytes.
THEOREM NobodyOversleeps == PipeSpec => []NoneOversleeps
<1>1. PipeInit => NoneOversleeps
  BY DEF PipeInit, PipeIdle, NoneOversleeps
<1>2. FilesInv /\ NoneOversleeps /\ [PipeNext]_pipeVars => NoneOversleeps'
  <2> SUFFICES ASSUME FilesInv, NoneOversleeps, [PipeNext]_pipeVars PROVE NoneOversleeps'
    OBVIOUS
  <2>1. FilesExact
    BY FilesAre
  <2>2. CASE UNCHANGED pipeVars
    BY <2>2, SleepersStay DEF pipeVars, pi
  <2>3. CASE PipeNext
    <3>1. PICK p \in Client :
            \/ SysPipe(p) \/ Filedup(p) \/ FileClose(p) \/ PipeClose(p)
            \/ \E f \in Files : Fdalloc(p, f)
            \/ \E fd \in Fds : Close(p, fd)
            \/ \E e \in {"read", "write"}, n \in 1 .. MaxN : Call(p, e, n)
            \/ ReadWait(p) \/ ReadCopy(p)
            \/ WriteRefused(p) \/ WriteFull(p) \/ WriteDone(p)
            \/ \E b \in Byte : WriteByte(p, b)
            \/ \E c \in Client : ForkFiles(p, c)
            \/ Kill(p) \/ ExitFiles(p) \/ Exited(p)
      BY <2>3 DEF PipeNext
    <3> QED BY <2>1, <3>1, SleepersNext, SleepersPipe
  <2> QED BY <2>2, <2>3
<1> QED BY <1>1, <1>2, FilesAlways, PTL DEF PipeSpec

-----------------------------------------------------------------------------
(* Remainders                                                              *)

LEMMA DivMod == ASSUME NEW a \in Int, NEW n \in Nat \ {0}
  PROVE \E q \in Int, r \in 0 .. n - 1 : r = a % n /\ a = n * q + r
<1>1. a % n \in 0 .. n - 1 /\ a \div n \in Int
  OBVIOUS
<1>2. a % n = a - n * (a \div n)
  BY Z3
<1>3. PICK r \in 0 .. n - 1 : r = a % n
  BY <1>1
<1>4. PICK q \in Int : q = a \div n
  BY <1>1
<1>5. r = a - n * q
  BY <1>2, <1>3, <1>4
<1>6. a = n * q + r
  <2>1. r \in Int /\ q \in Int
    BY <1>3, <1>4
  <2> QED BY <1>5, <2>1
<1> QED BY <1>3, <1>4, <1>6

LEMMA Grows == ASSUME NEW n \in Nat \ {0}, NEW d \in Int, d > 0 PROVE n * d >= n
  OBVIOUS

LEMMA ModOf == ASSUME NEW n \in Nat \ {0}, NEW q \in Int, NEW r \in 0 .. n - 1
  PROVE (n * q + r) % n = r
<1> DEFINE a == n * q + r
<1>0. a \in Int
  OBVIOUS
<1>1. PICK k \in Int, s \in 0 .. n - 1 : s = a % n /\ a = n * k + s
  <2> HIDE DEF a
  <2> QED BY <1>0, DivMod
<1>2. n * (q - k) = s - r /\ n * (k - q) = r - s
  BY <1>1
<1> HIDE DEF a
<1>3. ~(q > k)
  <2>1. ASSUME q > k PROVE FALSE
    <3>1. n * (q - k) >= n
      BY <1>1, <2>1, Grows
    <3>2. s - r < n
      BY <1>1
    <3> QED BY <1>1, <1>2, <3>1, <3>2
  <2> QED BY <2>1
<1>4. ~(k > q)
  <2>1. ASSUME k > q PROVE FALSE
    <3>1. n * (k - q) >= n
      BY <1>1, <2>1, Grows
    <3>2. r - s < n
      BY <1>1
    <3> QED BY <1>1, <1>2, <3>1, <3>2
  <2> QED BY <2>1
<1>5. q = k
  BY <1>1, <1>3, <1>4
<1>6. s = r
  BY <1>1, <1>2, <1>5
<1> QED BY <1>1, <1>6 DEF a

\* Adding a multiple changes nothing.
LEMMA ModAdd == ASSUME NEW n \in Nat \ {0}, NEW q \in Int, NEW a \in Int
  PROVE (a + n * q) % n = a % n
<1>1. PICK k \in Int, r \in 0 .. n - 1 : r = a % n /\ a = n * k + r
  BY DivMod
<1>2. a + n * q = n * (k + q) + r /\ k + q \in Int
  BY <1>1
<1>3. (n * (k + q) + r) % n = r
  BY <1>1, <1>2, ModOf
<1> QED BY <1>1, <1>2, <1>3

LEMMA ModSmall == ASSUME NEW n \in Nat \ {0}, NEW a \in Int
  PROVE /\ a \in 0 .. n - 1 => a % n = a
        /\ a \in n .. 2 * n - 1 => a % n = a - n
        /\ a \in -n .. -1 => a % n = a + n
<1>1. \A q \in Int, r \in 0 .. n - 1 : (n * q + r) % n = r
  BY ModOf
<1>2. ASSUME a \in 0 .. n - 1 PROVE a % n = a
  <2>1. a = n * 0 + a
    OBVIOUS
  <2> QED BY <1>1, <1>2, <2>1
<1>3. ASSUME a \in n .. 2 * n - 1 PROVE a % n = a - n
  <2>1. a = n * 1 + (a - n) /\ a - n \in 0 .. n - 1
    BY <1>3
  <2> QED BY <1>1, <2>1
<1>4. ASSUME a \in -n .. -1 PROVE a % n = a + n
  <2>1. a = n * (-1) + (a + n) /\ a + n \in 0 .. n - 1 /\ -1 \in Int
    BY <1>4
  <2> QED BY <1>1, <2>1
<1> QED BY <1>2, <1>3, <1>4

\* Less than n apart, two numbers differ modulo n.
LEMMA ModApart == ASSUME NEW n \in Nat \ {0}, NEW a \in Int, NEW d \in 1 .. n - 1
  PROVE (a + d) % n # a % n
<1>1. PICK k \in Int, r \in 0 .. n - 1 : r = a % n /\ a = n * k + r
  BY DivMod
<1>2. PICK j \in Int, s \in 0 .. n - 1 : s = (a + d) % n /\ a + d = n * j + s
  <2>1. a + d \in Int
    OBVIOUS
  <2> QED BY <2>1, DivMod
<1>3. ASSUME s = r PROVE FALSE
  <2>1. d = n * (j - k) /\ j - k \in Int
    BY <1>1, <1>2, <1>3
  <2>2. CASE j - k > 0
    <3>1. n * (j - k) >= n
      BY <2>1, <2>2, Grows
    <3> QED BY <2>1, <3>1
  <2>3. CASE j - k <= 0
    <3>1. n * (j - k) <= 0
      BY <2>1, <2>3
    <3> QED BY <2>1, <3>1
  <2> QED BY <2>1, <2>2, <2>3
<1> QED BY <1>1, <1>2, <1>3

-----------------------------------------------------------------------------
(* A pipe is a bounded queue                                               *)

Bounded == Length <= PIPESIZE

LEMMA WrapIs ==
  /\ PIPESIZE \in Nat \ {0} /\ Wrap \in Nat \ {0} /\ PIPESIZE < Wrap
  /\ \E m \in Int : Wrap = PIPESIZE * m
<1>1. Wrap \in Nat /\ PIPESIZE \in Nat \ {0} /\ Wrap > PIPESIZE /\ Wrap % PIPESIZE = 0
  BY PipeNumbers
<1>2. Wrap \in Int /\ Wrap \in Nat \ {0}
  BY <1>1
<1>3. PICK m \in Int, r \in 0 .. PIPESIZE - 1 : r = Wrap % PIPESIZE /\ Wrap = PIPESIZE * m + r
  BY <1>1, <1>2, DivMod
<1>4. r = 0
  BY <1>1, <1>3
<1>5. Wrap = PIPESIZE * m
  BY <1>1, <1>3, <1>4
<1> QED BY <1>1, <1>2, <1>3, <1>5

\* The counters wrap around, their difference does not.
LEMMA LengthIs ==
  ASSUME NEW n \in 0 .. Wrap - 1, NEW w \in 0 .. Wrap - 1
  PROVE  \E l \in 0 .. Wrap - 1 : l = (w - n) % Wrap /\ (l = w - n \/ l = w - n + Wrap)
<1>1. Wrap \in Nat \ {0} /\ w - n \in Int
  BY WrapIs
<1>2. CASE n <= w
  <2>1. w - n \in 0 .. Wrap - 1
    BY <1>1, <1>2
  <2>2. (w - n) % Wrap = w - n
    BY <1>1, <2>1, ModSmall
  <2> QED BY <2>1, <2>2
<1>3. CASE w < n
  <2>1. w - n \in -Wrap .. -1 /\ w - n + Wrap \in 0 .. Wrap - 1
    BY <1>1, <1>3
  <2>2. (w - n) % Wrap = w - n + Wrap
    BY <1>1, <2>1, ModSmall
  <2> QED BY <2>1, <2>2
<1> QED BY <1>1, <1>2, <1>3

LEMMA AddIs ==
  ASSUME NEW n \in 0 .. Wrap - 1, NEW k \in 0 .. Wrap
  PROVE  \E v \in 0 .. Wrap - 1 : v = (n + k) % Wrap /\ (v = n + k \/ v = n + k - Wrap)
<1>1. Wrap \in Nat \ {0} /\ n + k \in Int
  BY WrapIs
<1>2. CASE n + k < Wrap
  <2>1. n + k \in 0 .. Wrap - 1
    BY <1>1, <1>2
  <2>2. (n + k) % Wrap = n + k
    BY <1>1, <2>1, ModSmall
  <2> QED BY <2>1, <2>2
<1>3. CASE n + k >= Wrap
  <2>1. n + k \in Wrap .. 2 * Wrap - 1 /\ n + k - Wrap \in 0 .. Wrap - 1
    BY <1>1, <1>3
  <2>2. (n + k) % Wrap = n + k - Wrap
    BY <1>1, <2>1, ModSmall
  <2> QED BY <2>1, <2>2
<1> QED BY <1>1, <1>2, <1>3

\* Bytes that are read, and bytes that are written.
LEMMA LengthRead ==
  ASSUME NEW n \in 0 .. Wrap - 1, NEW w \in 0 .. Wrap - 1, NEW k \in 0 .. (w - n) % Wrap
  PROVE  \E v \in 0 .. Wrap - 1 : /\ v = (n + k) % Wrap /\ (v = n + k \/ v = n + k - Wrap)
                                  /\ (w - v) % Wrap = ((w - n) % Wrap) - k
<1>1. Wrap \in Nat \ {0}
  BY WrapIs
<1>2. PICK l \in 0 .. Wrap - 1 : l = (w - n) % Wrap /\ (l = w - n \/ l = w - n + Wrap)
  BY LengthIs
<1>3. k \in 0 .. l /\ k \in 0 .. Wrap
  BY <1>1, <1>2
<1>4. PICK v \in 0 .. Wrap - 1 : v = (n + k) % Wrap /\ (v = n + k \/ v = n + k - Wrap)
  BY <1>3, AddIs
<1>5. PICK u \in 0 .. Wrap - 1 : u = (w - v) % Wrap /\ (u = w - v \/ u = w - v + Wrap)
  BY <1>4, LengthIs
<1>6. l \in Int /\ k \in Int /\ u \in 0 .. Wrap - 1 /\ l \in 0 .. Wrap - 1 /\ k <= l /\ k >= 0
  BY <1>1, <1>2, <1>3, <1>5
<1>7. u = l - k
  BY <1>1, <1>2, <1>4, <1>5, <1>6
<1>8. (w - v) % Wrap = ((w - n) % Wrap) - k
  BY <1>2, <1>5, <1>7
<1> QED BY <1>4, <1>8

LEMMA LengthWritten ==
  ASSUME NEW n \in 0 .. Wrap - 1, NEW w \in 0 .. Wrap - 1,
         (w - n) % Wrap <= PIPESIZE, w # (n + PIPESIZE) % Wrap
  PROVE  \E v \in 0 .. Wrap - 1, l \in 0 .. PIPESIZE - 1 :
           /\ v = (w + 1) % Wrap /\ l = (w - n) % Wrap
           /\ w = n + l \/ w = n + l - Wrap
           /\ (v - n) % Wrap = l + 1
<1>1. Wrap \in Nat \ {0} /\ PIPESIZE \in Nat \ {0} /\ PIPESIZE < Wrap
  BY WrapIs
<1>2. PICK l \in 0 .. Wrap - 1 : l = (w - n) % Wrap /\ (l = w - n \/ l = w - n + Wrap)
  BY LengthIs
<1>3. PICK f \in 0 .. Wrap - 1 : f = (n + PIPESIZE) % Wrap /\ (f = n + PIPESIZE \/ f = n + PIPESIZE - Wrap)
  <2>1. PIPESIZE \in 0 .. Wrap
    BY <1>1
  <2> QED BY <2>1, AddIs
<1>4. l <= PIPESIZE /\ w # f
  BY <1>2, <1>3
<1>5. l < PIPESIZE
  BY <1>1, <1>2, <1>3, <1>4
<1>6. PICK v \in 0 .. Wrap - 1 : v = (w + 1) % Wrap /\ (v = w + 1 \/ v = w + 1 - Wrap)
  <2>1. 1 \in 0 .. Wrap
    BY <1>1
  <2> QED BY <2>1, AddIs
<1>7. PICK u \in 0 .. Wrap - 1 : u = (v - n) % Wrap /\ (u = v - n \/ u = v - n + Wrap)
  BY <1>6, LengthIs
<1>8. u = l + 1
  BY <1>1, <1>2, <1>5, <1>6, <1>7
<1>9. l \in 0 .. PIPESIZE - 1 /\ (w = n + l \/ w = n + l - Wrap)
  BY <1>1, <1>2, <1>5
<1>10. (v - n) % Wrap = l + 1
  BY <1>7, <1>8
<1> QED BY <1>2, <1>6, <1>9, <1>10

Cells == Byte \cup {Nil}

LEMMA PipeFacts ==
  ASSUME FilesInv
  PROVE  /\ nread \in 0 .. Wrap - 1 /\ nwrite \in 0 .. Wrap - 1
         /\ Length \in 0 .. Wrap - 1 /\ Length \in Nat
         /\ data \in [0 .. PIPESIZE - 1 -> Cells]
         /\ PIPESIZE \in Nat \ {0} /\ Wrap \in Nat \ {0}
<1>1. nread \in 0 .. Wrap - 1 /\ nwrite \in 0 .. Wrap - 1 /\ data \in [0 .. PIPESIZE - 1 -> Cells]
  BY DEF FilesInv, PipeTypeOK, Cells
<1>2. \E l \in 0 .. Wrap - 1 : l = Length
  BY <1>1, LengthIs DEF Length
<1> QED BY <1>1, <1>2, WrapIs

\* The bytes of the queue, one after the other.
LEMMA CellIs ==
  ASSUME NEW d \in [0 .. PIPESIZE - 1 -> Cells], NEW k \in Int
  PROVE  k % PIPESIZE \in 0 .. PIPESIZE - 1 /\ d[k % PIPESIZE] \in Cells
<1>1. PIPESIZE \in Nat \ {0}
  BY WrapIs
<1>2. PICK q \in Int, r \in 0 .. PIPESIZE - 1 : r = k % PIPESIZE
  BY <1>1, DivMod
<1>3. d[r] \in Cells
  BY <1>2
<1> QED BY <1>2, <1>3

Cell(d, n, i) == d[(n + i - 1) % PIPESIZE]
Chars(d, n, l) == [i \in 1 .. l |-> Cell(d, n, i)]

LEMMA CharsAre ==
  ASSUME NEW d \in [0 .. PIPESIZE - 1 -> Cells], NEW n \in Int, NEW l \in Nat
  PROVE  /\ Chars(d, n, l) \in Seq(Cells) /\ Len(Chars(d, n, l)) = l
         /\ \A i \in 1 .. l : Chars(d, n, l)[i] = Cell(d, n, i)
<1>1. \A i \in 1 .. l : Cell(d, n, i) \in Cells
  <2>1. ASSUME NEW i \in 1 .. l PROVE Cell(d, n, i) \in Cells
    <3>1. n + i - 1 \in Int
      OBVIOUS
    <3> QED BY <3>1, CellIs DEF Cell
  <2> QED BY <2>1
<1> HIDE DEF Cell
<1>2. Chars(d, n, l) \in [1 .. l -> Cells]
  BY <1>1 DEF Chars
<1>3. Chars(d, n, l) \in Seq(Cells) /\ Len(Chars(d, n, l)) = l
  BY <1>2, IsASeq, LenProperties DEF Chars
<1> QED BY <1>3 DEF Chars

LEMMA QueueIs ==
  ASSUME FilesInv
  PROVE  /\ alive => Queue = Chars(data, nread, Length)
         /\ ~alive => Queue = <<>>
  BY DEF Queue, Chars, Cell

LEMMA Reads ==
  ASSUME NEW d \in [0 .. PIPESIZE - 1 -> Cells], NEW n \in Int, NEW l \in Nat, NEW k \in 0 .. l,
         NEW v \in Int, v = n + k \/ v = n + k - Wrap
  PROVE  Chars(d, v, l - k) = SubSeq(Chars(d, n, l), k + 1, Len(Chars(d, n, l)))
<1> DEFINE s == Chars(d, n, l)
           t == Chars(d, v, l - k)
           u == SubSeq(s, k + 1, l)
<1>1. s \in Seq(Cells) /\ Len(s) = l /\ \A i \in 1 .. l : s[i] = Cell(d, n, i)
  BY CharsAre
<1>2. t \in Seq(Cells) /\ Len(t) = l - k /\ \A i \in 1 .. l - k : t[i] = Cell(d, v, i)
  <2>1. l - k \in Nat
    OBVIOUS
  <2> QED BY <2>1, CharsAre
<1> HIDE DEF s, t
<1>3. u \in Seq(Cells) /\ Len(u) = l - k /\ \A i \in 1 .. l - k : u[i] = s[k + i]
  <2>1. \A i \in k + 1 .. l : s[i] \in Cells
    BY <1>1
  <2>2. /\ u \in Seq(Cells) /\ Len(u) = (IF k + 1 <= l THEN l - (k + 1) + 1 ELSE 0)
        /\ \A i \in 1 .. l - (k + 1) + 1 : u[i] = s[(k + 1) + i - 1]
    <3>1. k + 1 \in Int /\ l \in Int
      OBVIOUS
    <3> QED BY <2>1, <3>1, SubSeqProperties
  <2> HIDE DEF u
  <2> QED BY <2>2
<1>4. ASSUME NEW i \in 1 .. l - k PROVE t[i] = u[i]
  <2>1. PIPESIZE \in Nat \ {0}
    BY WrapIs
  <2>2. PICK m \in Int : Wrap = PIPESIZE * m
    BY WrapIs
  <2>3. PICK a \in Int, b \in Int : a = n + (k + i) - 1 /\ b = v + i - 1
    OBVIOUS
  <2>4. b = a \/ b = a + PIPESIZE * (-m)
    BY <2>1, <2>2, <2>3
  <2>5. b % PIPESIZE = a % PIPESIZE
    <3>1. (a + PIPESIZE * (-m)) % PIPESIZE = a % PIPESIZE
      <4>1. -m \in Int
        BY <2>2
      <4> QED BY <2>1, <2>3, <4>1, ModAdd
    <3> QED BY <2>4, <3>1
  <2>6. Cell(d, n, k + i) = d[a % PIPESIZE] /\ Cell(d, v, i) = d[b % PIPESIZE]
    BY <2>3 DEF Cell
  <2>7. t[i] = Cell(d, v, i) /\ u[i] = s[k + i]
    BY <1>2, <1>3
  <2>8. k + i \in 1 .. l
    OBVIOUS
  <2>9. s[k + i] = Cell(d, n, k + i)
    BY <1>1, <2>8
  <2> QED BY <2>5, <2>6, <2>7, <2>9
<1> HIDE DEF u
<1>5. t = u
  BY <1>2, <1>3, <1>4, SeqEqual
<1> QED BY <1>1, <1>5 DEF s, t, u

LEMMA Writes ==
  ASSUME NEW d \in [0 .. PIPESIZE - 1 -> Cells], NEW n \in Int, NEW w \in Int, NEW b \in Cells,
         NEW l \in 0 .. PIPESIZE - 1, w = n + l \/ w = n + l - Wrap
  PROVE  Chars([d EXCEPT ![w % PIPESIZE] = b], n, l + 1) = Append(Chars(d, n, l), b)
<1> DEFINE e == [d EXCEPT ![w % PIPESIZE] = b]
           s == Chars(d, n, l)
           t == Chars(e, n, l + 1)
           u == Append(s, b)
<1>0. PIPESIZE \in Nat \ {0} /\ l \in Nat /\ l + 1 \in Nat
  BY WrapIs
<1>1. PICK c \in 0 .. PIPESIZE - 1 : c = w % PIPESIZE /\ c = (n + l) % PIPESIZE
  <2>1. PICK m \in Int : Wrap = PIPESIZE * m
    BY WrapIs
  <2>2. PICK a \in Int : a = n + l
    BY <1>0
  <2>3. w = a \/ w = a + PIPESIZE * (-m)
    BY <1>0, <2>1, <2>2
  <2>4. w % PIPESIZE = a % PIPESIZE
    <3>1. (a + PIPESIZE * (-m)) % PIPESIZE = a % PIPESIZE
      <4>1. -m \in Int
        BY <2>1
      <4> QED BY <1>0, <2>2, <4>1, ModAdd
    <3> QED BY <2>3, <3>1
  <2>5. a % PIPESIZE \in 0 .. PIPESIZE - 1
    BY <2>2, CellIs
  <2> QED BY <2>2, <2>4, <2>5
<1>2. e \in [0 .. PIPESIZE - 1 -> Cells] /\ e[c] = b /\ \A j \in 0 .. PIPESIZE - 1 : j # c => e[j] = d[j]
  BY <1>1
<1> HIDE DEF e
<1>3. s \in Seq(Cells) /\ Len(s) = l /\ \A i \in 1 .. l : s[i] = Cell(d, n, i)
  BY <1>0, CharsAre
<1>4. t \in Seq(Cells) /\ Len(t) = l + 1 /\ \A i \in 1 .. l + 1 : t[i] = Cell(e, n, i)
  BY <1>0, <1>2, CharsAre
<1> HIDE DEF s, t
<1>5. /\ u \in Seq(Cells) /\ Len(u) = l + 1 /\ u[l + 1] = b
      /\ \A i \in 1 .. l : u[i] = s[i]
  BY <1>3, AppendProperties
<1> HIDE DEF u
<1>6. ASSUME NEW i \in 1 .. l + 1 PROVE t[i] = u[i]
  <2>1. CASE i = l + 1
    <3>1. n + i - 1 = n + l
      BY <1>0, <2>1
    <3>2. Cell(e, n, i) = b
      BY <1>1, <1>2, <3>1 DEF Cell
    <3> QED BY <1>4, <1>5, <2>1, <3>2
  <2>2. CASE i # l + 1
    <3>1. i \in 1 .. l
      BY <1>0, <2>2
    <3>2. PICK a \in Int, x \in 1 .. PIPESIZE - 1 : a = n + i - 1 /\ x = l - i + 1 /\ a + x = n + l
      BY <1>0, <3>1
    <3>3. c # a % PIPESIZE
      <4>1. (a + x) % PIPESIZE # a % PIPESIZE
        BY <1>0, <3>2, ModApart
      <4> QED BY <1>1, <3>2, <4>1
    <3>4. a % PIPESIZE \in 0 .. PIPESIZE - 1
      BY <3>2, CellIs
    <3>5. e[a % PIPESIZE] = d[a % PIPESIZE]
      BY <1>2, <3>3, <3>4
    <3>6. Cell(e, n, i) = Cell(d, n, i)
      BY <3>2, <3>5 DEF Cell
    <3> QED BY <1>3, <1>4, <1>5, <3>1, <3>6
  <2> QED BY <2>1, <2>2
<1>7. t = u
  BY <1>4, <1>5, <1>6, SeqEqual
<1> QED BY <1>7 DEF e, s, t, u

\* Nothing happens to the bytes and the ends.
LEMMA Idles ==
  ASSUME UNCHANGED pi
  PROVE  UNCHANGED Chan!chan /\ (Bounded => Bounded')
<1>1. Length' = Length /\ Queue' = Queue
  BY DEF pi, Length, Queue
<1>2. Bounded => Bounded'
  BY <1>1 DEF Bounded
<1> QED BY <1>1, <1>2 DEF Chan!chan, pi

LEMMA ChannelOpens ==
  ASSUME FilesInv, NEW p \in Client, SysPipe(p)
  PROVE  Chan!Open /\ Bounded'
<1>1. /\ ~alive /\ readopen' = TRUE /\ writeopen' = TRUE /\ nread' = 0 /\ nwrite' = 0
  BY DEF SysPipe
<1>2. ~readopen /\ ~writeopen
  BY <1>1 DEF FilesInv, EndsOpen
<1>3. Length' = 0
  <2>1. 0 \in 0 .. Wrap - 1
    BY ZeroFits
  <2>2. (0 - 0) % Wrap = 0
    BY <2>1, WrapIs, ModSmall
  <2> QED BY <1>1, <2>2 DEF Length
<1>4. Queue' = <<>>
  BY <1>3 DEF Queue
<1>5. Bounded'
  BY <1>3, WrapIs DEF Bounded
<1> QED BY <1>1, <1>2, <1>4, <1>5 DEF Chan!Open

LEMMA ChannelCloses ==
  ASSUME FilesInv, Bounded, NEW p \in Client, PipeClose(p)
  PROVE  (Chan!CloseRead \/ Chan!CloseWrite) /\ Bounded'
<1>1. UNCHANGED <<data, nread, nwrite>> /\ readopen \in BOOLEAN /\ writeopen \in BOOLEAN
  BY DEF PipeClose, FilesInv, PipeTypeOK
<1>2. Length' = Length
  BY <1>1 DEF Length
<1>3. Bounded'
  BY <1>2 DEF Bounded
<1>4. (ff[p] = "read" => readopen) /\ (ff[p] = "write" => writeopen)
  BY DEF FilesInv, EndsOpen, IsOpen
<1>5. alive <=> (readopen \/ writeopen)
  BY DEF FilesInv, EndsOpen
<1>6. CASE ff[p] = "write" /\ writeopen' = FALSE /\ alive' = readopen /\ UNCHANGED readopen
  <2>1. Queue' = IF readopen THEN Queue ELSE <<>>
    <3>1. CASE readopen
      <4>1. alive' /\ alive
        BY <1>5, <1>6, <3>1
      <4> QED BY <1>1, <1>2, <3>1, <4>1 DEF Queue
    <3>2. CASE ~readopen
      <4>1. ~alive'
        BY <1>6, <3>2
      <4> QED BY <3>2, <4>1 DEF Queue
    <3> QED BY <3>1, <3>2
  <2> QED BY <1>3, <1>4, <1>6, <2>1 DEF Chan!CloseWrite
<1>7. CASE ff[p] = "read" /\ readopen' = FALSE /\ alive' = writeopen /\ UNCHANGED writeopen
  <2>1. Queue' = IF writeopen THEN Queue ELSE <<>>
    <3>1. CASE writeopen
      <4>1. alive' /\ alive
        BY <1>5, <1>7, <3>1
      <4> QED BY <1>1, <1>2, <3>1, <4>1 DEF Queue
    <3>2. CASE ~writeopen
      <4>1. ~alive'
        BY <1>7, <3>2
      <4> QED BY <3>2, <4>1 DEF Queue
    <3> QED BY <3>1, <3>2
  <2> QED BY <1>3, <1>4, <1>7, <2>1 DEF Chan!CloseRead
<1> QED BY <1>6, <1>7 DEF PipeClose

LEMMA ChannelReads ==
  ASSUME FilesInv, Bounded, NEW p \in Client, ReadCopy(p)
  PROVE  [Chan!ChanNext]_(Chan!chan) /\ Bounded'
<1>1. /\ readopen /\ alive /\ alive' = alive
      /\ UNCHANGED <<data, nwrite, readopen, writeopen>>
  <2>1. readopen
    BY FilesAre, Zenon DEF FilesExact, ReadCopy
  <2>2. alive
    BY <2>1 DEF FilesInv, EndsOpen
  <2> QED BY <2>1, <2>2 DEF ReadCopy
<1> DEFINE l == Length
<1>2. /\ nread \in 0 .. Wrap - 1 /\ nwrite \in 0 .. Wrap - 1 /\ l \in Nat
      /\ data \in [0 .. PIPESIZE - 1 -> Cells] /\ Wrap \in Nat \ {0} /\ PIPESIZE \in Nat \ {0}
  BY PipeFacts
<1>3. PICK k \in 0 .. l : nread' = (nread + k) % Wrap
  BY DEF ReadCopy
<1>4. PICK v \in 0 .. Wrap - 1 : /\ v = (nread + k) % Wrap /\ (v = nread + k \/ v = nread + k - Wrap)
                                 /\ (nwrite - v) % Wrap = l - k
  BY <1>2, <1>3, LengthRead DEF Length
<1>5. nread' = v /\ Length' = l - k
  BY <1>1, <1>3, <1>4 DEF Length
<1>6. Bounded'
  <2> HIDE DEF l
  <2>1. l <= PIPESIZE => l - k <= PIPESIZE
    BY <1>2, <1>3
  <2> QED BY <1>5, <2>1 DEF Bounded, l
<1> HIDE DEF l
<1>7. Queue = Chars(data, nread, l)
  BY <1>1, QueueIs DEF l
<1>8. Queue' = Chars(data, v, l - k)
  BY <1>1, <1>5 DEF Queue, Chars, Cell
<1>9. Queue' = SubSeq(Queue, k + 1, Len(Queue)) /\ Len(Queue) = l
  <2>1. nread \in Int /\ v \in Int
    BY <1>2, <1>4
  <2>2. Chars(data, v, l - k) = SubSeq(Chars(data, nread, l), k + 1, Len(Chars(data, nread, l)))
    BY <1>2, <1>3, <1>4, <2>1, Reads
  <2>3. Len(Chars(data, nread, l)) = l
    BY <1>2, <2>1, CharsAre
  <2> QED BY <1>7, <1>8, <2>2, <2>3
<1>10. CASE k = 0
  <2>1. v = nread
    BY <1>2, <1>4, <1>10
  <2>2. l - k = l
    BY <1>2, <1>10
  <2>3. Queue' = Queue
    BY <1>7, <1>8, <2>1, <2>2
  <2> QED BY <1>1, <1>6, <2>3 DEF Chan!chan
<1>11. CASE k # 0
  <2>1. k \in 1 .. Len(Queue)
    BY <1>2, <1>3, <1>9, <1>11
  <2>2. Chan!Get(k)
    BY <1>1, <1>9 DEF Chan!Get
  <2> QED BY <1>6, <2>1, <2>2 DEF Chan!ChanNext
<1> QED BY <1>10, <1>11

LEMMA ChannelWrites ==
  ASSUME FilesInv, Bounded, NEW p \in Client, NEW b \in Byte, WriteByte(p, b)
  PROVE  Chan!Put(b) /\ Bounded'
<1>1. /\ readopen /\ writeopen /\ alive /\ alive' = alive /\ ~Full
      /\ data' = [data EXCEPT ![nwrite % PIPESIZE] = b] /\ nwrite' = (nwrite + 1) % Wrap
      /\ UNCHANGED <<nread, readopen, writeopen>>
  <2>1. writeopen
    BY FilesAre, Zenon DEF FilesExact, WriteByte, Writing
  <2>2. alive
    BY <2>1 DEF FilesInv, EndsOpen
  <2>3. readopen
    BY DEF WriteByte, Refused
  <2> QED BY <2>1, <2>2, <2>3 DEF WriteByte
<1>2. /\ nread \in 0 .. Wrap - 1 /\ nwrite \in 0 .. Wrap - 1
      /\ data \in [0 .. PIPESIZE - 1 -> Cells] /\ Wrap \in Nat \ {0} /\ PIPESIZE \in Nat \ {0}
  BY PipeFacts
<1>3. PICK v \in 0 .. Wrap - 1, l \in 0 .. PIPESIZE - 1 :
        /\ v = (nwrite + 1) % Wrap /\ l = (nwrite - nread) % Wrap
        /\ nwrite = nread + l \/ nwrite = nread + l - Wrap
        /\ (v - nread) % Wrap = l + 1
  <2>1. (nwrite - nread) % Wrap <= PIPESIZE /\ nwrite # (nread + PIPESIZE) % Wrap
    BY <1>1 DEF Bounded, Length, Full
  <2> QED BY <1>2, <2>1, LengthWritten
<1>4. Length = l /\ Length' = l + 1
  BY <1>1, <1>3 DEF Length
<1>5. Bounded'
  BY <1>2, <1>3, <1>4 DEF Bounded
<1>6. Queue = Chars(data, nread, l)
  BY <1>1, <1>4, QueueIs
<1>7. Queue' = Chars([data EXCEPT ![nwrite % PIPESIZE] = b], nread, l + 1)
  BY <1>1, <1>4 DEF Queue, Chars, Cell
<1>8. Queue' = Append(Queue, b) /\ Len(Queue) = l
  <2>1. nread \in Int /\ nwrite \in Int /\ b \in Cells /\ l \in Nat
    BY <1>2, <1>3 DEF Cells
  <2>2. Chars([data EXCEPT ![nwrite % PIPESIZE] = b], nread, l + 1) = Append(Chars(data, nread, l), b)
    BY <1>2, <1>3, <2>1, Writes
  <2>3. Len(Chars(data, nread, l)) = l
    BY <1>2, <2>1, CharsAre
  <2> QED BY <1>6, <1>7, <2>2, <2>3
<1>9. Len(Queue) < PIPESIZE
  BY <1>2, <1>3, <1>8
<1> QED BY <1>1, <1>5, <1>8, <1>9 DEF Chan!Put

LEMMA ChannelStarts == PipeInit => Chan!ChanInit /\ Bounded
<1> SUFFICES ASSUME PipeInit PROVE Chan!ChanInit /\ Bounded
  OBVIOUS
<1>1. FilesInv /\ ~alive /\ ~readopen /\ ~writeopen /\ nread = 0 /\ nwrite = 0
  BY FilesInit DEF PipeInit, PipeIdle
<1>2. Queue = <<>>
  BY <1>1, QueueIs
<1>3. Length = 0
  <2>1. 0 \in 0 .. Wrap - 1
    BY ZeroFits
  <2>2. (0 - 0) % Wrap = 0
    BY <2>1, WrapIs, ModSmall
  <2> QED BY <1>1, <2>2 DEF Length
<1>4. Bounded
  BY <1>3, WrapIs DEF Bounded
<1> QED BY <1>1, <1>2, <1>4 DEF Chan!ChanInit

\* A pipe is a bounded queue: each step of the system calls is one of the queue, or none.
THEOREM PipeIsChannel == PipeSpec => IsChannel
<1>1. FilesInv /\ Bounded /\ [PipeNext]_pipeVars => [Chan!ChanNext]_(Chan!chan) /\ Bounded'
  <2> SUFFICES ASSUME FilesInv, Bounded, [PipeNext]_pipeVars
               PROVE  [Chan!ChanNext]_(Chan!chan) /\ Bounded'
    OBVIOUS
  <2>1. CASE UNCHANGED pi
    BY <2>1, Idles
  <2>2. CASE UNCHANGED pipeVars
    BY <2>1, <2>2 DEF pipeVars
  <2>3. CASE PipeNext
    <3>1. PICK p \in Client :
            \/ SysPipe(p) \/ Filedup(p) \/ FileClose(p) \/ PipeClose(p)
            \/ \E f \in Files : Fdalloc(p, f)
            \/ \E fd \in Fds : Close(p, fd)
            \/ \E e \in {"read", "write"}, n \in 1 .. MaxN : Call(p, e, n)
            \/ ReadWait(p) \/ ReadCopy(p)
            \/ WriteRefused(p) \/ WriteFull(p) \/ WriteDone(p)
            \/ \E b \in Byte : WriteByte(p, b)
            \/ \E c \in Client : ForkFiles(p, c)
            \/ Kill(p) \/ ExitFiles(p) \/ Exited(p)
      BY <2>3 DEF PipeNext
    <3>2. CASE SysPipe(p)
      BY <3>2, ChannelOpens DEF Chan!ChanNext
    <3>3. CASE PipeClose(p)
      BY <3>3, ChannelCloses DEF Chan!ChanNext
    <3>4. CASE ReadCopy(p)
      BY <3>4, ChannelReads
    <3>5. CASE \E b \in Byte : WriteByte(p, b)
      BY <3>5, ChannelWrites DEF Chan!ChanNext
    <3>6. CASE \/ Filedup(p) \/ FileClose(p)
               \/ \E f \in Files : Fdalloc(p, f)
               \/ \E fd \in Fds : Close(p, fd)
               \/ \E e \in {"read", "write"}, n \in 1 .. MaxN : Call(p, e, n)
               \/ ReadWait(p) \/ WriteRefused(p) \/ WriteFull(p) \/ WriteDone(p)
               \/ \E c \in Client : ForkFiles(p, c)
               \/ Kill(p) \/ ExitFiles(p) \/ Exited(p)
      BY <2>1, <3>6 DEF Filedup, FileClose, Fdalloc, Close, Call, ReadWait, WriteRefused, WriteFull,
         WriteDone, ForkFiles, Kill, ExitFiles, Exited
    <3> QED BY <3>1, <3>2, <3>3, <3>4, <3>5, <3>6
  <2> QED BY <2>2, <2>3
<1> QED BY <1>1, ChannelStarts, FilesAlways, PTL DEF PipeSpec, IsChannel, Chan!ChanSpec
-----------------------------------------------------------------------------
(* The buffer cache: the invariant                                         *)

Label == {"idle", "lock", "sleeplock", "have", "release", "rw", "sleepdesc", "sleepio", "done"}

\* Where a process has its buffer locked, asks the driver for it, waits for the device.
Holding == {"have", "rw", "sleepdesc", "sleepio", "done"}
Asking == Holding \ {"have"}
Waiting == {"sleepio", "done"}

BufferTypeOK ==
  /\ blockno \in [Buf -> Block \cup {Nothing}] /\ valid \in [Buf -> BOOLEAN]
  /\ refcnt \in [Buf -> Nat] /\ bdata \in [Buf -> Content] /\ lru \in [Buf -> Buf]
  /\ locked \in [Buf -> Caller \cup {Nothing}] /\ bdisk \in [Buf -> BOOLEAN]
  /\ io \in [Caller -> Label] /\ buf \in [Caller -> Buf \cup {0}]
  /\ write \in [Caller -> BOOLEAN] /\ chain \in [Caller -> Seq(Desc)]
  /\ free \subseteq Desc /\ info \in [Desc -> Buf \cup {0}]
  /\ avail \subseteq Desc /\ used \in Seq(Desc) /\ disk \in [Block -> Content]

\* A block has one buffer; the list has every buffer.
OneBuffer ==
  /\ \A i, j \in Buf : blockno[i] = blockno[j] /\ blockno[i] # Nothing => i = j
  /\ \A i \in Buf : valid[i] => blockno[i] # Nothing
  /\ \A i \in Buf : \E k \in Buf : lru[k] = i

\* A buffer is referred to by those who have it or wait for it, and has a block then.
Referring(i) == {p \in Caller : buf[p] = i}
Referred ==
  /\ \A i \in Buf : refcnt[i] = Cardinality(Referring(i))
  /\ \A p \in Caller : /\ io[p] = "idle" <=> buf[p] = 0
                       /\ buf[p] # 0 => blockno[buf[p]] # Nothing

\* A buffer is locked by the one who is where it has the lock.
Locks ==
  /\ \A p \in Caller : io[p] \in Holding => locked[buf[p]] = p
  /\ \A p \in Caller : io[p] = "sleeplock" => locked[buf[p]] # Nothing
  /\ \A i \in Buf : locked[i] # Nothing => io[locked[i]] \in Holding /\ buf[locked[i]] = i

\* A valid buffer is not read again.
Requests ==
  \A p \in Caller : /\ io[p] = "have" => valid[buf[p]]
                    /\ io[p] \in Asking => valid[buf[p]] = write[p]
                    /\ write[p] => io[p] \in Asking

\* A descriptor is free or in the chain of a process that waits for the device.
ChainOK(s, h, q, a, b, c) ==
  a # b /\ b # c /\ c # a /\ s = <<a, b, c>> /\ h[a] = q
Chains ==
  /\ \A p \in Caller : IF io[p] \in Waiting
                       THEN \E a, b, c \in Desc \ free : ChainOK(chain[p], info, buf[p], a, b, c)
                       ELSE chain[p] = <<>>
  /\ \A p, q \in Caller : p # q => ToSet(chain[p]) \cap ToSet(chain[q]) = {}
  /\ \A d \in Desc : d \in free \/ \E p \in Caller : d \in ToSet(chain[p])
  /\ \A p \in Caller : io[p] = "sleepdesc" => Cardinality(free) < 3

\* The device has, or has given back, what is waited for.
Rings ==
  /\ \A d \in avail \cup ToSet(used) : \E p \in Caller : io[p] = "sleepio" /\ chain[p][1] = d
  /\ avail \cap ToSet(used) = {}
  /\ \A p \in Caller : io[p] = "sleepio" => chain[p][1] \in avail \cup ToSet(used)
  /\ \A i \in Buf : bdisk[i] <=> \E p \in Caller : io[p] = "sleepio" /\ buf[p] = i

\* A buffer and its block agree once the device has served it, and when nobody is about to.
Served(p) == io[p] \in Waiting /\ chain[p][1] \notin avail
Settled(i) == valid[i] /\ (locked[i] = Nothing \/ io[locked[i]] = "have")
OnDisk ==
  /\ \A p \in Caller : Served(p) => bdata[buf[p]] = disk[blockno[buf[p]]]
  /\ \A i \in Buf : Settled(i) => bdata[i] = disk[blockno[i]]

BufferInv ==
  BufferTypeOK /\ OneBuffer /\ Referred /\ Locks /\ Requests /\ Chains /\ Rings /\ OnDisk

LEMMA BufferNumbers ==
  /\ NBUF \in Nat /\ NUM \in Nat /\ NUM >= 3
  /\ IsFiniteSet(Caller) /\ Nothing \notin Caller /\ Nothing \notin Block
  /\ Buf \subseteq Nat \ {0} /\ IsFiniteSet(Buf) /\ Cardinality(Buf) = NBUF
  /\ Desc \subseteq Nat /\ IsFiniteSet(Desc) /\ Cardinality(Desc) = NUM
<1>1. IsFiniteSet(1 .. NBUF) /\ Cardinality(1 .. NBUF) = NBUF
  BY BufferConstants, FS_Interval DEF BufferAssumption
<1>2. IsFiniteSet(0 .. NUM - 1) /\ Cardinality(0 .. NUM - 1) = NUM
  BY BufferConstants, FS_Interval DEF BufferAssumption
<1> QED BY <1>1, <1>2, BufferConstants DEF BufferAssumption, Buf, Desc

\* The elements of the chains and of the rings.
LEMMA Elements ==
  /\ ToSet(<<>>) = {}
  /\ \A a, b, c : ToSet(<<a, b, c>>) = {a, b, c} /\ <<a, b, c>>[1] = a
  /\ \A s \in Seq(Desc), d \in Desc : /\ ToSet(Append(s, d)) = ToSet(s) \cup {d}
                                      /\ Append(s, d) \in Seq(Desc)
  /\ \A s \in Seq(Desc) : ToSet(s) \subseteq Desc
<1>1. \A a, b, c : ToSet(<<a, b, c>>) = {a, b, c}
  <2> TAKE a, b, c
  <2>1. DOMAIN <<a, b, c>> = {1, 2, 3}
    OBVIOUS
  <2> QED BY <2>1 DEF ToSet
<1>2. ASSUME NEW s \in Seq(Desc), NEW d \in Desc PROVE ToSet(Append(s, d)) = ToSet(s) \cup {d}
  <2>1. DOMAIN s = 1 .. Len(s) /\ DOMAIN Append(s, d) = 1 .. Len(s) + 1 /\ Len(s) \in Nat
    OBVIOUS
  <2>2. \A i \in 1 .. Len(s) : Append(s, d)[i] = s[i]
    OBVIOUS
  <2>3. Append(s, d)[Len(s) + 1] = d
    OBVIOUS
  <2>4. \A i \in 1 .. Len(s) + 1 : i \in 1 .. Len(s) \/ i = Len(s) + 1
    BY <2>1
  <2>5. ToSet(s) \subseteq ToSet(Append(s, d)) /\ d \in ToSet(Append(s, d))
    BY <2>1, <2>2, <2>3 DEF ToSet
  <2>6. ToSet(Append(s, d)) \subseteq ToSet(s) \cup {d}
    BY <2>1, <2>2, <2>3, <2>4 DEF ToSet
  <2> QED BY <2>5, <2>6
<1>3. \A s \in Seq(Desc), d \in Desc : Append(s, d) \in Seq(Desc)
  OBVIOUS
<1>4. \A s \in Seq(Desc) : ToSet(s) \subseteq Desc
  BY DEF ToSet
<1>5. ToSet(<<>>) = {}
  BY DEF ToSet
<1>6. \A a, b, c : <<a, b, c>>[1] = a
  OBVIOUS
<1> QED BY <1>1, <1>2, <1>3, <1>4, <1>5, <1>6

\* One process has a buffer locked.
LEMMA OneHolder ==
  ASSUME BufferInv, NEW p \in Caller
  PROVE  /\ io[p] # "idle" => buf[p] \in Buf /\ blockno[buf[p]] \in Block
         /\ io[p] = "idle" => buf[p] = 0
         /\ \A q \in Caller : io[p] \in Holding /\ io[q] \in Holding /\ buf[p] = buf[q] => p = q
  BY DEF BufferInv, BufferTypeOK, Referred, Locks

LEMMA Locker ==
  ASSUME BufferInv, NEW i \in Buf, locked[i] # Nothing
  PROVE  locked[i] \in Caller /\ io[locked[i]] \in Holding /\ buf[locked[i]] = i
  BY DEF BufferInv, BufferTypeOK, Locks

\* Who waits for the device has three descriptors, and nobody else has them.
LEMMA OneChain ==
  ASSUME BufferInv, NEW p \in Caller, io[p] \in Waiting
  PROVE  \E a, b, c \in Desc \ free :
           /\ a # b /\ b # c /\ c # a /\ chain[p] = <<a, b, c>> /\ info[a] = buf[p]
           /\ chain[p][1] = a /\ ToSet(chain[p]) = {a, b, c} /\ chain[p] # <<>>
           /\ \A q \in Caller : chain[q] # <<>> /\ chain[q][1] \in {a, b, c} => q = p
<1>1. PICK a, b, c \in Desc \ free : ChainOK(chain[p], info, buf[p], a, b, c)
  BY DEF BufferInv, Chains
<1>2. chain[p] = <<a, b, c>> /\ ToSet(chain[p]) = {a, b, c} /\ chain[p][1] = a /\ chain[p] # <<>>
  BY <1>1, Elements DEF ChainOK
<1>3. ASSUME NEW q \in Caller, chain[q] # <<>>, chain[q][1] \in {a, b, c} PROVE q = p
  <2>1. io[q] \in Waiting
    BY <1>3 DEF BufferInv, Chains
  <2>2. PICK e, f, g \in Desc \ free : ChainOK(chain[q], info, buf[q], e, f, g)
    BY <2>1 DEF BufferInv, Chains
  <2>3. ToSet(chain[q]) = {e, f, g} /\ chain[q][1] = e
    BY <2>2, Elements DEF ChainOK
  <2>4. q # p => ToSet(chain[q]) \cap ToSet(chain[p]) = {}
    BY DEF BufferInv, Chains
  <2> QED BY <1>2, <1>3, <2>3, <2>4
<1> QED BY <1>1, <1>2, <1>3 DEF ChainOK

-----------------------------------------------------------------------------
(* The buffer cache: every step keeps the invariant                        *)

\* What a step leaves alone, if it does not touch these variables.
LEMMA DriverKeeps ==
  ASSUME BufferInv, UNCHANGED <<chain, free, info, avail, used, bdisk>>,
         \A q \in Caller : /\ io[q] \in Waiting \/ io'[q] \in Waiting => io'[q] = io[q] /\ buf'[q] = buf[q]
                           /\ io'[q] = "sleepdesc" => Cardinality(free) < 3
  PROVE  Chains' /\ Rings'
<1>1. \A q \in Caller : (io'[q] \in Waiting) = (io[q] \in Waiting)
  OBVIOUS
<1>2. \A q \in Caller : (io'[q] = "sleepio") = (io[q] = "sleepio")
  BY DEF Waiting
<1>3. \A q \in Caller : io'[q] = "sleepio" => buf'[q] = buf[q]
  BY DEF Waiting
<1>4. ASSUME NEW q \in Caller
      PROVE  IF io'[q] \in Waiting
             THEN \E a, b, c \in Desc \ free : ChainOK(chain[q], info, buf'[q], a, b, c)
             ELSE chain[q] = <<>>
  BY <1>1 DEF BufferInv, Chains
<1>5. Chains'
  BY <1>4 DEF BufferInv, Chains
<1>6. \A d \in avail \cup ToSet(used) : \E q \in Caller : io'[q] = "sleepio" /\ chain[q][1] = d
  BY <1>2 DEF BufferInv, Rings
<1>7. \A i \in Buf : bdisk[i] <=> \E q \in Caller : io'[q] = "sleepio" /\ buf'[q] = i
  BY <1>2, <1>3 DEF BufferInv, Rings
<1>8. \A q \in Caller : io'[q] = "sleepio" => chain[q][1] \in avail \cup ToSet(used)
  BY <1>2 DEF BufferInv, Rings
<1> QED BY <1>5, <1>6, <1>7, <1>8 DEF BufferInv, Rings

\* Process p gets a reference to buffer i, or gives one back.
LEMMA OneRefers ==
  ASSUME BufferInv, NEW p \in Caller, NEW i \in Buf, NEW v \in Buf \cup {0},
         buf' = [buf EXCEPT ![p] = v]
  PROVE  /\ IsFiniteSet(Referring(i)) /\ Cardinality(Referring(i)) \in Nat
         /\ buf[p] # i /\ v = i => Cardinality(Referring(i)') = Cardinality(Referring(i)) + 1
         /\ buf[p] = i /\ v # i => /\ Cardinality(Referring(i)') = Cardinality(Referring(i)) - 1
                                   /\ Cardinality(Referring(i)) > 0
         /\ buf[p] # i /\ v # i => Cardinality(Referring(i)') = Cardinality(Referring(i))
<1>1. Referring(i) \subseteq Caller /\ Referring(i)' \subseteq Caller
  BY DEF Referring
<1>2. IsFiniteSet(Referring(i)) /\ IsFiniteSet(Referring(i)')
  BY <1>1, BufferNumbers, FS_Subset
<1>3. Referring(i) \ {p} = Referring(i)' \ {p}
  BY DEF Referring, BufferInv, BufferTypeOK
<1>4. /\ Cardinality(Referring(i)') = Cardinality(Referring(i)) + (One(p \in Referring(i)') - One(p \in Referring(i)))
      /\ Cardinality(Referring(i)) \in Nat
  BY <1>2, <1>3, OneElement
<1>5. (p \in Referring(i) <=> buf[p] = i) /\ (p \in Referring(i)' <=> v = i)
  BY DEF Referring, BufferInv, BufferTypeOK
<1>6. buf[p] = i => Cardinality(Referring(i)) > 0
  <2>1. Cardinality(Referring(i)) = 0 => Referring(i) = {}
    BY <1>2, FS_EmptySet
  <2> QED BY <1>4, <1>5, <2>1
<1>7. /\ buf[p] = i => One(p \in Referring(i)) = 1
      /\ buf[p] # i => One(p \in Referring(i)) = 0
      /\ v = i => One(p \in Referring(i)') = 1
      /\ v # i => One(p \in Referring(i)') = 0
  BY <1>5 DEF One
<1> QED BY <1>2, <1>4, <1>6, <1>7

LEMMA KeepsCached ==
  ASSUME BufferInv, NEW p \in Caller, NEW b \in Block, BgetCached(p, b)
  PROVE  BufferInv'
<1>1. PICK i \in Buf : /\ blockno[i] = b /\ refcnt' = [refcnt EXCEPT ![i] = @ + 1]
                       /\ buf' = [buf EXCEPT ![p] = i]
  BY DEF BgetCached
<1>2. /\ io[p] = "idle" /\ io' = [io EXCEPT ![p] = "lock"] /\ buf[p] = 0
      /\ UNCHANGED <<blockno, valid, lru, bdata, locked, bdisk, write, chain, free, info, avail, used, disk>>
  BY OneHolder DEF BgetCached, Go, driver
<1>3. BufferTypeOK'
  BY <1>1, <1>2 DEF BufferInv, BufferTypeOK, Label
<1>4. OneBuffer'
  BY <1>2 DEF BufferInv, OneBuffer
<1>5. \A q \in Caller \ {p} : io'[q] = io[q] /\ buf'[q] = buf[q]
  BY <1>1, <1>2 DEF BufferInv, BufferTypeOK
<1>6. io'[p] = "lock" /\ buf'[p] = i /\ blockno[i] # Nothing
  BY <1>1, <1>2, BufferNumbers DEF BufferInv, BufferTypeOK
<1>7. Referred'
  <2>1. ASSUME NEW j \in Buf PROVE refcnt'[j] = Cardinality(Referring(j)')
    <3>1. refcnt[j] = Cardinality(Referring(j)) /\ refcnt \in [Buf -> Nat]
      BY DEF BufferInv, Referred, BufferTypeOK
    <3>2. CASE j = i
      <4>1. Cardinality(Referring(j)') = Cardinality(Referring(j)) + 1
        BY <1>1, <1>2, <3>2, OneRefers, BufferNumbers
      <4> QED BY <1>1, <3>1, <3>2, <4>1
    <3>3. CASE j # i
      <4>1. Cardinality(Referring(j)') = Cardinality(Referring(j))
        BY <1>1, <1>2, <3>3, OneRefers, BufferNumbers
      <4> QED BY <1>1, <3>1, <3>3, <4>1
    <3> QED BY <3>2, <3>3
  <2>2. ASSUME NEW q \in Caller
        PROVE  (io'[q] = "idle" <=> buf'[q] = 0) /\ (buf'[q] # 0 => blockno'[buf'[q]] # Nothing)
    <3>1. CASE q = p
      BY <1>2, <1>6, <3>1, BufferNumbers
    <3>2. CASE q # p
      BY <1>2, <1>5, <3>2 DEF BufferInv, Referred
    <3> QED BY <3>1, <3>2
  <2> QED BY <2>1, <2>2 DEF Referred
<1>8. Locks'
  <2>1. ASSUME NEW j \in Buf, locked[j] # Nothing PROVE locked[j] \in Caller \ {p}
    BY <1>2, <2>1, Locker DEF Holding
  <2> QED BY <1>2, <1>5, <1>6, <2>1 DEF BufferInv, Locks, Holding
<1>9. Requests'
  BY <1>2, <1>5, <1>6 DEF BufferInv, Requests, Asking, Holding
<1>10. Chains' /\ Rings'
  <2>1. \A q \in Caller : io[q] \in Waiting \/ io'[q] \in Waiting => io'[q] = io[q] /\ buf'[q] = buf[q]
    BY <1>2, <1>5, <1>6 DEF Waiting
  <2>2. \A q \in Caller : io'[q] = "sleepdesc" => Cardinality(free) < 3
    BY <1>5, <1>6 DEF BufferInv, Chains
  <2> QED BY <1>2, <2>1, <2>2, DriverKeeps
<1>11. OnDisk'
  <2>1. \A q \in Caller : Served(q)' => Served(q) /\ buf'[q] = buf[q]
    BY <1>2, <1>5, <1>6 DEF Served, Waiting
  <2>2. \A j \in Buf : Settled(j)' => Settled(j)
    BY <1>2, <1>5, <1>6 DEF Settled, BufferInv, Locks, Holding, BufferTypeOK
  <2> QED BY <1>2, <2>1, <2>2 DEF BufferInv, OnDisk
<1> QED BY <1>3, <1>4, <1>7, <1>8, <1>9, <1>10, <1>11 DEF BufferInv

LEMMA KeepsRecycle ==
  ASSUME BufferInv, NEW p \in Caller, NEW b \in Block, BgetRecycle(p, b)
  PROVE  BufferInv'
<1>1. PICK k \in Unused : /\ blockno' = [blockno EXCEPT ![lru[k]] = b]
                          /\ valid' = [valid EXCEPT ![lru[k]] = FALSE]
                          /\ refcnt' = [refcnt EXCEPT ![lru[k]] = 1]
                          /\ buf' = [buf EXCEPT ![p] = lru[k]]
  BY DEF BgetRecycle
<1> DEFINE i == lru[k]
<1>2. /\ io[p] = "idle" /\ io' = [io EXCEPT ![p] = "lock"] /\ buf[p] = 0
      /\ \A j \in Buf : blockno[j] # b
      /\ UNCHANGED <<lru, bdata, locked, bdisk, write, chain, free, info, avail, used, disk>>
  BY OneHolder DEF BgetRecycle, Go, driver
<1>3. i \in Buf /\ refcnt[i] = 0
  BY <1>1 DEF Unused, BufferInv, BufferTypeOK
<1> HIDE DEF i
<1>4. /\ blockno' = [blockno EXCEPT ![i] = b] /\ valid' = [valid EXCEPT ![i] = FALSE]
      /\ refcnt' = [refcnt EXCEPT ![i] = 1] /\ buf' = [buf EXCEPT ![p] = i]
  BY <1>1 DEF i
<1>5. \A q \in Caller : buf[q] # i
  <2>1. Referring(i) \subseteq Caller
    BY DEF Referring
  <2>2. Cardinality(Referring(i)) = 0 /\ IsFiniteSet(Referring(i))
    BY <1>3, <2>1, BufferNumbers, FS_Subset DEF BufferInv, Referred
  <2>3. Referring(i) = {}
    BY <2>2, FS_EmptySet
  <2> QED BY <2>3 DEF Referring
<1>6. BufferTypeOK'
  BY <1>2, <1>3, <1>4 DEF BufferInv, BufferTypeOK, Label
<1>7. /\ \A q \in Caller \ {p} : io'[q] = io[q] /\ buf'[q] = buf[q] /\ buf[q] # i
      /\ io'[p] = "lock" /\ buf'[p] = i
      /\ \A j \in Buf \ {i} : blockno'[j] = blockno[j] /\ valid'[j] = valid[j] /\ refcnt'[j] = refcnt[j]
      /\ blockno'[i] = b /\ valid'[i] = FALSE /\ refcnt'[i] = 1
      /\ b # Nothing
  BY <1>2, <1>3, <1>4, <1>5, BufferNumbers DEF BufferInv, BufferTypeOK
<1>8. OneBuffer'
  BY <1>2, <1>3, <1>7 DEF BufferInv, OneBuffer
<1>9. Referred'
  <2>1. ASSUME NEW j \in Buf PROVE refcnt'[j] = Cardinality(Referring(j)')
    <3>1. refcnt[j] = Cardinality(Referring(j)) /\ refcnt \in [Buf -> Nat]
      BY DEF BufferInv, Referred, BufferTypeOK
    <3>2. CASE j = i
      <4>1. Cardinality(Referring(j)') = Cardinality(Referring(j)) + 1
        BY <1>2, <1>3, <1>4, <1>5, <3>2, OneRefers
      <4> QED BY <1>3, <1>7, <3>1, <3>2, <4>1
    <3>3. CASE j # i
      <4>1. Cardinality(Referring(j)') = Cardinality(Referring(j))
        BY <1>2, <1>3, <1>4, <3>3, OneRefers, BufferNumbers
      <4> QED BY <1>7, <3>1, <3>3, <4>1
    <3> QED BY <3>2, <3>3
  <2>2. ASSUME NEW q \in Caller
        PROVE  (io'[q] = "idle" <=> buf'[q] = 0) /\ (buf'[q] # 0 => blockno'[buf'[q]] # Nothing)
    <3>1. CASE q = p
      BY <1>3, <1>7, <3>1, BufferNumbers
    <3>2. CASE q # p
      BY <1>7, <3>2 DEF BufferInv, Referred, BufferTypeOK
    <3> QED BY <3>1, <3>2
  <2> QED BY <2>1, <2>2 DEF Referred
<1>10. \A j \in Buf : locked[j] # Nothing => locked[j] \in Caller \ {p} /\ j # i
  BY <1>2, <1>5, Locker DEF Holding
<1>11. Locks'
  BY <1>2, <1>7, <1>10 DEF BufferInv, Locks, Holding
<1>12. \A q \in Caller \ {p} : io[q] # "idle" => buf[q] \in Buf \ {i}
  BY <1>7, OneHolder
<1>13. Requests'
  <2>1. ASSUME NEW q \in Caller
        PROVE  /\ io'[q] = "have" => valid'[buf'[q]]
               /\ io'[q] \in Asking => valid'[buf'[q]] = write'[q]
               /\ write'[q] => io'[q] \in Asking
    <3>1. CASE q = p
      BY <1>2, <1>7, <3>1 DEF BufferInv, Requests, Asking, Holding
    <3>2. CASE q # p
      BY <1>2, <1>7, <1>12, <3>2 DEF BufferInv, Requests, Asking, Holding
    <3> QED BY <3>1, <3>2
  <2> QED BY <2>1 DEF Requests
<1>14. Chains' /\ Rings'
  <2>1. \A q \in Caller : io[q] \in Waiting \/ io'[q] \in Waiting => io'[q] = io[q] /\ buf'[q] = buf[q]
    BY <1>2, <1>7 DEF Waiting
  <2>2. \A q \in Caller : io'[q] = "sleepdesc" => Cardinality(free) < 3
    BY <1>7 DEF BufferInv, Chains
  <2> QED BY <1>2, <2>1, <2>2, DriverKeeps
<1>15. OnDisk'
  <2>1. \A q \in Caller : Served(q)' => Served(q) /\ buf'[q] = buf[q] /\ buf[q] \in Buf \ {i}
    BY <1>2, <1>7, <1>12 DEF Served, Waiting
  <2>2. \A j \in Buf : Settled(j)' => Settled(j) /\ j # i
    BY <1>2, <1>7, <1>10 DEF Settled
  <2> QED BY <1>2, <1>7, <2>1, <2>2 DEF BufferInv, OnDisk
<1> QED BY <1>6, <1>8, <1>9, <1>11, <1>13, <1>14, <1>15 DEF BufferInv

\* A step that changes nobody's buffer and no count.
LEMMA KeepsReferred ==
  ASSUME BufferInv, UNCHANGED <<blockno, refcnt, lru, buf>>,
         \A i \in Buf : valid'[i] => valid[i] \/ blockno[i] # Nothing,
         \A q \in Caller : io'[q] = "idle" <=> io[q] = "idle"
  PROVE  OneBuffer' /\ Referred'
<1>1. \A i \in Buf : Referring(i)' = Referring(i)
  BY DEF Referring
<1>2. OneBuffer'
  BY DEF BufferInv, OneBuffer
<1>3. Referred'
  BY <1>1 DEF BufferInv, Referred
<1> QED BY <1>2, <1>3

LEMMA KeepsAcquire ==
  ASSUME BufferInv, NEW p \in Caller, AcquireSleep(p)
  PROVE  BufferInv'
<1> DEFINE i == buf[p]
<1>1. /\ io[p] = "lock" /\ i \in Buf
      /\ UNCHANGED <<blockno, valid, refcnt, lru, bdata, bdisk, buf, write, chain, free, info, avail, used, disk>>
  BY OneHolder DEF AcquireSleep, cache, driver
<1>2. \/ locked[i] # Nothing /\ io' = [io EXCEPT ![p] = "sleeplock"] /\ locked' = locked
      \/ /\ locked[i] = Nothing /\ locked' = [locked EXCEPT ![i] = p]
         /\ io' = [io EXCEPT ![p] = IF valid[i] THEN "have" ELSE "rw"]
  BY DEF AcquireSleep, Go
<1> HIDE DEF i
<1>3. \E l \in {"sleeplock", "have", "rw"} : io' = [io EXCEPT ![p] = l]
  BY <1>2
<1>4. BufferTypeOK'
  <2>1. locked' \in [Buf -> Caller \cup {Nothing}]
    BY <1>1, <1>2 DEF BufferInv, BufferTypeOK
  <2>2. io' \in [Caller -> Label]
    BY <1>3 DEF BufferInv, BufferTypeOK, Label
  <2> QED BY <1>1, <2>1, <2>2 DEF BufferInv, BufferTypeOK
<1>5. /\ \A q \in Caller \ {p} : io'[q] = io[q]
      /\ io'[p] \in {"sleeplock", "have", "rw"}
      /\ \A j \in Buf \ {i} : locked'[j] = locked[j]
      /\ locked[i] # Nothing => io'[p] = "sleeplock" /\ locked'[i] = locked[i]
      /\ locked[i] = Nothing => /\ locked'[i] = p
                                /\ valid[i] => io'[p] = "have"
                                /\ ~valid[i] => io'[p] = "rw"
      /\ p # Nothing
  BY <1>1, <1>2, <1>3, BufferNumbers DEF BufferInv, BufferTypeOK
<1>6. OneBuffer' /\ Referred'
  BY <1>1, <1>5, KeepsReferred
<1>7. \A j \in Buf : locked[j] # Nothing => locked[j] \in Caller \ {p}
  BY <1>1, Locker DEF Holding
<1>8. Locks'
  <2>1. ASSUME NEW q \in Caller
        PROVE  /\ io'[q] \in Holding => locked'[buf'[q]] = q
               /\ io'[q] = "sleeplock" => locked'[buf'[q]] # Nothing
    <3>1. CASE q = p
      BY <1>1, <1>5, <3>1 DEF i, Holding
    <3>2. CASE q # p
      <4>1. io[q] \in Holding => locked[buf[q]] = q /\ buf[q] \in Buf
        BY OneHolder DEF BufferInv, Locks, Holding
      <4>2. io[q] = "sleeplock" => locked[buf[q]] # Nothing /\ buf[q] \in Buf
        BY OneHolder DEF BufferInv, Locks
      <4>3. q # Nothing
        BY BufferNumbers
      <4> QED BY <1>1, <1>5, <3>2, <4>1, <4>2, <4>3
    <3> QED BY <3>1, <3>2
  <2>2. ASSUME NEW j \in Buf, locked'[j] # Nothing
        PROVE  io'[locked'[j]] \in Holding /\ buf'[locked'[j]] = j
    <3>1. CASE locked[j] # Nothing
      BY <1>1, <1>5, <1>7, <3>1, Locker
    <3>2. CASE locked[j] = Nothing
      BY <1>1, <1>5, <2>2, <3>2 DEF i, Holding
    <3> QED BY <3>1, <3>2
  <2> QED BY <2>1, <2>2 DEF Locks
<1>9. Requests'
  <2>1. write[p] = FALSE /\ valid[i] \in BOOLEAN
    BY <1>1 DEF BufferInv, BufferTypeOK, Requests, Asking, Holding
  <2>2. ASSUME NEW q \in Caller
        PROVE  /\ io'[q] = "have" => valid'[buf'[q]]
               /\ io'[q] \in Asking => valid'[buf'[q]] = write'[q]
               /\ write'[q] => io'[q] \in Asking
    <3>1. CASE q = p
      BY <1>1, <1>5, <2>1, <3>1 DEF Asking, Holding, i
    <3>2. CASE q # p
      BY <1>1, <1>5, <3>2 DEF BufferInv, Requests
    <3> QED BY <3>1, <3>2
  <2> QED BY <2>2 DEF Requests
<1>10. Chains' /\ Rings'
  <2>1. \A q \in Caller : io[q] \in Waiting \/ io'[q] \in Waiting => io'[q] = io[q] /\ buf'[q] = buf[q]
    BY <1>1, <1>5 DEF Waiting
  <2>2. \A q \in Caller : io'[q] = "sleepdesc" => Cardinality(free) < 3
    BY <1>5 DEF BufferInv, Chains
  <2> QED BY <1>1, <2>1, <2>2, DriverKeeps
<1>11. OnDisk'
  <2>1. \A q \in Caller : Served(q)' => Served(q)
    BY <1>1, <1>5 DEF Served, Waiting
  <2>2. \A j \in Buf : Settled(j)' => Settled(j)
    BY <1>1, <1>5, <1>7 DEF Settled
  <2> QED BY <1>1, <2>1, <2>2 DEF BufferInv, OnDisk
<1> QED BY <1>4, <1>6, <1>8, <1>9, <1>10, <1>11 DEF BufferInv

LEMMA KeepsBwrite ==
  ASSUME BufferInv, NEW p \in Caller, NEW v \in Content, Bwrite(p, v)
  PROVE  BufferInv'
<1> DEFINE i == buf[p]
<1>1. /\ io[p] = "have" /\ i \in Buf
      /\ bdata' = [bdata EXCEPT ![i] = v] /\ write' = [write EXCEPT ![p] = TRUE]
      /\ io' = [io EXCEPT ![p] = "rw"]
      /\ UNCHANGED <<blockno, valid, refcnt, lru, locked, bdisk, buf, chain, free, info, avail, used, disk>>
  BY OneHolder DEF Bwrite, Go, cache, driver
<1>2. locked[i] = p /\ valid[i] = TRUE
  BY <1>1 DEF BufferInv, BufferTypeOK, Locks, Requests, Holding
<1> HIDE DEF i
<1>3. BufferTypeOK'
  BY <1>1 DEF BufferInv, BufferTypeOK, Label
<1>4. /\ \A q \in Caller \ {p} : io'[q] = io[q] /\ write'[q] = write[q]
      /\ io'[p] = "rw" /\ write'[p] = TRUE
      /\ \A j \in Buf \ {i} : bdata'[j] = bdata[j]
      /\ p # Nothing
  BY <1>1, BufferNumbers DEF BufferInv, BufferTypeOK
<1>5. OneBuffer' /\ Referred'
  BY <1>1, <1>4, KeepsReferred
<1>6. Locks'
  <2>1. \A q \in Caller : (io'[q] \in Holding) = (io[q] \in Holding)
    BY <1>1, <1>4 DEF Holding
  <2>2. \A q \in Caller : io'[q] = "sleeplock" => io[q] = "sleeplock"
    BY <1>4
  <2>3. \A j \in Buf : locked[j] # Nothing => locked[j] \in Caller
    BY Locker
  <2> QED BY <1>1, <2>1, <2>2, <2>3 DEF BufferInv, Locks
<1>7. Requests'
  <2>1. ASSUME NEW q \in Caller
        PROVE  /\ io'[q] = "have" => valid'[buf'[q]]
               /\ io'[q] \in Asking => valid'[buf'[q]] = write'[q]
               /\ write'[q] => io'[q] \in Asking
    <3>1. CASE q = p
      BY <1>1, <1>2, <1>4, <3>1 DEF Asking, Holding, i
    <3>2. CASE q # p
      BY <1>1, <1>4, <3>2 DEF BufferInv, Requests
    <3> QED BY <3>1, <3>2
  <2> QED BY <2>1 DEF Requests
<1>8. Chains' /\ Rings'
  <2>1. \A q \in Caller : io[q] \in Waiting \/ io'[q] \in Waiting => io'[q] = io[q] /\ buf'[q] = buf[q]
    BY <1>1, <1>4 DEF Waiting
  <2>2. \A q \in Caller : io'[q] = "sleepdesc" => Cardinality(free) < 3
    BY <1>4 DEF BufferInv, Chains
  <2> QED BY <1>1, <2>1, <2>2, DriverKeeps
<1>9. OnDisk'
  <2>1. \A q \in Caller : Served(q)' => Served(q) /\ buf[q] \in Buf \ {i}
    <3>1. ASSUME NEW q \in Caller, Served(q)' PROVE Served(q) /\ buf[q] \in Buf \ {i}
      <4>1. Served(q) /\ q # p /\ io[q] \in Holding /\ io[q] # "idle"
        BY <1>1, <1>4, <3>1 DEF Served, Waiting, Holding
      <4>2. io[p] \in Holding
        BY <1>1 DEF Holding
      <4> QED BY <4>1, <4>2, OneHolder DEF i
    <3> QED BY <3>1
  <2>2. \A j \in Buf : Settled(j)' => Settled(j) /\ j # i
    <3>1. \A j \in Buf : locked[j] # Nothing => locked[j] \in Caller
      BY Locker
    <3> QED BY <1>1, <1>2, <1>4, <3>1 DEF Settled
  <2> QED BY <1>1, <1>4, <2>1, <2>2 DEF BufferInv, OnDisk
<1> QED BY <1>3, <1>5, <1>6, <1>7, <1>8, <1>9 DEF BufferInv

LEMMA KeepsRelease ==
  ASSUME BufferInv, NEW p \in Caller, ReleaseSleep(p)
  PROVE  BufferInv'
<1> DEFINE i == buf[p]
<1>1. /\ io[p] = "have" /\ i \in Buf
      /\ locked' = [locked EXCEPT ![i] = Nothing]
      /\ io' = [q \in Caller |-> CASE q = p -> "release"
                                   [] q # p /\ io[q] = "sleeplock" /\ buf[q] = buf[p] -> "lock"
                                   [] OTHER -> io[q]]
      /\ UNCHANGED <<blockno, valid, refcnt, lru, bdata, bdisk, buf, write, chain, free, info, avail, used, disk>>
  BY OneHolder DEF ReleaseSleep, cache, driver
<1>2. locked[i] = p /\ valid[i] = TRUE /\ p # Nothing
  BY <1>1, BufferNumbers DEF BufferInv, BufferTypeOK, Locks, Requests, Holding
<1>3. /\ io'[p] = "release"
      /\ \A q \in Caller \ {p} : \/ io'[q] = io[q] /\ (io[q] = "sleeplock" => buf[q] # i)
                                 \/ io[q] = "sleeplock" /\ io'[q] = "lock"
  BY <1>1 DEF i
<1> HIDE DEF i
<1>4. io' \in [Caller -> Label]
  <2>1. \A q \in Caller : io'[q] \in Label
    BY <1>3 DEF BufferInv, BufferTypeOK, Label
  <2> QED BY <1>1, <2>1
<1>5. BufferTypeOK'
  BY <1>1, <1>4 DEF BufferInv, BufferTypeOK
<1>6. locked'[i] = Nothing /\ \A j \in Buf \ {i} : locked'[j] = locked[j]
  BY <1>1 DEF BufferInv, BufferTypeOK
<1>7. OneBuffer' /\ Referred'
  <2>1. \A q \in Caller : io'[q] = "idle" <=> io[q] = "idle"
    BY <1>1, <1>3
  <2> QED BY <1>1, <2>1, KeepsReferred
<1>8. \A q \in Caller : io'[q] \in Holding <=> q # p /\ io[q] \in Holding
  BY <1>3 DEF Holding
<1>9. \A q \in Caller \ {p} : io[q] \in Holding => buf[q] \in Buf \ {i}
  <2>1. io[p] \in Holding
    BY <1>1 DEF Holding
  <2> QED BY <2>1, OneHolder DEF i, Holding
<1>10. \A j \in Buf \ {i} : locked[j] # Nothing => locked[j] \in Caller \ {p}
  BY Locker DEF i
<1>11. Locks'
  <2>1. \A q \in Caller : io'[q] \in Holding => locked'[buf'[q]] = q
    BY <1>1, <1>6, <1>8, <1>9 DEF BufferInv, Locks
  <2>2. ASSUME NEW q \in Caller, io'[q] = "sleeplock" PROVE locked'[buf'[q]] # Nothing
    <3>1. q # p /\ io[q] = "sleeplock" /\ buf[q] \in Buf \ {i}
      BY <1>3, <2>2, OneHolder
    <3> QED BY <1>1, <1>6, <3>1 DEF BufferInv, Locks
  <2>3. \A j \in Buf : locked'[j] # Nothing => io'[locked'[j]] \in Holding /\ buf'[locked'[j]] = j
    BY <1>1, <1>6, <1>8, <1>10, Locker
  <2> QED BY <2>1, <2>2, <2>3 DEF Locks
<1>12. Requests'
  <2>1. ASSUME NEW q \in Caller
        PROVE  /\ io'[q] = "have" => valid'[buf'[q]]
               /\ io'[q] \in Asking => valid'[buf'[q]] = write'[q]
               /\ write'[q] => io'[q] \in Asking
    <3>1. CASE q = p
      BY <1>1, <1>3, <3>1 DEF BufferInv, Requests, Asking, Holding
    <3>2. CASE q # p
      BY <1>1, <1>3, <3>2 DEF BufferInv, Requests, Asking, Holding
    <3> QED BY <3>1, <3>2
  <2> QED BY <2>1 DEF Requests
<1>13. Chains' /\ Rings'
  <2>1. \A q \in Caller : io[q] \in Waiting \/ io'[q] \in Waiting => io'[q] = io[q] /\ buf'[q] = buf[q]
    BY <1>1, <1>3 DEF Waiting
  <2>2. \A q \in Caller : io'[q] = "sleepdesc" => Cardinality(free) < 3
    BY <1>3 DEF BufferInv, Chains
  <2> QED BY <1>1, <2>1, <2>2, DriverKeeps
<1>14. OnDisk'
  <2>1. \A q \in Caller : Served(q)' => Served(q)
    BY <1>1, <1>3 DEF Served, Waiting
  <2>2. ASSUME NEW j \in Buf, Settled(j)' PROVE Settled(j)
    <3>1. CASE j = i
      BY <1>1, <1>2, <3>1 DEF Settled
    <3>2. CASE j # i
      BY <1>1, <1>3, <1>6, <1>10, <2>2, <3>2 DEF Settled
    <3> QED BY <3>1, <3>2
  <2> QED BY <1>1, <2>1, <2>2 DEF BufferInv, OnDisk
<1> QED BY <1>5, <1>7, <1>11, <1>12, <1>13, <1>14 DEF BufferInv

LEMMA HeadKeeps ==
  ASSUME NEW k \in Buf, lru \in [Buf -> Buf], \A i \in Buf : \E j \in Buf : lru[j] = i
  PROVE  ToHead(lru, k) \in [Buf -> Buf] /\ \A i \in Buf : \E j \in Buf : ToHead(lru, k)[j] = i
<1> DEFINE from(j) == CASE j = 1 -> k [] j \in 2 .. k -> j - 1 [] OTHER -> j
<1>1. ToHead(lru, k) = [j \in Buf |-> lru[from(j)]]
  BY DEF ToHead
<1>2. NBUF \in Nat /\ k \in 1 .. NBUF /\ Buf = 1 .. NBUF
  BY BufferNumbers DEF Buf
<1>3. \A j \in 1 .. NBUF : from(j) \in 1 .. NBUF
  BY <1>2
<1>4. ASSUME NEW m \in 1 .. NBUF PROVE \E j \in 1 .. NBUF : from(j) = m
  <2>1. CASE m = k
    BY <1>2, <2>1
  <2>2. CASE m < k
    <3>1. m + 1 \in 1 .. NBUF /\ m + 1 \in 2 .. k /\ m + 1 # 1 /\ (m + 1) - 1 = m
      BY <1>2, <2>2
    <3>2. from(m + 1) = (m + 1) - 1
      BY <3>1
    <3> QED BY <3>1, <3>2
  <2>3. CASE m > k
    <3>1. from(m) = m
      BY <1>2, <2>3
    <3> QED BY <3>1
  <2> QED BY <1>2, <2>1, <2>2, <2>3
<1> HIDE DEF from
<1>5. ASSUME NEW i \in Buf PROVE \E j \in Buf : ToHead(lru, k)[j] = i
  <2>1. PICK m \in Buf : lru[m] = i
    OBVIOUS
  <2>2. PICK j \in Buf : from(j) = m
    BY <1>2, <1>4
  <2> QED BY <1>1, <2>1, <2>2
<1>6. ToHead(lru, k) \in [Buf -> Buf]
  BY <1>1, <1>2, <1>3
<1> QED BY <1>5, <1>6

LEMMA KeepsBrelse ==
  ASSUME BufferInv, NEW p \in Caller, Brelse(p)
  PROVE  BufferInv'
<1> DEFINE i == buf[p]
<1>1. /\ io[p] = "release" /\ i \in Buf
      /\ refcnt' = [refcnt EXCEPT ![i] = @ - 1]
      /\ buf' = [buf EXCEPT ![p] = 0] /\ io' = [io EXCEPT ![p] = "idle"]
      /\ UNCHANGED <<blockno, valid, bdata, locked, bdisk, write, chain, free, info, avail, used, disk>>
  BY OneHolder DEF Brelse, Go, driver
<1>2. PICK k \in Buf : lru' = lru \/ lru' = ToHead(lru, k)
  BY DEF Brelse, BufferInv, BufferTypeOK
<1> HIDE DEF i
<1>3. lru' \in [Buf -> Buf] /\ \A j \in Buf : \E m \in Buf : lru'[m] = j
  <2>1. lru \in [Buf -> Buf] /\ \A j \in Buf : \E m \in Buf : lru[m] = j
    BY DEF BufferInv, BufferTypeOK, OneBuffer
  <2>2. ToHead(lru, k) \in [Buf -> Buf] /\ \A j \in Buf : \E m \in Buf : ToHead(lru, k)[m] = j
    BY <2>1, HeadKeeps
  <2> QED BY <1>2, <2>1, <2>2
<1>4. /\ \A q \in Caller \ {p} : io'[q] = io[q] /\ buf'[q] = buf[q]
      /\ io'[p] = "idle" /\ buf'[p] = 0 /\ p # Nothing
  BY <1>1, BufferNumbers DEF BufferInv, BufferTypeOK
<1>5. ASSUME NEW j \in Buf PROVE refcnt'[j] = Cardinality(Referring(j)') /\ refcnt'[j] \in Nat
  <2>1. refcnt[j] = Cardinality(Referring(j)) /\ refcnt \in [Buf -> Nat]
    BY DEF BufferInv, Referred, BufferTypeOK
  <2>2. 0 # j /\ 0 # i /\ 0 \in Buf \cup {0}
    BY <1>1, BufferNumbers
  <2>3. CASE j = i
    <3>1. Cardinality(Referring(j)') = Cardinality(Referring(j)) - 1 /\ Cardinality(Referring(j)) > 0
      BY <1>1, <2>2, <2>3, OneRefers DEF i
    <3>2. refcnt'[j] = refcnt[j] - 1 /\ refcnt[j] \in Nat
      BY <1>1, <2>1, <2>3
    <3> QED BY <2>1, <3>1, <3>2
  <2>4. CASE j # i
    <3>1. Cardinality(Referring(j)') = Cardinality(Referring(j))
      BY <1>1, <2>2, <2>4, OneRefers DEF i
    <3> QED BY <1>1, <2>1, <2>4, <3>1
  <2> QED BY <2>3, <2>4
<1>6. BufferTypeOK'
  <2>1. refcnt' \in [Buf -> Nat]
    BY <1>1, <1>5 DEF BufferInv, BufferTypeOK
  <2> QED BY <1>1, <1>3, <2>1 DEF BufferInv, BufferTypeOK, Label
<1>7. OneBuffer'
  BY <1>1, <1>3 DEF BufferInv, OneBuffer
<1>8. Referred'
  <2>1. ASSUME NEW q \in Caller
        PROVE  (io'[q] = "idle" <=> buf'[q] = 0) /\ (buf'[q] # 0 => blockno'[buf'[q]] # Nothing)
    <3>1. CASE q = p
      BY <1>4, <3>1
    <3>2. CASE q # p
      BY <1>1, <1>4, <3>2 DEF BufferInv, Referred
    <3> QED BY <3>1, <3>2
  <2> QED BY <1>5, <2>1 DEF Referred
<1>9. Locks'
  <2>1. ASSUME NEW j \in Buf, locked[j] # Nothing PROVE locked[j] \in Caller \ {p}
    BY <1>1, <2>1, Locker DEF Holding
  <2> QED BY <1>1, <1>4, <2>1 DEF BufferInv, Locks, Holding
<1>10. Requests'
  BY <1>1, <1>4 DEF BufferInv, Requests, Asking, Holding
<1>11. Chains' /\ Rings'
  <2>1. \A q \in Caller : io[q] \in Waiting \/ io'[q] \in Waiting => io'[q] = io[q] /\ buf'[q] = buf[q]
    BY <1>1, <1>4 DEF Waiting
  <2>2. \A q \in Caller : io'[q] = "sleepdesc" => Cardinality(free) < 3
    BY <1>4 DEF BufferInv, Chains
  <2> QED BY <1>1, <2>1, <2>2, DriverKeeps
<1>12. OnDisk'
  <2>1. \A q \in Caller : Served(q)' => Served(q) /\ buf'[q] = buf[q]
    BY <1>1, <1>4 DEF Served, Waiting
  <2>2. ASSUME NEW j \in Buf, Settled(j)' PROVE Settled(j)
    <3>1. locked[j] # Nothing => locked[j] \in Caller \ {p}
      BY <1>1, Locker DEF Holding
    <3> QED BY <1>1, <1>4, <2>2, <3>1 DEF Settled
  <2> QED BY <1>1, <2>1, <2>2 DEF BufferInv, OnDisk
<1> QED BY <1>6, <1>7, <1>8, <1>9, <1>10, <1>11, <1>12 DEF BufferInv

LEMMA ChainsBusy ==
  ASSUME BufferInv, NEW p \in Caller
  PROVE  /\ ToSet(chain[p]) \subseteq Desc \ free
         /\ io[p] \notin Waiting => chain[p] = <<>> /\ ToSet(chain[p]) = {}
<1>1. CASE io[p] \in Waiting
  <2>1. PICK a, b, c \in Desc \ free : ChainOK(chain[p], info, buf[p], a, b, c)
    BY <1>1 DEF BufferInv, Chains
  <2>2. ToSet(chain[p]) = {a, b, c}
    BY <2>1, Elements DEF ChainOK
  <2> QED BY <1>1, <2>1, <2>2
<1>2. CASE io[p] \notin Waiting
  BY <1>2, Elements DEF BufferInv, Chains
<1> QED BY <1>1, <1>2

\* A head in a ring is that of the process that waits for it.
LEMMA Heads ==
  ASSUME BufferInv, NEW d \in avail \cup ToSet(used)
  PROVE  \E p \in Caller : /\ io[p] = "sleepio" /\ chain[p][1] = d /\ info[d] = buf[p]
                           /\ d \in Desc \ free /\ chain[p] # <<>>
                           /\ \A q \in Caller : chain[q] # <<>> /\ chain[q][1] = d => q = p
<1>1. PICK p \in Caller : io[p] = "sleepio" /\ chain[p][1] = d
  BY DEF BufferInv, Rings
<1>2. io[p] \in Waiting
  BY <1>1 DEF Waiting
<1> QED BY <1>1, <1>2, OneChain

LEMMA KeepsSubmit ==
  ASSUME BufferInv, NEW p \in Caller, RwSubmit(p)
  PROVE  BufferInv'
<1> DEFINE i == buf[p]
<1>1. PICK a, b, c \in free :
         /\ a < b /\ b < c
         /\ chain' = [chain EXCEPT ![p] = <<a, b, c>>] /\ free' = free \ {a, b, c}
         /\ info' = [info EXCEPT ![a] = i] /\ avail' = avail \cup {a}
  BY DEF RwSubmit
<1>2. /\ io[p] = "rw" /\ i \in Buf
      /\ bdisk' = [bdisk EXCEPT ![i] = TRUE] /\ io' = [io EXCEPT ![p] = "sleepio"]
      /\ UNCHANGED <<blockno, valid, refcnt, lru, bdata, locked, buf, write, used, disk>>
  BY OneHolder DEF RwSubmit, Go, cache
<1>3. a \in Desc /\ b \in Desc /\ c \in Desc /\ a # b /\ b # c /\ c # a
  <2>1. a \in Desc /\ b \in Desc /\ c \in Desc
    BY <1>1 DEF BufferInv, BufferTypeOK
  <2>2. a \in Nat /\ b \in Nat /\ c \in Nat
    BY <2>1, BufferNumbers
  <2> QED BY <1>1, <2>1, <2>2
<1>4. io[p] \in Holding /\ io[p] \notin Waiting /\ io[p] \in Asking
  BY <1>2 DEF Holding, Waiting, Asking
<1> HIDE DEF i
<1>5. <<a, b, c>> \in Seq(Desc)
  BY <1>3
<1>6. BufferTypeOK'
  BY <1>1, <1>2, <1>3, <1>5 DEF BufferInv, BufferTypeOK, Label
<1>7. /\ \A q \in Caller \ {p} : io'[q] = io[q] /\ chain'[q] = chain[q]
      /\ io'[p] = "sleepio" /\ chain'[p] = <<a, b, c>> /\ chain'[p][1] = a /\ ToSet(chain'[p]) = {a, b, c}
      /\ \A d \in Desc \ {a} : info'[d] = info[d]
      /\ info'[a] = i
      /\ bdisk'[i] = TRUE /\ \A j \in Buf \ {i} : bdisk'[j] = bdisk[j]
  BY <1>1, <1>2, <1>3, Elements DEF BufferInv, BufferTypeOK
<1>8. OneBuffer' /\ Referred'
  BY <1>2, <1>7, KeepsReferred
<1>9. \A q \in Caller : /\ (io'[q] \in Holding) = (io[q] \in Holding)
                        /\ (io'[q] \in Asking) = (io[q] \in Asking)
                        /\ (io'[q] = "have") = (io[q] = "have")
                        /\ (io'[q] = "sleeplock") = (io[q] = "sleeplock")
  BY <1>2, <1>7 DEF Holding, Asking
<1>10. Locks'
  <2>1. \A j \in Buf : locked[j] # Nothing => locked[j] \in Caller
    BY Locker
  <2> QED BY <1>2, <1>9, <2>1 DEF BufferInv, Locks
<1>11. Requests'
  BY <1>2, <1>9 DEF BufferInv, Requests
<1>12. \A q \in Caller \ {p} : io[q] \in Holding => buf[q] \in Buf \ {i}
  BY <1>4, OneHolder DEF i, Holding
<1>13. Chains'
  <2>1. ASSUME NEW q \in Caller
        PROVE  IF io'[q] \in Waiting
               THEN \E e, f, g \in Desc \ free' : ChainOK(chain'[q], info', buf'[q], e, f, g)
               ELSE chain'[q] = <<>>
    <3>1. CASE q = p
      <4>1. a \in Desc \ free' /\ b \in Desc \ free' /\ c \in Desc \ free'
        BY <1>1, <1>3
      <4>2. ChainOK(chain'[q], info', buf'[q], a, b, c)
        BY <1>2, <1>3, <1>7, <3>1 DEF ChainOK, i
      <4>3. io'[q] \in Waiting
        BY <1>7, <3>1 DEF Waiting
      <4> QED BY <4>1, <4>2, <4>3
    <3>2. CASE q # p /\ io[q] \in Waiting
      <4>1. PICK e, f, g \in Desc \ free : ChainOK(chain[q], info, buf[q], e, f, g)
        BY <3>2 DEF BufferInv, Chains
      <4>2. ChainOK(chain'[q], info', buf'[q], e, f, g)
        BY <1>1, <1>2, <1>7, <3>2, <4>1 DEF ChainOK
      <4>3. e \in Desc \ free' /\ f \in Desc \ free' /\ g \in Desc \ free'
        BY <1>1, <4>1
      <4> QED BY <1>7, <3>2, <4>2, <4>3
    <3>3. CASE q # p /\ io[q] \notin Waiting
      BY <1>7, <3>3, ChainsBusy
    <3> QED BY <3>1, <3>2, <3>3
  <2>2. ASSUME NEW q \in Caller, NEW s \in Caller, q # s
        PROVE  ToSet(chain'[q]) \cap ToSet(chain'[s]) = {}
    <3>1. ToSet(chain[q]) \subseteq Desc \ free /\ ToSet(chain[s]) \subseteq Desc \ free
      BY ChainsBusy
    <3>2. ToSet(chain[q]) \cap ToSet(chain[s]) = {}
      BY <2>2 DEF BufferInv, Chains
    <3> QED BY <1>1, <1>7, <2>2, <3>1, <3>2
  <2>3. ASSUME NEW d \in Desc PROVE d \in free' \/ \E q \in Caller : d \in ToSet(chain'[q])
    <3>1. CASE d \in {a, b, c}
      BY <1>7, <3>1
    <3>2. CASE d \notin {a, b, c} /\ d \in free
      BY <1>1, <3>2
    <3>3. CASE d \notin free
      <4>1. PICK q \in Caller : d \in ToSet(chain[q])
        BY <3>3 DEF BufferInv, Chains
      <4>2. q # p
        BY <1>4, <4>1, ChainsBusy
      <4> QED BY <1>7, <4>1, <4>2
    <3> QED BY <3>1, <3>2, <3>3
  <2>4. ASSUME NEW q \in Caller, io'[q] = "sleepdesc" PROVE Cardinality(free') < 3
    <3>1. io[q] = "sleepdesc"
      BY <1>7, <2>4
    <3>2. Cardinality(free) < 3
      BY <3>1 DEF BufferInv, Chains
    <3>3. IsFiniteSet(free)
      BY BufferNumbers, FS_Subset DEF BufferInv, BufferTypeOK
    <3>4. Cardinality(free') <= Cardinality(free) /\ IsFiniteSet(free')
      BY <1>1, <3>3, FS_Subset
    <3>5. Cardinality(free') \in Nat /\ Cardinality(free) \in Nat
      BY <3>3, <3>4, FS_CardinalityType
    <3> QED BY <3>2, <3>4, <3>5
  <2> QED BY <2>1, <2>2, <2>3, <2>4 DEF Chains
<1>14. \A d \in avail \cup ToSet(used) : d \notin free
  BY Heads
<1>15. Rings'
  <2>1. ASSUME NEW d \in avail' \cup ToSet(used')
        PROVE  \E q \in Caller : io'[q] = "sleepio" /\ chain'[q][1] = d
    <3>1. CASE d = a
      BY <1>7, <3>1
    <3>2. CASE d # a
      <4>1. PICK q \in Caller : io[q] = "sleepio" /\ chain[q][1] = d
        BY <1>1, <1>2, <3>2, Heads
      <4> QED BY <1>2, <1>7, <4>1
    <3> QED BY <3>1, <3>2
  <2>2. avail' \cap ToSet(used') = {}
    BY <1>1, <1>2, <1>14 DEF BufferInv, Rings
  <2>3. \A q \in Caller : io'[q] = "sleepio" => chain'[q][1] \in avail' \cup ToSet(used')
    BY <1>1, <1>2, <1>7 DEF BufferInv, Rings
  <2>4. ASSUME NEW j \in Buf PROVE bdisk'[j] <=> \E q \in Caller : io'[q] = "sleepio" /\ buf'[q] = j
    <3>1. CASE j = i
      BY <1>2, <1>7, <3>1 DEF i
    <3>2. CASE j # i
      BY <1>2, <1>7, <3>2 DEF BufferInv, Rings, i
    <3> QED BY <3>1, <3>2
  <2> QED BY <2>1, <2>2, <2>3, <2>4 DEF Rings
<1>16. OnDisk'
  <2>1. \A q \in Caller : Served(q)' => Served(q)
    BY <1>1, <1>7 DEF Served
  <2>2. \A j \in Buf : Settled(j)' => Settled(j)
    <3>1. \A j \in Buf : locked[j] # Nothing => locked[j] \in Caller
      BY Locker
    <3> QED BY <1>2, <1>9, <3>1 DEF Settled
  <2> QED BY <1>2, <2>1, <2>2 DEF BufferInv, OnDisk
<1> QED BY <1>6, <1>8, <1>10, <1>11, <1>13, <1>15, <1>16 DEF BufferInv

LEMMA KeepsNoDesc ==
  ASSUME BufferInv, NEW p \in Caller, RwNoDesc(p)
  PROVE  BufferInv'
<1>1. /\ io[p] = "rw" /\ Cardinality(free) < 3
      /\ UNCHANGED <<blockno, valid, refcnt, lru, bdata, locked, bdisk, buf, write, chain, free,
                     info, avail, used, disk>>
  BY DEF RwNoDesc, cache, driver
<1>2. io' = [IF free = {} THEN io ELSE WokenForDesc EXCEPT ![p] = "sleepdesc"]
  BY DEF RwNoDesc
<1>3. /\ io' \in [Caller -> Label] /\ io'[p] = "sleepdesc"
      /\ \A q \in Caller \ {p} : io'[q] = io[q] \/ (io[q] = "sleepdesc" /\ io'[q] = "rw")
  <2>1. io \in [Caller -> Label]
    BY DEF BufferInv, BufferTypeOK
  <2>2. CASE free = {}
    <3>1. io' = [io EXCEPT ![p] = "sleepdesc"]
      BY <1>2, <2>2
    <3> QED BY <2>1, <3>1 DEF Label
  <2>3. CASE free # {}
    <3>1. io' = [WokenForDesc EXCEPT ![p] = "sleepdesc"]
      BY <1>2, <2>3
    <3>2. /\ WokenForDesc \in [Caller -> Label]
          /\ \A q \in Caller : \/ WokenForDesc[q] = io[q] /\ io[q] # "sleepdesc"
                               \/ io[q] = "sleepdesc" /\ WokenForDesc[q] = "rw"
      BY <2>1 DEF WokenForDesc, Label
    <3> QED BY <3>1, <3>2 DEF Label
  <2> QED BY <2>2, <2>3
<1>4. BufferTypeOK'
  BY <1>1, <1>3 DEF BufferInv, BufferTypeOK
<1>5. OneBuffer' /\ Referred'
  BY <1>1, <1>3, KeepsReferred
<1>6. \A q \in Caller : /\ (io'[q] \in Holding) = (io[q] \in Holding)
                        /\ (io'[q] \in Asking) = (io[q] \in Asking)
                        /\ (io'[q] \in Waiting) = (io[q] \in Waiting)
                        /\ (io'[q] = "have") = (io[q] = "have")
                        /\ (io'[q] = "sleeplock") = (io[q] = "sleeplock")
  BY <1>1, <1>3 DEF Holding, Asking, Waiting
<1>7. Locks'
  <2>1. \A j \in Buf : locked[j] # Nothing => locked[j] \in Caller
    BY Locker
  <2> QED BY <1>1, <1>6, <2>1 DEF BufferInv, Locks
<1>8. Requests'
  BY <1>1, <1>6 DEF BufferInv, Requests
<1>9. Chains' /\ Rings'
  <2>1. \A q \in Caller : io[q] \in Waiting \/ io'[q] \in Waiting => io'[q] = io[q] /\ buf'[q] = buf[q]
    BY <1>1, <1>3 DEF Waiting
  <2> QED BY <1>1, <2>1, DriverKeeps
<1>10. OnDisk'
  <2>1. \A q \in Caller : Served(q)' => Served(q)
    BY <1>1, <1>6 DEF Served
  <2>2. \A j \in Buf : Settled(j)' => Settled(j)
    <3>1. \A j \in Buf : locked[j] # Nothing => locked[j] \in Caller
      BY Locker
    <3> QED BY <1>1, <1>6, <3>1 DEF Settled
  <2> QED BY <1>1, <2>1, <2>2 DEF BufferInv, OnDisk
<1> QED BY <1>4, <1>5, <1>7, <1>8, <1>9, <1>10 DEF BufferInv

LEMMA KeepsDevice ==
  ASSUME BufferInv, NEW d \in Desc, Device(d)
  PROVE  /\ BufferInv'
         /\ \E p \in Caller :
              /\ io[p] = "sleepio" /\ chain[p][1] = d /\ info[d] = buf[p] /\ buf[p] \in Buf
              /\ locked[buf[p]] = p /\ valid[buf[p]] = write[p] /\ blockno[buf[p]] \in Block
              /\ IF write[p]
                 THEN disk' = [disk EXCEPT ![blockno[buf[p]]] = bdata[buf[p]]] /\ bdata' = bdata
                 ELSE bdata' = [bdata EXCEPT ![buf[p]] = disk[blockno[buf[p]]]] /\ disk' = disk
<1>1. /\ d \in avail /\ avail' = avail \ {d} /\ used' = Append(used, d)
      /\ IF write[Asker(d)]
         THEN disk' = [disk EXCEPT ![blockno[info[d]]] = bdata[info[d]]] /\ bdata' = bdata
         ELSE bdata' = [bdata EXCEPT ![info[d]] = disk[blockno[info[d]]]] /\ disk' = disk
      /\ UNCHANGED <<blockno, valid, refcnt, lru, locked, bdisk, io, buf, write, chain, free, info>>
  BY DEF Device, cache
<1>2. PICK p \in Caller : /\ io[p] = "sleepio" /\ chain[p][1] = d /\ info[d] = buf[p] /\ chain[p] # <<>>
                          /\ \A q \in Caller : chain[q] # <<>> /\ chain[q][1] = d => q = p
  BY <1>1, Heads
<1>3. Asker(d) = p
  BY <1>2 DEF Asker
<1> DEFINE i == buf[p]
           b == blockno[i]
<1>4. i \in Buf /\ b \in Block /\ locked[i] = p /\ valid[i] = write[p]
  BY <1>2, OneHolder DEF BufferInv, Locks, Requests, Holding, Asking
<1>5. IF write[p] THEN disk' = [disk EXCEPT ![b] = bdata[i]] /\ bdata' = bdata
                  ELSE bdata' = [bdata EXCEPT ![i] = disk[b]] /\ disk' = disk
  BY <1>1, <1>2, <1>3
<1> HIDE DEF i, b
<1>6. used' \in Seq(Desc) /\ ToSet(used') = ToSet(used) \cup {d}
  BY <1>1, Elements DEF BufferInv, BufferTypeOK
<1>7. BufferTypeOK'
  <2>1. bdata' \in [Buf -> Content] /\ disk' \in [Block -> Content]
    BY <1>4, <1>5 DEF BufferInv, BufferTypeOK
  <2> QED BY <1>1, <1>6, <2>1 DEF BufferInv, BufferTypeOK
<1>8. OneBuffer' /\ Referred'
  BY <1>1, KeepsReferred
<1>9. Locks' /\ Requests' /\ Chains'
  BY <1>1 DEF BufferInv, Locks, Requests, Chains
<1>10. Rings'
  <2>1. avail' \cup ToSet(used') = avail \cup ToSet(used) /\ avail' \cap ToSet(used') = {}
    BY <1>1, <1>6 DEF BufferInv, Rings
  <2> QED BY <1>1, <2>1 DEF BufferInv, Rings
<1>11. /\ \A j \in Buf \ {i} : bdata'[j] = bdata[j]
       /\ \A e \in Block \ {b} : disk'[e] = disk[e]
       /\ bdata'[i] = disk'[b]
  BY <1>4, <1>5 DEF BufferInv, BufferTypeOK
<1>12. \A j \in Buf \ {i} : blockno[j] # Nothing => blockno[j] \in Block \ {b}
  BY <1>4, BufferNumbers DEF BufferInv, BufferTypeOK, OneBuffer, b
<1>13. OnDisk'
  <2>1. ASSUME NEW q \in Caller, Served(q)' PROVE bdata'[buf'[q]] = disk'[blockno'[buf'[q]]]
    <3>1. CASE q = p
      BY <1>1, <1>11, <3>1 DEF i, b
    <3>2. CASE q # p
      <4>1. io[q] \in Holding /\ io[p] \in Holding /\ io[q] # "idle"
        BY <1>1, <1>2, <2>1 DEF Served, Waiting, Holding
      <4>2. buf[q] \in Buf \ {i} /\ blockno[buf[q]] # Nothing
        BY <3>2, <4>1, OneHolder, BufferNumbers DEF i
      <4>3. io[q] \in Waiting /\ chain[q][1] \notin avail
        <5>1. io[q] \in Waiting /\ chain[q][1] \notin avail \ {d}
          BY <1>1, <2>1 DEF Served
        <5>2. chain[q] # <<>>
          BY <5>1, OneChain
        <5> QED BY <1>2, <3>2, <5>1, <5>2
      <4>4. bdata[buf[q]] = disk[blockno[buf[q]]]
        BY <4>3 DEF BufferInv, OnDisk, Served
      <4> QED BY <1>1, <1>11, <1>12, <4>2, <4>4
    <3> QED BY <3>1, <3>2
  <2>2. ASSUME NEW j \in Buf, Settled(j)' PROVE bdata'[j] = disk'[blockno'[j]]
    <3>1. Settled(j)
      BY <1>1, <2>2 DEF Settled
    <3>2. j # i
      BY <1>2, <1>4, <3>1, BufferNumbers DEF Settled
    <3>3. blockno[j] # Nothing
      BY <3>1 DEF Settled, BufferInv, OneBuffer
    <3>4. bdata[j] = disk[blockno[j]]
      BY <3>1 DEF BufferInv, OnDisk
    <3> QED BY <1>1, <1>11, <1>12, <3>2, <3>3, <3>4
  <2> QED BY <2>1, <2>2 DEF OnDisk
<1>14. BufferInv'
  BY <1>7, <1>8, <1>9, <1>10, <1>13 DEF BufferInv
<1> QED BY <1>2, <1>4, <1>5, <1>14 DEF i, b

LEMMA KeepsIntr ==
  ASSUME BufferInv, Intr
  PROVE  BufferInv'
<1>1. /\ bdisk' = [i \in Buf |-> bdisk[i] /\ i \notin Done] /\ used' = <<>>
      /\ io' = [p \in Caller |-> IF io[p] = "sleepio" /\ buf[p] \in Done THEN "done" ELSE io[p]]
      /\ UNCHANGED <<blockno, valid, refcnt, lru, bdata, locked, buf, write, chain, free, info, avail, disk>>
  BY DEF Intr, cache
<1>2. Done = {info[d] : d \in ToSet(used)}
  BY DEF Done, ToSet
<1>3. ASSUME NEW q \in Caller, io[q] = "sleepio"
      PROVE  buf[q] \in Done <=> chain[q][1] \in ToSet(used)
  <2>1. io[q] \in Waiting /\ io[q] \in Holding
    BY <1>3 DEF Waiting, Holding
  <2>2. info[chain[q][1]] = buf[q]
    BY <2>1, OneChain
  <2>3. ASSUME NEW d \in ToSet(used), info[d] = buf[q] PROVE chain[q][1] = d
    <3>1. PICK p \in Caller : io[p] = "sleepio" /\ chain[p][1] = d /\ info[d] = buf[p]
      BY Heads
    <3>2. io[p] \in Holding
      BY <3>1 DEF Holding
    <3>3. p = q
      BY <2>1, <2>3, <3>1, <3>2, OneHolder
    <3> QED BY <3>1, <3>3
  <2> QED BY <1>2, <2>2, <2>3
<1>4. \A q \in Caller : \/ io[q] = "sleepio" /\ chain[q][1] \in ToSet(used) /\ io'[q] = "done" /\ buf[q] \in Done
                        \/ io[q] = "sleepio" /\ chain[q][1] \notin ToSet(used) /\ io'[q] = "sleepio" /\ buf[q] \notin Done
                        \/ io[q] # "sleepio" /\ io'[q] = io[q]
  BY <1>1, <1>3
<1>5. io' \in [Caller -> Label] /\ bdisk' \in [Buf -> BOOLEAN] /\ used' \in Seq(Desc) /\ ToSet(used') = {}
  <2>1. \A q \in Caller : io'[q] \in Label
    BY <1>4 DEF BufferInv, BufferTypeOK, Label
  <2>2. used' \in Seq(Desc) /\ ToSet(used') = {}
    BY <1>1, Elements
  <2> QED BY <1>1, <2>1, <2>2
<1>6. BufferTypeOK'
  BY <1>1, <1>5 DEF BufferInv, BufferTypeOK
<1>7. OneBuffer' /\ Referred'
  BY <1>1, <1>4, KeepsReferred
<1>8. \A q \in Caller : /\ (io'[q] \in Holding) = (io[q] \in Holding)
                        /\ (io'[q] \in Asking) = (io[q] \in Asking)
                        /\ (io'[q] \in Waiting) = (io[q] \in Waiting)
                        /\ (io'[q] = "have") = (io[q] = "have")
                        /\ (io'[q] = "sleeplock") = (io[q] = "sleeplock")
                        /\ (io'[q] = "sleepdesc") = (io[q] = "sleepdesc")
  BY <1>4 DEF Holding, Asking, Waiting
<1>9. \A j \in Buf : locked[j] # Nothing => locked[j] \in Caller
  BY Locker
<1>10. Locks'
  BY <1>1, <1>8, <1>9 DEF BufferInv, Locks
<1>11. Requests'
  BY <1>1, <1>8 DEF BufferInv, Requests
<1>12. Chains'
  BY <1>1, <1>8 DEF BufferInv, Chains
<1>13. Rings'
  <2>1. ASSUME NEW d \in avail' \cup ToSet(used')
        PROVE  \E q \in Caller : io'[q] = "sleepio" /\ chain'[q][1] = d
    <3>1. d \in avail /\ d \notin ToSet(used)
      BY <1>1, <1>5 DEF BufferInv, Rings
    <3>2. PICK q \in Caller : io[q] = "sleepio" /\ chain[q][1] = d
      BY <3>1, Heads
    <3> QED BY <1>1, <1>4, <3>1, <3>2
  <2>2. \A q \in Caller : io'[q] = "sleepio" => chain'[q][1] \in avail' \cup ToSet(used')
    BY <1>1, <1>4 DEF BufferInv, Rings
  <2>3. ASSUME NEW j \in Buf PROVE bdisk'[j] <=> \E q \in Caller : io'[q] = "sleepio" /\ buf'[q] = j
    <3>1. bdisk'[j] <=> bdisk[j] /\ j \notin Done
      BY <1>1
    <3>2. bdisk[j] <=> \E q \in Caller : io[q] = "sleepio" /\ buf[q] = j
      BY DEF BufferInv, Rings
    <3> QED BY <1>1, <1>4, <3>1, <3>2
  <2>4. avail' \cap ToSet(used') = {}
    BY <1>5
  <2> QED BY <2>1, <2>2, <2>3, <2>4 DEF Rings
<1>14. OnDisk'
  <2>1. \A q \in Caller : Served(q)' => Served(q)
    BY <1>1, <1>8 DEF Served
  <2>2. \A j \in Buf : Settled(j)' => Settled(j)
    BY <1>1, <1>8, <1>9 DEF Settled
  <2> QED BY <1>1, <2>1, <2>2 DEF BufferInv, OnDisk
<1> QED BY <1>6, <1>7, <1>10, <1>11, <1>12, <1>13, <1>14 DEF BufferInv

LEMMA KeepsDone ==
  ASSUME BufferInv, NEW p \in Caller, RwDone(p)
  PROVE  BufferInv'
<1> DEFINE i == buf[p]
<1>1. /\ io[p] = "done" /\ io[p] \in Waiting /\ io[p] \in Holding /\ i \in Buf
      /\ valid' = [valid EXCEPT ![i] = TRUE] /\ write' = [write EXCEPT ![p] = FALSE]
      /\ chain' = [chain EXCEPT ![p] = <<>>]
      /\ io' = [WokenForDesc EXCEPT ![p] = "have"]
      /\ UNCHANGED <<blockno, refcnt, lru, bdata, locked, bdisk, buf, avail, used, disk>>
  BY OneHolder DEF RwDone, Waiting, Holding
<1>2. PICK a, b, c \in Desc \ free :
        /\ a # b /\ b # c /\ c # a /\ chain[p] = <<a, b, c>> /\ info[a] = i
        /\ chain[p][1] = a /\ ToSet(chain[p]) = {a, b, c} /\ chain[p] # <<>>
        /\ \A q \in Caller : chain[q] # <<>> /\ chain[q][1] \in {a, b, c} => q = p
  BY <1>1, OneChain
<1>3. info' = [info EXCEPT ![a] = 0] /\ free' = free \cup {a, b, c}
  BY <1>2 DEF RwDone
<1>4. locked[i] = p /\ blockno[i] \in Block /\ blockno[i] # Nothing
  BY <1>1, OneHolder, BufferNumbers DEF BufferInv, Locks
<1> HIDE DEF i
<1>5. /\ io' \in [Caller -> Label] /\ io'[p] = "have"
      /\ \A q \in Caller \ {p} : \/ io'[q] = io[q] /\ io[q] # "sleepdesc"
                                 \/ io[q] = "sleepdesc" /\ io'[q] = "rw"
  <2>1. io \in [Caller -> Label]
    BY DEF BufferInv, BufferTypeOK
  <2>2. /\ WokenForDesc \in [Caller -> Label]
        /\ \A q \in Caller : \/ WokenForDesc[q] = io[q] /\ io[q] # "sleepdesc"
                             \/ io[q] = "sleepdesc" /\ WokenForDesc[q] = "rw"
    BY <2>1 DEF WokenForDesc, Label
  <2> QED BY <1>1, <2>2 DEF Label
<1>6. BufferTypeOK'
  <2>1. <<>> \in Seq(Desc)
    OBVIOUS
  <2>2. chain' \in [Caller -> Seq(Desc)]
    BY <1>1, <2>1 DEF BufferInv, BufferTypeOK
  <2>3. info' \in [Desc -> Buf \cup {0}] /\ free' \subseteq Desc
    BY <1>3 DEF BufferInv, BufferTypeOK
  <2> QED BY <1>1, <1>5, <2>2, <2>3 DEF BufferInv, BufferTypeOK
<1>7. /\ \A q \in Caller \ {p} : chain'[q] = chain[q] /\ write'[q] = write[q]
      /\ chain'[p] = <<>> /\ ToSet(chain'[p]) = {} /\ write'[p] = FALSE
      /\ valid'[i] = TRUE /\ \A j \in Buf \ {i} : valid'[j] = valid[j]
      /\ \A d \in Desc \ {a} : info'[d] = info[d]
  BY <1>1, <1>3, Elements DEF BufferInv, BufferTypeOK
<1>8. OneBuffer' /\ Referred'
  <2>1. \A j \in Buf : valid'[j] => valid[j] \/ blockno[j] # Nothing
    BY <1>4, <1>7
  <2>2. \A q \in Caller : io'[q] = "idle" <=> io[q] = "idle"
    BY <1>1, <1>5
  <2> QED BY <1>1, <2>1, <2>2, KeepsReferred
<1>9. \A q \in Caller : /\ (io'[q] \in Holding) = (io[q] \in Holding)
                        /\ (io'[q] = "sleeplock") = (io[q] = "sleeplock")
                        /\ q # p => /\ (io'[q] \in Asking) = (io[q] \in Asking)
                                    /\ (io'[q] \in Waiting) = (io[q] \in Waiting)
                                    /\ (io'[q] = "have") = (io[q] = "have")
                                    /\ (io'[q] = "sleepio") = (io[q] = "sleepio")
  BY <1>1, <1>5 DEF Holding, Asking, Waiting
<1>10. \A j \in Buf : locked[j] # Nothing => locked[j] \in Caller
  BY Locker
<1>11. Locks'
  BY <1>1, <1>9, <1>10 DEF BufferInv, Locks
<1>12. \A q \in Caller \ {p} : io[q] \in Holding => buf[q] \in Buf \ {i}
  BY <1>1, OneHolder DEF i, Holding
<1>13. Requests'
  <2>1. ASSUME NEW q \in Caller
        PROVE  /\ io'[q] = "have" => valid'[buf'[q]]
               /\ io'[q] \in Asking => valid'[buf'[q]] = write'[q]
               /\ write'[q] => io'[q] \in Asking
    <3>1. CASE q = p
      BY <1>1, <1>5, <1>7, <3>1 DEF i, Asking, Holding
    <3>2. CASE q # p
      <4>1. io[q] = "have" \/ io[q] \in Asking => buf[q] \in Buf \ {i}
        BY <1>12, <3>2 DEF Asking, Holding
      <4>2. io[q] = "have" \/ io[q] \in Asking => valid'[buf'[q]] = valid[buf[q]]
        BY <1>1, <1>7, <4>1
      <4>3. /\ io[q] = "have" => valid[buf[q]]
            /\ io[q] \in Asking => valid[buf[q]] = write[q]
            /\ write[q] => io[q] \in Asking
        BY DEF BufferInv, Requests
      <4>4. write'[q] = write[q] /\ (io'[q] = "have") = (io[q] = "have") /\ (io'[q] \in Asking) = (io[q] \in Asking)
        BY <1>7, <1>9, <3>2
      <4> QED BY <4>2, <4>3, <4>4
    <3> QED BY <3>1, <3>2
  <2> QED BY <2>1 DEF Requests
<1>14. Chains'
  <2>1. ASSUME NEW q \in Caller
        PROVE  IF io'[q] \in Waiting
               THEN \E e, f, g \in Desc \ free' : ChainOK(chain'[q], info', buf'[q], e, f, g)
               ELSE chain'[q] = <<>>
    <3>1. CASE q = p
      BY <1>5, <1>7, <3>1 DEF Waiting
    <3>2. CASE q # p /\ io[q] \in Waiting
      <4>1. PICK e, f, g \in Desc \ free : ChainOK(chain[q], info, buf[q], e, f, g)
        BY <3>2 DEF BufferInv, Chains
      <4>2. {e, f, g} \cap {a, b, c} = {}
        <5>1. ToSet(chain[q]) = {e, f, g}
          BY <4>1, Elements DEF ChainOK
        <5>2. ToSet(chain[q]) \cap ToSet(chain[p]) = {}
          BY <3>2 DEF BufferInv, Chains
        <5> QED BY <1>2, <5>1, <5>2
      <4>3. e \in Desc \ free' /\ f \in Desc \ free' /\ g \in Desc \ free'
        BY <1>3, <4>1, <4>2
      <4>4. ChainOK(chain'[q], info', buf'[q], e, f, g)
        BY <1>1, <1>7, <3>2, <4>1, <4>2 DEF ChainOK
      <4> QED BY <1>9, <3>2, <4>3, <4>4
    <3>3. CASE q # p /\ io[q] \notin Waiting
      BY <1>7, <1>9, <3>3, ChainsBusy
    <3> QED BY <3>1, <3>2, <3>3
  <2>2. ASSUME NEW q \in Caller, NEW s \in Caller, q # s
        PROVE  ToSet(chain'[q]) \cap ToSet(chain'[s]) = {}
    <3>1. ToSet(chain[q]) \cap ToSet(chain[s]) = {}
      BY <2>2 DEF BufferInv, Chains
    <3> QED BY <1>7, <3>1
  <2>3. ASSUME NEW d \in Desc PROVE d \in free' \/ \E q \in Caller : d \in ToSet(chain'[q])
    <3>1. d \in free \/ \E q \in Caller : d \in ToSet(chain[q])
      BY DEF BufferInv, Chains
    <3> QED BY <1>2, <1>3, <1>7, <3>1
  <2>4. \A q \in Caller : io'[q] # "sleepdesc"
    BY <1>5
  <2> QED BY <2>1, <2>2, <2>3, <2>4 DEF Chains
<1>15. Rings'
  <2>1. ASSUME NEW d \in avail \cup ToSet(used)
        PROVE  \E q \in Caller : io'[q] = "sleepio" /\ chain'[q][1] = d
    <3>1. PICK q \in Caller : io[q] = "sleepio" /\ chain[q][1] = d
      BY Heads
    <3> QED BY <1>1, <1>7, <1>9, <3>1
  <2>2. \A q \in Caller : io'[q] = "sleepio" => chain'[q][1] \in avail \cup ToSet(used)
    BY <1>1, <1>5, <1>7, <1>9 DEF BufferInv, Rings
  <2>3. \A j \in Buf : bdisk[j] <=> \E q \in Caller : io'[q] = "sleepio" /\ buf[q] = j
    <3>1. \A q \in Caller : (io'[q] = "sleepio") = (io[q] = "sleepio")
      BY <1>1, <1>5, <1>9
    <3> QED BY <3>1 DEF BufferInv, Rings
  <2> QED BY <1>1, <2>1, <2>2, <2>3 DEF BufferInv, Rings
<1>16. OnDisk'
  <2>1. ASSUME NEW q \in Caller, Served(q)' PROVE Served(q)
    <3>1. q # p
      BY <1>5, <2>1 DEF Served, Waiting
    <3> QED BY <1>1, <1>7, <1>9, <2>1, <3>1 DEF Served
  <2>2. Served(p)
    <3>1. a \notin avail
      <4>1. ASSUME a \in avail PROVE FALSE
        <5>1. PICK q \in Caller : io[q] = "sleepio" /\ chain[q][1] = a /\ chain[q] # <<>>
          BY <4>1, Heads
        <5> QED BY <1>1, <1>2, <5>1
      <4> QED BY <4>1
    <3> QED BY <1>1, <1>2, <3>1 DEF Served
  <2>3. ASSUME NEW j \in Buf, Settled(j)' PROVE bdata[j] = disk[blockno[j]]
    <3>1. CASE j = i
      BY <2>2, <3>1 DEF i, BufferInv, OnDisk
    <3>2. CASE j # i
      <4>1. locked[j] # p
        BY <3>2, Locker, BufferNumbers DEF i
      <4>2. Settled(j)
        BY <1>1, <1>7, <1>9, <1>10, <2>3, <3>2, <4>1 DEF Settled
      <4> QED BY <4>2 DEF BufferInv, OnDisk
    <3> QED BY <3>1, <3>2
  <2> QED BY <1>1, <2>1, <2>3 DEF BufferInv, OnDisk
<1> QED BY <1>6, <1>8, <1>11, <1>13, <1>14, <1>15, <1>16 DEF BufferInv

-----------------------------------------------------------------------------
(* The buffer cache: what the invariant gives                              *)

LEMMA BufferStarts == BufferInit => BufferInv
<1> SUFFICES ASSUME BufferInit PROVE BufferInv
  OBVIOUS
<1>1. lru = [k \in Buf |-> NBUF - k + 1]
  <2>1. NBUF \in Nat
    BY BufferNumbers
  <2>2. [i \in Buf |-> i] \in Seq(Buf) /\ Len([i \in Buf |-> i]) = NBUF
    BY <2>1 DEF Buf
  <2>3. lru = [k \in 1 .. NBUF |-> [i \in Buf |-> i][(NBUF - k) + 1]]
    BY <2>2 DEF BufferInit, Reverse
  <2>4. \A k \in 1 .. NBUF : NBUF - k + 1 \in Buf
    BY <2>1 DEF Buf
  <2> QED BY <2>3, <2>4 DEF Buf
<1>2. lru \in [Buf -> Buf] /\ \A i \in Buf : \E k \in Buf : lru[k] = i
  <2>1. NBUF \in Nat
    BY BufferNumbers
  <2>2. \A k \in 1 .. NBUF : NBUF - k + 1 \in 1 .. NBUF /\ NBUF - (NBUF - k + 1) + 1 = k
    BY <2>1
  <2>3. lru \in [Buf -> Buf]
    BY <1>1, <2>2 DEF Buf
  <2>4. ASSUME NEW i \in Buf PROVE \E k \in Buf : lru[k] = i
    <3>1. NBUF - i + 1 \in Buf /\ lru[NBUF - i + 1] = i
      BY <1>1, <2>2 DEF Buf
    <3> QED BY <3>1
  <2> QED BY <2>3, <2>4
<1>3. BufferTypeOK
  <2>1. <<>> \in Seq(Desc)
    OBVIOUS
  <2> QED BY <1>2, <2>1 DEF BufferInit, BufferTypeOK, Label
<1>4. OneBuffer
  BY <1>2 DEF BufferInit, OneBuffer
<1>5. Referred
  <2>1. ASSUME NEW i \in Buf PROVE refcnt[i] = Cardinality(Referring(i))
    <3>1. Referring(i) = {}
      BY BufferNumbers DEF BufferInit, Referring
    <3>2. Cardinality({}) = 0
      BY FS_EmptySet
    <3> QED BY <3>1, <3>2 DEF BufferInit
  <2> QED BY <2>1 DEF BufferInit, Referred
<1>6. Locks /\ Requests
  BY DEF BufferInit, Locks, Requests, Holding, Asking
<1>7. Chains
  BY Elements DEF BufferInit, Chains, Waiting
<1>8. Rings
  BY Elements DEF BufferInit, Rings
<1>9. OnDisk
  BY DEF BufferInit, OnDisk, Served, Settled, Waiting
<1> QED BY <1>3, <1>4, <1>5, <1>6, <1>7, <1>8, <1>9 DEF BufferInv

\* The panic of bget() changes nothing else.
LEMMA KeepsAll ==
  ASSUME BufferInv, UNCHANGED <<cache, bdata, locked, bdisk, io, buf, write, driver, disk>>
  PROVE  BufferInv'
<1>1. OneBuffer' /\ Referred'
  BY KeepsReferred DEF cache
<1>2. BufferTypeOK' /\ Locks' /\ Requests'
  BY DEF cache, driver, BufferInv, BufferTypeOK, Locks, Requests
<1>3. Chains' /\ Rings'
  BY DEF cache, driver, BufferInv, Chains, Rings
<1>4. OnDisk'
  BY DEF cache, driver, BufferInv, OnDisk, Served, Settled
<1> QED BY <1>1, <1>2, <1>3, <1>4 DEF BufferInv

LEMMA BufferSteps == BufferInv /\ [BufferNext]_bufferVars => BufferInv'
<1> SUFFICES ASSUME BufferInv, [BufferNext]_bufferVars PROVE BufferInv'
  OBVIOUS
<1>1. ASSUME NEW p \in Caller, Serve(p) PROVE BufferInv'
  BY <1>1, KeepsAcquire, KeepsSubmit, KeepsNoDesc, KeepsDone, KeepsRelease, KeepsBrelse DEF Serve
<1>2. ASSUME NEW p \in Caller, NEW b \in Block, BgetCached(p, b) \/ BgetRecycle(p, b) PROVE BufferInv'
  BY <1>2, KeepsCached, KeepsRecycle
<1>3. ASSUME NEW p \in Caller, NEW v \in Content, Bwrite(p, v) PROVE BufferInv'
  BY <1>3, KeepsBwrite
<1>4. ASSUME NEW d \in Desc, Device(d) PROVE BufferInv'
  BY <1>4, KeepsDevice
<1>5. CASE Intr
  BY <1>5, KeepsIntr
<1>6. CASE UNCHANGED bufferVars
  BY <1>6, KeepsAll DEF bufferVars
<1>7. ASSUME NEW p \in Caller, NEW b \in Block, BgetPanic(p, b) PROVE BufferInv'
  BY <1>7, KeepsAll DEF BgetPanic
<1> QED BY <1>1, <1>2, <1>3, <1>4, <1>5, <1>6, <1>7 DEF BufferNext, BufferStep

LEMMA BufferAlways == BufferSpec => []BufferInv
  BY BufferStarts, BufferSteps, PTL DEF BufferSpec

\* The buffer of block b, if it is valid, holds its value; or the disk does.
LEMMA ValueIs ==
  ASSUME BufferInv, NEW b \in Block
  PROVE  /\ \A i \in Buf : blockno[i] = b /\ valid[i] => ValueOf(b) = bdata[i] /\ OwnerOf(b) = locked[i]
         /\ (\A i \in Buf : ~(blockno[i] = b /\ valid[i])) => ValueOf(b) = disk[b] /\ OwnerOf(b) = Nothing
         /\ OwnerOf(b) = Nothing => ValueOf(b) = disk[b]
<1>1. ASSUME NEW i \in Buf, blockno[i] = b /\ valid[i]
      PROVE  ValueOf(b) = bdata[i] /\ OwnerOf(b) = locked[i]
  <2>1. \A j \in Buf : blockno[j] = b /\ valid[j] => j = i
    BY <1>1 DEF BufferInv, OneBuffer
  <2>2. (CHOOSE j \in Buf : blockno[j] = b /\ valid[j]) = i
    BY <1>1, <2>1
  <2> QED BY <1>1, <2>2 DEF ValueOf, OwnerOf
<1>2. ASSUME \A i \in Buf : ~(blockno[i] = b /\ valid[i])
      PROVE  ValueOf(b) = disk[b] /\ OwnerOf(b) = Nothing
  BY <1>2 DEF ValueOf, OwnerOf
<1>3. ASSUME OwnerOf(b) = Nothing PROVE ValueOf(b) = disk[b]
  <2>1. CASE \E i \in Buf : blockno[i] = b /\ valid[i]
    <3>1. PICK i \in Buf : blockno[i] = b /\ valid[i]
      BY <2>1
    <3>2. Settled(i)
      BY <1>1, <1>3, <3>1 DEF Settled
    <3> QED BY <1>1, <3>1, <3>2 DEF BufferInv, OnDisk
  <2>2. CASE \A i \in Buf : ~(blockno[i] = b /\ valid[i])
    BY <1>2, <2>2
  <2> QED BY <2>1, <2>2
<1> QED BY <1>1, <1>2, <1>3

\* Where no buffer is left, each is one that a process has.
LEMMA BufferLeft ==
  ASSUME BufferInv, Unused = {}
  PROVE  Cardinality({p \in Caller : buf[p] # 0}) >= NBUF
<1> DEFINE P == {p \in Caller : buf[p] # 0}
           S == {buf[q] : q \in P}
<1>1. IsFiniteSet(P) /\ Cardinality(P) \in Nat
  BY BufferNumbers, FS_Subset, FS_CardinalityType
<1>2. IsFiniteSet(S) /\ Cardinality(S) <= Cardinality(P)
  <2> DEFINE f == [q \in P |-> buf[q]]
  <2>1. f \in Surjection(P, S)
    BY DEF Surjection
  <2> HIDE DEF f, S, P
  <2> QED BY <1>1, <2>1, FS_Surjection
<1>3. Cardinality(S) \in Nat
  BY <1>2, FS_CardinalityType
<1>4. ASSUME NEW i \in Buf PROVE i \in S
  <2>1. PICK k \in Buf : lru[k] = i
    BY DEF BufferInv, OneBuffer
  <2>2. k \in DOMAIN lru
    BY DEF BufferInv, BufferTypeOK
  <2>3. refcnt[i] # 0
    BY <2>1, <2>2 DEF Unused
  <2>4. refcnt[i] = Cardinality(Referring(i))
    BY DEF BufferInv, Referred
  <2>5. Referring(i) # {}
    BY <2>3, <2>4, FS_EmptySet
  <2>6. i # 0
    BY BufferNumbers
  <2> QED BY <2>5, <2>6 DEF Referring
<1> HIDE DEF S
<1>5. Cardinality(Buf) <= Cardinality(S)
  <2>1. Buf \subseteq S
    BY <1>4
  <2> QED BY <1>2, <2>1, FS_Subset
<1> HIDE DEF P
<1>6. Cardinality(P) >= NBUF
  BY <1>1, <1>2, <1>3, <1>5, BufferNumbers
<1> QED BY <1>6 DEF P

\* bget() panics only then, and after it nothing moves.
PanicFull == panicked => Unused = {}

LEMMA PanicFullNext == PanicFull /\ [BufferNext]_bufferVars => PanicFull'
<1> SUFFICES ASSUME PanicFull, [BufferNext]_bufferVars PROVE PanicFull'
  OBVIOUS
<1>1. CASE UNCHANGED <<lru, refcnt>>
  <2>1. Unused' = Unused
    BY <1>1 DEF Unused
  <2>2. panicked' = panicked \/ Unused = {}
    BY Zenon DEF BufferNext, BgetPanic, bufferVars
  <2> QED BY <2>1, <2>2 DEF PanicFull
<1>2. CASE BufferStep /\ ~panicked /\ panicked' = panicked
  BY <1>2 DEF PanicFull
<1> QED BY <1>1, <1>2, Zenon DEF BufferNext, BgetPanic, bufferVars, cache

LEMMA IoIs == BufferInv /\ PanicFull => IoExact
<1> SUFFICES ASSUME BufferInv, PanicFull PROVE IoExact
  OBVIOUS
<1>1. \A b \in Block : OwnerOf(b) = Nothing => disk[b] = ValueOf(b)
  BY ValueIs
<1>2. ASSUME NEW d \in Desc PROVE (d \in free) <=> \A p \in Caller : d \notin ToSet(chain[p])
  <2>1. d \in free => \A p \in Caller : d \notin ToSet(chain[p])
    BY ChainsBusy
  <2>2. d \in free \/ \E p \in Caller : d \in ToSet(chain[p])
    BY DEF BufferInv, Chains
  <2> QED BY <2>1, <2>2
<1>3. \A p, q \in Caller : p # q => ToSet(chain[p]) \cap ToSet(chain[q]) = {}
  BY DEF BufferInv, Chains
<1>4. ASSUME NEW p \in Caller
      PROVE  /\ io[p] = "sleepio" => /\ bdisk[buf[p]] /\ info[chain[p][1]] = buf[p]
                                     /\ chain[p][1] \in avail \cup ToSet(used)
             /\ io[p] = "done" => ~bdisk[buf[p]]
             /\ io[p] = "sleepdesc" => Cardinality(free) < 3
             /\ io[p] = "sleeplock" => locked[buf[p]] # Nothing
  <2>1. ASSUME io[p] = "sleepio"
        PROVE  bdisk[buf[p]] /\ info[chain[p][1]] = buf[p] /\ chain[p][1] \in avail \cup ToSet(used)
    <3>1. io[p] \in Waiting /\ buf[p] \in Buf
      BY <2>1, OneHolder DEF Waiting
    <3>2. info[chain[p][1]] = buf[p]
      BY <3>1, OneChain
    <3> QED BY <2>1, <3>1, <3>2 DEF BufferInv, Rings
  <2>2. ASSUME io[p] = "done" PROVE ~bdisk[buf[p]]
    <3>1. io[p] \in Holding /\ buf[p] \in Buf
      BY <2>2, OneHolder DEF Holding
    <3>2. ASSUME NEW q \in Caller, io[q] = "sleepio", buf[q] = buf[p] PROVE FALSE
      <4>1. io[q] \in Holding
        BY <3>2 DEF Holding
      <4>2. p = q
        BY <3>1, <3>2, <4>1, OneHolder
      <4> QED BY <2>2, <3>2, <4>2
    <3> QED BY <3>1, <3>2 DEF BufferInv, Rings
  <2>3. io[p] = "sleepdesc" => Cardinality(free) < 3
    BY DEF BufferInv, Chains
  <2>4. io[p] = "sleeplock" => locked[buf[p]] # Nothing
    BY DEF BufferInv, Locks
  <2> QED BY <2>1, <2>2, <2>3, <2>4
<1>5. \A d \in avail \cup ToSet(used) : \E p \in Caller : io[p] = "sleepio" /\ chain[p][1] = d
  BY DEF BufferInv, Rings
<1>6. \A i \in Buf : refcnt[i] = Cardinality({p \in Caller : buf[p] = i})
  BY DEF BufferInv, Referred, Referring
<1>7. panicked \/ Unused = {} => Cardinality({p \in Caller : buf[p] # 0}) >= NBUF
  BY BufferLeft DEF PanicFull
<1> QED BY <1>1, <1>2, <1>3, <1>4, <1>5, <1>6, <1>7 DEF IoExact

\* A buffer that nobody has agrees with the disk, descriptors and requests are accounted for,
\* every sleeper of the cache and of the driver waits for what somebody has, and bget() panics
\* only if as many processes as there are buffers have one: 30 in the kernel (NBUF), which has
\* 64 processes (bio.c, sleeplock.c, virtio_disk.c).
THEOREM IoAlways == BufferSpec => []IoExact
<1>1. BufferInit => PanicFull
  BY Zenon DEF BufferInit, PanicFull
<1> QED BY <1>1, PanicFullNext, BufferAlways, IoIs, PTL DEF BufferSpec


-----------------------------------------------------------------------------
(* The buffer cache and the disk driver store blocks                       *)

\* A step of the store, from what happens to the value and the owner of each block.
LEMMA StoreSame ==
  ASSUME \A x \in Block : ValueOf(x)' = ValueOf(x) /\ OwnerOf(x)' = OwnerOf(x)
  PROVE  [Stored!StoreNext]_(Stored!store)
<1>1. /\ [x \in Block |-> ValueOf(x)]' = [x \in Block |-> ValueOf(x)]
      /\ [x \in Block |-> OwnerOf(x)]' = [x \in Block |-> OwnerOf(x)]
  OBVIOUS
<1> QED BY <1>1 DEF Stored!store

LEMMA StoreTake ==
  ASSUME NEW p \in Caller, NEW b \in Block, OwnerOf(b) = Nothing, OwnerOf(b)' = p,
         \A x \in Block : ValueOf(x)' = ValueOf(x) /\ (x # b => OwnerOf(x)' = OwnerOf(x))
  PROVE  [Stored!StoreNext]_(Stored!store)
<1>1. /\ [x \in Block |-> ValueOf(x)]' = [x \in Block |-> ValueOf(x)]
      /\ [x \in Block |-> OwnerOf(x)]' = [[x \in Block |-> OwnerOf(x)] EXCEPT ![b] = p]
  OBVIOUS
<1>2. Stored!Take(p, b)
  BY <1>1 DEF Stored!Take
<1> QED BY <1>2 DEF Stored!StoreNext

LEMMA StoreGive ==
  ASSUME NEW p \in Caller, NEW b \in Block, OwnerOf(b) = p, OwnerOf(b)' = Nothing,
         \A x \in Block : ValueOf(x)' = ValueOf(x) /\ (x # b => OwnerOf(x)' = OwnerOf(x))
  PROVE  [Stored!StoreNext]_(Stored!store)
<1>1. /\ [x \in Block |-> ValueOf(x)]' = [x \in Block |-> ValueOf(x)]
      /\ [x \in Block |-> OwnerOf(x)]' = [[x \in Block |-> OwnerOf(x)] EXCEPT ![b] = Nothing]
  OBVIOUS
<1>2. Stored!Give(p, b)
  BY <1>1 DEF Stored!Give
<1> QED BY <1>2 DEF Stored!StoreNext

LEMMA StoreSet ==
  ASSUME NEW p \in Caller, NEW b \in Block, NEW v \in Content, OwnerOf(b) = p, ValueOf(b)' = v,
         \A x \in Block : OwnerOf(x)' = OwnerOf(x) /\ (x # b => ValueOf(x)' = ValueOf(x))
  PROVE  [Stored!StoreNext]_(Stored!store)
<1>1. /\ [x \in Block |-> OwnerOf(x)]' = [x \in Block |-> OwnerOf(x)]
      /\ [x \in Block |-> ValueOf(x)]' = [[x \in Block |-> ValueOf(x)] EXCEPT ![b] = v]
  OBVIOUS
<1>2. Stored!Set(p, b, v)
  BY <1>1 DEF Stored!Set
<1> QED BY <1>2 DEF Stored!StoreNext

\* ValueIs after the step.
LEMMA ValueNext ==
  ASSUME BufferInv', NEW b \in Block
  PROVE  /\ \A i \in Buf : blockno'[i] = b /\ valid'[i] => ValueOf(b)' = bdata'[i] /\ OwnerOf(b)' = locked'[i]
         /\ (\A i \in Buf : ~(blockno'[i] = b /\ valid'[i])) => ValueOf(b)' = disk'[b] /\ OwnerOf(b)' = Nothing
<1>1. ASSUME NEW i \in Buf, blockno'[i] = b /\ valid'[i]
      PROVE  ValueOf(b)' = bdata'[i] /\ OwnerOf(b)' = locked'[i]
  <2>1. b # Nothing
    BY BufferNumbers
  <2>2. \A j \in Buf : blockno'[j] = b /\ valid'[j] => j = i
    BY <1>1, <2>1 DEF BufferInv, OneBuffer
  <2>3. (CHOOSE j \in Buf : blockno'[j] = b /\ valid'[j]) = i
    BY <1>1, <2>2
  <2> QED BY <1>1, <2>3 DEF ValueOf, OwnerOf
<1>2. ASSUME \A i \in Buf : ~(blockno'[i] = b /\ valid'[i])
      PROVE  ValueOf(b)' = disk'[b] /\ OwnerOf(b)' = Nothing
  BY <1>2 DEF ValueOf, OwnerOf
<1> QED BY <1>1, <1>2

\* A block whose buffer the step leaves alone keeps its value and its owner.
LEMMA BlockKept ==
  ASSUME BufferInv, BufferInv', NEW b \in Block, disk'[b] = disk[b],
         \A i \in Buf : (blockno'[i] = b /\ valid'[i]) <=> (blockno[i] = b /\ valid[i]),
         \A i \in Buf : blockno[i] = b /\ valid[i] => bdata'[i] = bdata[i] /\ locked'[i] = locked[i]
  PROVE  ValueOf(b)' = ValueOf(b) /\ OwnerOf(b)' = OwnerOf(b)
<1>1. CASE \E i \in Buf : blockno[i] = b /\ valid[i]
  <2>1. PICK i \in Buf : blockno[i] = b /\ valid[i]
    BY <1>1
  <2>2. ValueOf(b) = bdata[i] /\ OwnerOf(b) = locked[i]
    BY <2>1, ValueIs
  <2>3. ValueOf(b)' = bdata'[i] /\ OwnerOf(b)' = locked'[i]
    BY <2>1, ValueNext
  <2> QED BY <2>1, <2>2, <2>3
<1>2. CASE \A i \in Buf : ~(blockno[i] = b /\ valid[i])
  <2>1. ValueOf(b) = disk[b] /\ OwnerOf(b) = Nothing
    BY <1>2, ValueIs
  <2>2. ValueOf(b)' = disk'[b] /\ OwnerOf(b)' = Nothing
    BY <1>2, ValueNext
  <2> QED BY <2>1, <2>2
<1> QED BY <1>1, <1>2

\* Most steps change no value and no owner.
LEMMA StepKeepsStore ==
  ASSUME BufferInv, UNCHANGED <<blockno, valid, bdata, locked, disk>>
  PROVE  [Stored!StoreNext]_(Stored!store)
<1>1. \A x \in Block : ValueOf(x)' = ValueOf(x) /\ OwnerOf(x)' = OwnerOf(x)
  BY DEF ValueOf, OwnerOf
<1> QED BY <1>1, StoreSame

\* A buffer is recycled that nobody has, and what it held is on the disk.
LEMMA StoreRecycle ==
  ASSUME BufferInv, BufferInv', NEW p \in Caller, NEW b \in Block, BgetRecycle(p, b)
  PROVE  [Stored!StoreNext]_(Stored!store)
<1>1. PICK k \in Unused : /\ blockno' = [blockno EXCEPT ![lru[k]] = b]
                          /\ valid' = [valid EXCEPT ![lru[k]] = FALSE]
  BY DEF BgetRecycle
<1> DEFINE i == lru[k]
<1>2. i \in Buf /\ refcnt[i] = 0
  BY DEF Unused, BufferInv, BufferTypeOK
<1>3. UNCHANGED <<bdata, locked, disk>>
  BY DEF BgetRecycle
<1>4. /\ blockno' = [blockno EXCEPT ![i] = b] /\ valid' = [valid EXCEPT ![i] = FALSE]
  BY <1>1
<1> HIDE DEF i
<1>5. /\ valid'[i] = FALSE
      /\ \A j \in Buf \ {i} : blockno'[j] = blockno[j] /\ valid'[j] = valid[j]
  BY <1>2, <1>4 DEF BufferInv, BufferTypeOK
<1>6. locked[i] = Nothing
  <2>1. ASSUME locked[i] # Nothing PROVE FALSE
    <3>1. locked[i] \in Referring(i)
      BY <1>2, <2>1, Locker DEF Referring
    <3>2. IsFiniteSet(Referring(i)) /\ Cardinality(Referring(i)) = 0
      <4>1. Referring(i) \subseteq Caller
        BY DEF Referring
      <4> QED BY <1>2, <4>1, BufferNumbers, FS_Subset DEF BufferInv, Referred
    <3> QED BY <3>1, <3>2, FS_EmptySet
  <2> QED BY <2>1
<1>7. ASSUME NEW x \in Block PROVE ValueOf(x)' = ValueOf(x) /\ OwnerOf(x)' = OwnerOf(x)
  <2>1. CASE blockno[i] = x /\ valid[i]
    <3>1. ValueOf(x) = disk[x] /\ OwnerOf(x) = Nothing
      BY <1>2, <1>6, <2>1, ValueIs
    <3>2. \A j \in Buf : ~(blockno'[j] = x /\ valid'[j])
      <4>1. \A j \in Buf \ {i} : blockno[j] # x
        BY <1>2, <2>1, BufferNumbers DEF BufferInv, OneBuffer
      <4> QED BY <1>5, <4>1
    <3>3. ValueOf(x)' = disk'[x] /\ OwnerOf(x)' = Nothing
      BY <3>2, ValueNext
    <3> QED BY <1>3, <3>1, <3>3
  <2>2. CASE ~(blockno[i] = x /\ valid[i])
    <3>1. \A j \in Buf : (blockno'[j] = x /\ valid'[j]) <=> (blockno[j] = x /\ valid[j])
      BY <1>5, <2>2
    <3> QED BY <1>3, <3>1, BlockKept
  <2> QED BY <2>1, <2>2
<1> QED BY <1>7, StoreSame

\* The lock of a valid buffer is the block; that of another one says nothing yet.
LEMMA StoreAcquire ==
  ASSUME BufferInv, BufferInv', NEW p \in Caller, AcquireSleep(p)
  PROVE  [Stored!StoreNext]_(Stored!store)
<1> DEFINE i == buf[p]
<1>1. i \in Buf /\ blockno[i] \in Block /\ UNCHANGED <<blockno, valid, bdata, disk>>
  BY OneHolder DEF AcquireSleep, cache
<1>2. locked' = locked \/ (locked[i] = Nothing /\ locked' = [locked EXCEPT ![i] = p])
  BY DEF AcquireSleep
<1>0. PICK b \in Block : b = blockno[i]
  BY <1>1
<1> HIDE DEF i
<1>3. CASE locked' = locked
  BY <1>1, <1>0, <1>3, StepKeepsStore
<1>4. CASE locked[i] = Nothing /\ locked' = [locked EXCEPT ![i] = p]
  <2>1. locked'[i] = p /\ \A j \in Buf \ {i} : locked'[j] = locked[j]
    BY <1>1, <1>0, <1>4 DEF BufferInv, BufferTypeOK
  <2>2. ASSUME NEW x \in Block, ~(blockno[i] = x /\ valid[i])
        PROVE  ValueOf(x)' = ValueOf(x) /\ OwnerOf(x)' = OwnerOf(x)
    BY <1>1, <1>0, <2>1, <2>2, BlockKept
  <2>3. CASE valid[i]
    <3>1. ValueOf(b) = bdata[i] /\ OwnerOf(b) = Nothing
      BY <1>1, <1>0, <1>4, <2>3, ValueIs
    <3>2. ValueOf(b)' = bdata[i] /\ OwnerOf(b)' = p
      BY <1>1, <1>0, <2>1, <2>3, ValueNext
    <3>3. \A x \in Block : x # b => ValueOf(x)' = ValueOf(x) /\ OwnerOf(x)' = OwnerOf(x)
      BY <1>0, <2>2
    <3> QED BY <1>1, <1>0, <3>1, <3>2, <3>3, StoreTake
  <2>4. CASE ~valid[i]
    BY <2>2, <2>4, StoreSame
  <2> QED BY <2>3, <2>4
<1> QED BY <1>2, <1>3, <1>4

LEMMA StoreBwrite ==
  ASSUME BufferInv, BufferInv', NEW p \in Caller, NEW v \in Content, Bwrite(p, v)
  PROVE  [Stored!StoreNext]_(Stored!store)
<1> DEFINE i == buf[p]
<1>1. /\ i \in Buf /\ blockno[i] \in Block /\ bdata' = [bdata EXCEPT ![i] = v]
      /\ UNCHANGED <<blockno, valid, locked, disk>>
  BY OneHolder DEF Bwrite, cache
<1>2. valid[i] /\ locked[i] = p
  BY DEF Bwrite, BufferInv, Requests, Locks, Holding
<1>0. PICK b \in Block : b = blockno[i]
  BY <1>1
<1> HIDE DEF i
<1>3. bdata'[i] = v /\ \A j \in Buf \ {i} : bdata'[j] = bdata[j]
  BY <1>1 DEF BufferInv, BufferTypeOK
<1>4. OwnerOf(b) = p
  BY <1>1, <1>0, <1>2, ValueIs
<1>5. ValueOf(b)' = v /\ OwnerOf(b)' = p
  BY <1>1, <1>0, <1>2, <1>3, ValueNext
<1>6. ASSUME NEW x \in Block, x # b PROVE ValueOf(x)' = ValueOf(x) /\ OwnerOf(x)' = OwnerOf(x)
  BY <1>1, <1>0, <1>3, <1>6, BlockKept
<1> QED BY <1>1, <1>0, <1>4, <1>5, <1>6, StoreSet

LEMMA StoreRelease ==
  ASSUME BufferInv, BufferInv', NEW p \in Caller, ReleaseSleep(p)
  PROVE  [Stored!StoreNext]_(Stored!store)
<1> DEFINE i == buf[p]
<1>1. /\ i \in Buf /\ blockno[i] \in Block /\ locked' = [locked EXCEPT ![i] = Nothing]
      /\ UNCHANGED <<blockno, valid, bdata, disk>>
  BY OneHolder DEF ReleaseSleep, cache
<1>2. valid[i] /\ locked[i] = p
  BY DEF ReleaseSleep, BufferInv, Requests, Locks, Holding
<1>0. PICK b \in Block : b = blockno[i]
  BY <1>1
<1> HIDE DEF i
<1>3. locked'[i] = Nothing /\ \A j \in Buf \ {i} : locked'[j] = locked[j]
  BY <1>1 DEF BufferInv, BufferTypeOK
<1>4. OwnerOf(b) = p /\ ValueOf(b) = bdata[i]
  BY <1>1, <1>0, <1>2, ValueIs
<1>5. ValueOf(b)' = bdata[i] /\ OwnerOf(b)' = Nothing
  BY <1>1, <1>0, <1>2, <1>3, ValueNext
<1>6. ASSUME NEW x \in Block, x # b PROVE ValueOf(x)' = ValueOf(x) /\ OwnerOf(x)' = OwnerOf(x)
  BY <1>1, <1>0, <1>3, <1>6, BlockKept
<1> QED BY <1>1, <1>0, <1>4, <1>5, <1>6, StoreGive

\* The device writes what is the block's value, and reads into a buffer not valid yet.
LEMMA StoreDevice ==
  ASSUME BufferInv, BufferInv', NEW d \in Desc, Device(d)
  PROVE  [Stored!StoreNext]_(Stored!store)
<1>1. PICK p \in Caller :
        /\ buf[p] \in Buf
        /\ locked[buf[p]] = p /\ valid[buf[p]] = write[p] /\ blockno[buf[p]] \in Block
        /\ IF write[p]
           THEN disk' = [disk EXCEPT ![blockno[buf[p]]] = bdata[buf[p]]] /\ bdata' = bdata
           ELSE bdata' = [bdata EXCEPT ![buf[p]] = disk[blockno[buf[p]]]] /\ disk' = disk
  BY KeepsDevice
<1>2. UNCHANGED <<blockno, valid, locked>>
  BY DEF Device, cache
<1> DEFINE i == buf[p]
<1>0. PICK b \in Block : b = blockno[i]
  BY <1>1
<1>3. CASE write[p]
  <2>1. valid[i] /\ i \in Buf /\ b = blockno[i] /\ disk' = [disk EXCEPT ![b] = bdata[i]] /\ bdata' = bdata
    BY <1>1, <1>3, <1>0
  <2>2. ValueOf(b)' = ValueOf(b) /\ OwnerOf(b)' = OwnerOf(b)
    <3>1. ValueOf(b) = bdata[i] /\ OwnerOf(b) = locked[i]
      BY <2>1, ValueIs
    <3>2. ValueOf(b)' = bdata'[i] /\ OwnerOf(b)' = locked'[i]
      BY <1>2, <2>1, ValueNext
    <3> QED BY <1>2, <2>1, <3>1, <3>2
  <2>3. ASSUME NEW x \in Block, x # b PROVE ValueOf(x)' = ValueOf(x) /\ OwnerOf(x)' = OwnerOf(x)
    <3>1. disk'[x] = disk[x]
      BY <2>1, <2>3 DEF BufferInv, BufferTypeOK
    <3> QED BY <1>2, <2>1, <3>1, BlockKept
  <2> QED BY <2>2, <2>3, StoreSame
<1>4. CASE ~write[p]
  <2>1. ~valid[i] /\ i \in Buf /\ bdata' = [bdata EXCEPT ![i] = disk[b]] /\ disk' = disk
    BY <1>1, <1>4, <1>0
  <2>2. \A j \in Buf : valid[j] => bdata'[j] = bdata[j]
    BY <2>1 DEF BufferInv, BufferTypeOK
  <2>3. ASSUME NEW x \in Block PROVE ValueOf(x)' = ValueOf(x) /\ OwnerOf(x)' = OwnerOf(x)
    BY <1>2, <2>1, <2>2, BlockKept
  <2> QED BY <2>3, StoreSame
<1> QED BY <1>3, <1>4

\* A read that is done is where its process gets the block.
LEMMA StoreDone ==
  ASSUME BufferInv, BufferInv', NEW p \in Caller, RwDone(p)
  PROVE  [Stored!StoreNext]_(Stored!store)
<1> DEFINE i == buf[p]
<1>1. /\ i \in Buf /\ blockno[i] \in Block /\ valid' = [valid EXCEPT ![i] = TRUE]
      /\ UNCHANGED <<blockno, bdata, locked, disk>>
  BY OneHolder DEF RwDone
<1>2. locked[i] = p
  BY DEF RwDone, BufferInv, Locks, Holding
<1>3. io[p] \in Waiting /\ io[p] # "sleepio"
  BY DEF RwDone, Waiting
<1>0. PICK b \in Block : b = blockno[i]
  BY <1>1
<1>4. bdata[i] = disk[b]
  <2>1. chain[p][1] \notin avail
    <3>1. ASSUME chain[p][1] \in avail PROVE FALSE
      <4>1. PICK a, c, e \in Desc \ free :
              /\ chain[p][1] = a /\ chain[p] # <<>>
              /\ \A q \in Caller : chain[q] # <<>> /\ chain[q][1] \in {a, c, e} => q = p
        BY <1>3, OneChain
      <4>2. PICK q \in Caller : io[q] = "sleepio" /\ chain[q][1] = chain[p][1] /\ chain[q] # <<>>
        BY <3>1, Heads
      <4> QED BY <1>3, <4>1, <4>2
    <3> QED BY <3>1
  <2> QED BY <1>0, <1>3, <2>1 DEF BufferInv, OnDisk, Served
<1> HIDE DEF i
<1>5. valid'[i] = TRUE /\ \A j \in Buf \ {i} : valid'[j] = valid[j]
  BY <1>1 DEF BufferInv, BufferTypeOK
<1>6. CASE valid[i]
  <2>1. \A j \in Buf : valid'[j] <=> valid[j]
    BY <1>5, <1>6
  <2>2. ASSUME NEW x \in Block PROVE ValueOf(x)' = ValueOf(x) /\ OwnerOf(x)' = OwnerOf(x)
    BY <1>1, <1>0, <2>1, BlockKept
  <2> QED BY <2>2, StoreSame
<1>7. CASE ~valid[i]
  <2>1. ValueOf(b) = disk[b] /\ OwnerOf(b) = Nothing
    <3>1. \A j \in Buf \ {i} : blockno[j] # b
      BY <1>1, <1>0, BufferNumbers DEF BufferInv, OneBuffer
    <3>2. \A j \in Buf : ~(blockno[j] = b /\ valid[j])
      BY <1>7, <3>1
    <3> QED BY <1>1, <1>0, <3>2, ValueIs
  <2>2. ValueOf(b)' = bdata[i] /\ OwnerOf(b)' = p
    BY <1>1, <1>0, <1>2, <1>5, ValueNext
  <2>3. ASSUME NEW x \in Block, x # b PROVE ValueOf(x)' = ValueOf(x) /\ OwnerOf(x)' = OwnerOf(x)
    <3>1. \A j \in Buf : (blockno'[j] = x /\ valid'[j]) <=> (blockno[j] = x /\ valid[j])
      BY <1>1, <1>0, <1>5, <2>3
    <3> QED BY <1>1, <1>0, <3>1, BlockKept
  <2> QED BY <1>1, <1>0, <1>4, <2>1, <2>2, <2>3, StoreTake
<1> QED BY <1>6, <1>7

LEMMA StoreStarts == BufferInit => Stored!StoreInit
<1> SUFFICES ASSUME BufferInit PROVE Stored!StoreInit
  OBVIOUS
<1>1. BufferInv
  BY BufferStarts
<1>2. ASSUME NEW b \in Block PROVE ValueOf(b) \in Content /\ OwnerOf(b) = Nothing
  <2>1. \A i \in Buf : ~(blockno[i] = b /\ valid[i])
    BY DEF BufferInit
  <2>2. ValueOf(b) = disk[b] /\ OwnerOf(b) = Nothing
    BY <1>1, <2>1, ValueIs
  <2> QED BY <1>1, <2>2 DEF BufferInv, BufferTypeOK
<1> QED BY <1>2 DEF Stored!StoreInit

LEMMA StoreSteps == BufferInv /\ BufferInv' /\ [BufferNext]_bufferVars => [Stored!StoreNext]_(Stored!store)
<1> SUFFICES ASSUME BufferInv, BufferInv', [BufferNext]_bufferVars
             PROVE  [Stored!StoreNext]_(Stored!store)
  OBVIOUS
<1>1. ASSUME NEW p \in Caller, Serve(p) PROVE [Stored!StoreNext]_(Stored!store)
  <2>1. CASE RwSubmit(p) \/ RwNoDesc(p) \/ Brelse(p)
    BY <2>1, StepKeepsStore DEF RwSubmit, RwNoDesc, Brelse, cache
  <2> QED BY <1>1, <2>1, StoreAcquire, StoreDone, StoreRelease DEF Serve
<1>2. ASSUME NEW p \in Caller, NEW b \in Block, BgetCached(p, b)
      PROVE  [Stored!StoreNext]_(Stored!store)
  BY <1>2, StepKeepsStore DEF BgetCached
<1>3. ASSUME NEW p \in Caller, NEW b \in Block, BgetRecycle(p, b)
      PROVE  [Stored!StoreNext]_(Stored!store)
  BY <1>3, StoreRecycle
<1>4. ASSUME NEW p \in Caller, NEW v \in Content, Bwrite(p, v)
      PROVE  [Stored!StoreNext]_(Stored!store)
  BY <1>4, StoreBwrite
<1>5. ASSUME NEW d \in Desc, Device(d) PROVE [Stored!StoreNext]_(Stored!store)
  BY <1>5, StoreDevice
<1>6. CASE Intr
  BY <1>6, StepKeepsStore DEF Intr, cache
<1>7. CASE UNCHANGED bufferVars
  BY <1>7, StepKeepsStore DEF bufferVars, cache
<1>8. ASSUME NEW p \in Caller, NEW b \in Block, BgetPanic(p, b) PROVE [Stored!StoreNext]_(Stored!store)
  BY <1>8, StepKeepsStore DEF BgetPanic, cache
<1> QED BY <1>1, <1>2, <1>3, <1>4, <1>5, <1>6, <1>7, <1>8 DEF BufferNext, BufferStep

\* The cache, the sleep locks, the driver and the device together implement BlockStore:
\* a block has one value and one owner at a time, whatever is recycled, read and written.
THEOREM StoreImplemented == BufferSpec => StoresBlocks
<1>1. BufferInv /\ BufferInv' /\ [BufferNext]_bufferVars
        => [bufferVars' # bufferVars => Stored!StoreNext]_(Stored!store)
  BY StoreSteps
<1> QED
  BY BufferAlways, StoreStarts, <1>1, PTL DEF BufferSpec, StoresBlocks

=============================================================================
