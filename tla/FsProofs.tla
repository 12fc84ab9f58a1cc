------------------------------ MODULE FsProofs ------------------------------
(* Theorems about Fs, for every number of processes and every size of the  *)
(* disk and of the tables.                                                 *)
EXTENDS Fs, FiniteSetTheorems, FunctionTheorems, SequenceTheorems, WellFoundedInduction, TLAPS

-----------------------------------------------------------------------------
(* The inductive invariant.                                                *)

Fields == {"pc", "call", "path", "cur", "ip", "name", "puts", "put", "inum"}
Boots  == {"down", "reclaim", "reclaimed"}
Finds  == {"create", "open", "trunc", "unlink", "chdir", "link_inc", "link_new", "unlink_child"}
Second == {"exists", "opened", "made", "link_new", "link_bad", "unlink_child", "unlinked"}
InCall == Finds \union Second \union {"walk", "moved"}
Pcs    == InCall \union Boots \union {"idle", "end"}
WithCur  == Finds \union {"walk", "moved"}
WithIp   == Second \union {"walk"}
WithPuts == {"walk", "reclaimed", "end", "link_bad", "exists", "opened", "made", "moved", "unlinked"}
Phases   == {"test", "trunc", "drop", "free"}

(* What a thread remembers. *)
ThreadType(x) ==
  /\ x.pc \in Pcs /\ x.call \in Calls \union {None} /\ x.path \in Seq(Entry)
  /\ x.cur \in 0..NINODE /\ x.ip \in 0..NINODE /\ x.name \in Entry
  /\ x.puts \in Seq(Slot) /\ Len(x.puts) <= 2 /\ x.put \in Phases /\ x.inum \in 0..NINODES+1

(* What it has found by each place. *)
ThreadShape(x) ==
  /\ x.pc \in InCall => x.call \in Calls
  /\ x.pc \in WithCur => x.cur # 0
  /\ x.pc \in Second => x.ip # 0
  /\ x.pc \in {"idle", "down", "reclaim", "reclaimed", "link_inc"} => x.ip = 0
  /\ x.pc = "walk" /\ x.ip # 0 => x.call.op = "link"
  /\ x.pc = "link_inc" => x.call.op = "link"
  /\ x.pc \in {"link_new", "link_bad"} => x.call.op = "link"
  /\ x.pc = "create" => x.call.op \in Creates
  /\ x.pc \notin WithPuts => x.puts = <<>>
  /\ x.puts = <<>> => x.put = "test"
  /\ Len(x.puts) = 2 => x.pc = "end"
  /\ x.pc = "unlink_child" => x.name \in Name
  /\ x.pc = "reclaim" => x.inum # 0
  /\ x.pc = "reclaimed" => x.inum \in Inum

(* The first process is alone until the file system is up. *)
BootInv ==
  \/ /\ \A p \in Proc : t[p].pc \notin Boots
     /\ \A p \in Proc : cwd[p] # 0
  \/ \E p \in Proc :
       /\ t[p].pc \in {"reclaim", "reclaimed"} /\ cwd[p] # 0
       /\ \A q \in Proc \ {p} : t[q].pc = "down" /\ cwd[q] = 0
       /\ \A q \in Proc : file[q] = 0

ActiveInv == \A p \in Proc : t[p].pc \notin {"idle", "down", "reclaim"} => p \in active

ThreadInv ==
  /\ t = [p \in Proc |-> t[p]]
  /\ \A p \in Proc : ThreadType(t[p]) /\ ThreadShape(t[p])
  /\ BootInv /\ ActiveInv

(* The references a process has: the entry of the inode table that its    *)
(* directory, its file and its call refer to, and those it has to put.  A  *)
(* put that has given the reference up holds nothing.                      *)
Kinds == {"cwd", "file", "cur", "ip", "first", "last"}
PutAt(x, i) == IF i \notin 1..Len(x.puts) \/ (i = 1 /\ x.put = "free") THEN 0 ELSE x.puts[i]
Holding(x, c, f, k) ==
  IF k = "cwd" THEN IF x.pc = "moved" THEN 0 ELSE c
  ELSE IF k = "file" THEN f
  ELSE IF k = "cur" THEN IF x.pc \in WithCur THEN x.cur ELSE 0
  ELSE IF k = "ip" THEN IF x.pc \in WithIp THEN x.ip ELSE 0
  ELSE IF k = "first" THEN PutAt(x, Len(x.puts) - 1)
  ELSE PutAt(x, Len(x.puts))
Refs == Proc \X Kinds
Held == [k \in Refs |-> Holding(t[k[1]], cwd[k[1]], file[k[1]], k[2])]

(* An entry has as many references as there are holders, an unused entry   *)
(* is empty, and no inode has two.                                         *)
RefInv == \A s \in Slot : ref[s] = Cardinality({k \in Refs : Held[k] = s})
TableInv ==
  /\ \A s \in Slot : ref[s] > 0 => inum[s] # 0
  /\ \A s \in Slot : ref[s] = 0 => inum[s] = 0 /\ s \notin valid
  /\ \A s, r \in Slot : ref[s] > 0 /\ ref[r] > 0 /\ inum[s] = inum[r] => s = r

(* Where a process may hold an entry's lock, and where it does. *)
Locking == {"opened", "made", "unlinked"}
MayLock(p) == Range(t[p].puts)
              \union {s \in {t[p].ip}  : t[p].pc \in Locking}
              \union {s \in {t[p].cur} : t[p].pc = "unlink_child"}
LockOf(p) ==
  /\ \A s \in Slot : lock[s] = p => s \in MayLock(p)
  /\ t[p].pc \in Locking => lock[t[p].ip] = p /\ t[p].ip \notin Range(t[p].puts)
  /\ t[p].pc = "unlink_child" => lock[t[p].cur] = p
  /\ t[p].put = "trunc" => lock[PutSlot(p)] = p
  /\ t[p].put \in {"drop", "free"} => lock[PutSlot(p)] # p
LockInv == \A p \in Proc : LockOf(p)

(* Links: an entry of a live directory, or a call that has counted one     *)
(* that is not there.  A directory whose entry is gone and whose count is  *)
(* to follow is not live.                                                  *)
Counted(p) == IF t[p].pc \in {"walk", "link_new", "link_bad", "unlinked"} THEN t[p].ip ELSE 0
Dying == {i \in Inum : inode[i].type = "dir" /\ \E p \in Proc : t[p].pc = "unlinked" /\ inum[t[p].ip] = i}
Live == Dirs(inode) \ Dying
Links0 == ({"entry"} \X (Inum \X (Entry \ {"."}))) \union ({"call"} \X Proc)
Linking == [k \in Links0 |->
  IF k[1] = "entry" THEN IF k[2][1] \in Live THEN inode[k[2][1]].dir[k[2][2]] ELSE 0
  ELSE IF Counted(k[2]) = 0 THEN 0 ELSE inum[Counted(k[2])]]

LinkInv == \A i \in Inum : inode[i].nlink = Cardinality({k \in Links0 : Linking[k] = i})
EntryInv == \A d \in Live : \A n \in Entry : inode[d].dir[n] # 0 =>
              Linked(inode, inode[d].dir[n]) /\ inode[d].dir[n] \notin Dying
DirInv ==
  /\ ROOTINO \in Live /\ inode[ROOTINO].dir[".."] = ROOTINO
  /\ \A d \in Live : inode[d].dir["."] = d
  /\ \A d \in Live : \A n \in Name : inode[d].dir[n] \in Dirs(inode) =>
       inode[d].dir[n] # ROOTINO /\ inode[inode[d].dir[n]].dir[".."] = d
  /\ \A d \in Live \ {ROOTINO} : \E n \in Name :
       /\ inode[d].dir[".."] \in Live
       /\ \A m \in Name : inode[inode[d].dir[".."]].dir[m] = d <=> m = n
  /\ \A i \in Inum : inode[i].type = "dir" /\ (inode[i].nlink = 0 \/ i \in Dying) => IsDirEmpty(inode[i])
  /\ \A i \in Inum : inode[i].type # "dir" => Entries(inode[i]) = {}

(* What the calls know of the inodes they hold. *)
Knows(p) ==
  /\ t[p].pc \in {"walk", "link_new", "link_bad"} /\ t[p].ip # 0 => Ip(t[p].ip).type # "dir" /\ t[p].ip \in valid
  /\ t[p].pc \in {"create", "unlink", "unlink_child", "link_new"} => Ip(t[p].cur).type = "dir"
  /\ t[p].pc = "unlink_child" => Ip(t[p].cur).dir[t[p].name] = inum[t[p].ip]
  /\ t[p].pc = "unlinked" => t[p].ip \in valid
HeldInv ==
  /\ \A s \in Slot : ref[s] > 0 => Ip(s).type # "free"
  /\ \A p \in Proc : Knows(p)

(* An inode being put for the last time has no links, and no entry of the  *)
(* table but the one it is put in; it is empty once truncated.             *)
Gone(i) == inode[i].type # "free" /\ inode[i].nlink = 0
PutInv ==
  /\ \A p \in Proc : t[p].put # "test" => t[p].inum \in Inum /\ Gone(t[p].inum)
  /\ \A p \in Proc : t[p].put \in {"drop", "free"} =>
       Owned(inode[t[p].inum]) = {} /\ inode[t[p].inum].dir = NoEntries
  /\ \A p \in Proc : t[p].put \in {"trunc", "drop"} => ref[PutSlot(p)] = 1 /\ inum[PutSlot(p)] = t[p].inum
  /\ \A p \in Proc : t[p].put = "free" => \A s \in Slot : inum[s] # t[p].inum
  /\ \A p, q \in Proc : t[p].put = "free" /\ t[q].put = "free" /\ t[p].inum = t[q].inum => p = q
  /\ \A p \in Proc : t[p].pc = "reclaimed" /\ t[p].put = "test" /\ t[p].puts # <<>> => inum[PutSlot(p)] = t[p].inum

(* An inode without links is in the table, read in, until it is put for    *)
(* the last time, or found by the next ireclaim().                         *)
OrphanInv ==
  /\ \A s \in Slot : ref[s] > 0 /\ Ip(s).nlink = 0 =>
       s \in valid \/ \E p \in Proc : t[p].put = "drop" /\ PutSlot(p) = s
  /\ \A i \in Inum : Orphan(i) =>
       \/ \E s \in Slot : inum[s] = i
       \/ \E p \in Proc : t[p].put = "free" /\ t[p].inum = i
       \/ \E p \in Proc : t[p].pc = "reclaim" /\ t[p].inum <= i
       \/ \E p \in Proc : t[p].pc = "reclaimed" /\ t[p].inum < i

BlockInv == BlocksRight(inode, used)

IInv == /\ TypeOK /\ SavedConsistent /\ ThreadInv
        /\ RefInv /\ TableInv /\ LockInv
        /\ LinkInv /\ EntryInv /\ DirInv /\ BlockInv /\ HeldInv /\ PutInv /\ OrphanInv

-----------------------------------------------------------------------------
(* The constants.                                                          *)

(* The sizes are positive, the names and the processes are finitely many. *)
LEMMA Sizes ==
  /\ NINODES \in Nat \ {0} /\ NBLOCKS \in Nat \ {0} /\ NINODE \in Nat \ {0} /\ NFILE \in Nat \ {0}
  /\ NDIRECT \in Nat \ {0} /\ NINDIRECT \in Nat \ {0} /\ EPB \in Nat \ {0} /\ NLINK_MAX \in Nat \ {0}
  /\ NINODE >= NINODES /\ "." \notin Name /\ ".." \notin Name
  /\ IsFiniteSet(Name) /\ IsFiniteSet(Proc) /\ None \notin Proc
  /\ MaxOps \in Nat /\ MaxCrashes \in Nat
  BY FsAssumption

(* 0 is no entry of the inode table, and no inode. *)
LEMMA Numbers ==
  /\ Slot \subseteq Nat /\ 0 \notin Slot /\ IsFiniteSet(Slot) /\ Cardinality(Slot) = NINODE
  /\ \A x : x \in 0..NINODE <=> x = 0 \/ x \in Slot
  /\ Inum \subseteq Nat /\ 0 \notin Inum /\ IsFiniteSet(Inum) /\ Cardinality(Inum) = NINODES
  /\ \A x : x \in 0..NINODES <=> x = 0 \/ x \in Inum
  /\ ROOTINO \in Inum /\ 1 \in Slot /\ Block \subseteq Nat
<1>1. /\ IsFiniteSet(Slot) /\ Cardinality(Slot) = NINODE
      /\ IsFiniteSet(Inum) /\ Cardinality(Inum) = NINODES
  BY Sizes, FS_Interval DEF Slot, Inum
<1> QED
  BY <1>1, Sizes DEF Slot, Inum, Block, ROOTINO

(* The entries of a directory. *)
LEMMA EntryNames ==
  /\ "." \in Entry /\ ".." \in Entry /\ Name \subseteq Entry
  /\ \A n \in Entry : n = "." \/ n = ".." \/ n \in Name
  /\ IsFiniteSet(Entry) /\ "." # ".."
<1>1. IsFiniteSet({".", ".."})
  <2>1. {".", ".."} = {".."} \union {"."}
    OBVIOUS
  <2>2. IsFiniteSet({".."})
    BY FS_Singleton
  <2>3. IsFiniteSet({".."} \union {"."})
    BY <2>2, FS_AddElement
  <2> QED
    BY <2>1, <2>3
<1>2. IsFiniteSet(Entry)
  BY <1>1, Sizes, FS_Union DEF Entry
<1> QED
  BY <1>2 DEF Entry

(* A set of numbers has a smallest one. *)
LEMMA MinIn ==
  ASSUME NEW S, S \subseteq Nat, S # {}
  PROVE  Min(S) \in S
<1> DEFINE R == OpToRel(<, Nat)
<1>2. \A x, y \in Nat : <<y, x>> \in R <=> y < x
  BY DEF OpToRel
<1>3. IsWellFoundedOn(R, Nat)
  BY NatLessThanWellFounded
<1> HIDE DEF R
<1>4. PICK x \in S : \A y \in S : ~(<<y, x>> \in R)
  BY <1>3, WFMin
<1>5. \A y \in S : x <= y
  <2> TAKE y \in S
  <2>1. x \in Nat /\ y \in Nat
    OBVIOUS
  <2>2. ~(y < x)
    BY <1>2, <1>4, <2>1
  <2> QED
    BY <2>1, <2>2
<1> QED
  BY <1>5 DEF Min

-----------------------------------------------------------------------------
(* Counting.  H and G give each token a number; 0 is none.                 *)

Count(H, K, s) == Cardinality({k \in K : H[k] = s})
One(x, s) == IF x = s THEN 1 ELSE 0
After(n, x, y, s) == n - One(x, s) + One(y, s)

(* One token is given another number. *)
LEMMA OneChange ==
  ASSUME NEW K, IsFiniteSet(K), NEW H, NEW G, NEW k \in K, NEW s,
         \A j \in K \ {k} : G[j] = H[j]
  PROVE  /\ Count(H, K, s) \in Nat /\ Count(G, K, s) \in Nat
         /\ Count(G, K, s) = After(Count(H, K, s), H[k], G[k], s)
<1> DEFINE A == {j \in K : H[j] = s}
           B == {j \in K : G[j] = s}
<1>1. IsFiniteSet(A) /\ IsFiniteSet(B) /\ Cardinality(A) \in Nat /\ Cardinality(B) \in Nat
  BY FS_Subset, FS_CardinalityType
<1>2. CASE H[k] = s /\ G[k] # s
  <2>1. B = A \ {k} /\ k \in A
    BY <1>2
  <2>2. Cardinality(A \ {k}) = Cardinality(A) - 1
    BY <1>1, <2>1, FS_RemoveElement
  <2> QED
    BY <1>1, <1>2, <2>1, <2>2 DEF Count, One, After
<1>3. CASE H[k] # s /\ G[k] = s
  <2>1. B = A \union {k} /\ k \notin A
    BY <1>3
  <2>2. Cardinality(A \union {k}) = Cardinality(A) + 1
    BY <1>1, <2>1, FS_AddElement
  <2> QED
    BY <1>1, <1>3, <2>1, <2>2 DEF Count, One, After
<1>4. CASE H[k] = s /\ G[k] = s
  <2>1. A = B
    BY <1>4
  <2>2. Count(G, K, s) = Count(H, K, s) /\ Count(H, K, s) \in Nat
    BY <1>1, <2>1 DEF Count
  <2> QED
    BY <1>4, <2>2 DEF One, After
<1>5. CASE H[k] # s /\ G[k] # s
  <2>1. A = B
    BY <1>5
  <2>2. Count(G, K, s) = Count(H, K, s) /\ Count(H, K, s) \in Nat
    BY <1>1, <2>1 DEF Count
  <2> QED
    BY <1>5, <2>2 DEF One, After
<1> QED
  BY <1>2, <1>3, <1>4, <1>5

(* The tokens change places. *)
LEMMA Reordered ==
  ASSUME NEW K, IsFiniteSet(K), NEW H, NEW G, NEW s, NEW f \in [K -> K],
         \A k \in K : f[f[k]] = k,
         \A k \in K : G[k] = H[f[k]]
  PROVE  Count(G, K, s) = Count(H, K, s)
<1> DEFINE A == {j \in K : H[j] = s}
           B == {j \in K : G[j] = s}
           g == [k \in A |-> f[k]]
<1>1. \A k \in A : f[k] \in B
  OBVIOUS
<1>2. g \in [A -> B]
  BY <1>1
<1>3. \A x, y \in A : g[x] = g[y] => x = y
  OBVIOUS
<1>4. \A k \in B : f[k] \in A /\ g[f[k]] = k
  OBVIOUS
<1> HIDE DEF g
<1>5. g \in Bijection(A, B)
  BY <1>2, <1>3, <1>4, Fun_IsBij
<1>6. ExistsBijection(A, B)
  BY <1>5 DEF ExistsBijection
<1>7. IsFiniteSet(A)
  BY FS_Subset
<1> QED
  BY <1>6, <1>7, FS_Bijection DEF Count

-----------------------------------------------------------------------------
(* References.                                                             *)

(* Two kinds of reference change places. *)
Swap(a, b) == [k \in Kinds |-> IF k = a THEN b ELSE IF k = b THEN a ELSE k]

(* The references are finitely many. *)
LEMMA RefsFinite == IsFiniteSet(Kinds) /\ IsFiniteSet(Refs)
<1>1. IsFiniteSet(1..6)
  <2>1. PICK n \in Int : n = 6
    OBVIOUS
  <2>2. IsFiniteSet(1..n)
    BY FS_Interval
  <2> QED
    BY <2>1, <2>2
<1> DEFINE f == [i \in 1..6 |-> IF i = 1 THEN "cwd" ELSE IF i = 2 THEN "file" ELSE IF i = 3 THEN "cur"
                                ELSE IF i = 4 THEN "ip" ELSE IF i = 5 THEN "first" ELSE "last"]
<1>2. f \in [1..6 -> Kinds]
  BY DEF Kinds
<1>3. \A k \in Kinds : \E i \in 1..6 : f[i] = k
  <2>1. f[1] = "cwd" /\ f[2] = "file" /\ f[3] = "cur" /\ f[4] = "ip" /\ f[5] = "first" /\ f[6] = "last"
    OBVIOUS
  <2> QED
    BY <2>1 DEF Kinds
<1> HIDE DEF f
<1>4. f \in Surjection(1..6, Kinds)
  BY <1>2, <1>3, Fun_IsSurj
<1>5. IsFiniteSet(Kinds)
  BY <1>1, <1>4, FS_Surjection
<1> QED
  BY <1>5, Sizes, FS_Product DEF Refs

(* Two kinds change places. *)
LEMMA Swapping ==
  ASSUME NEW a \in Kinds, NEW b \in Kinds
  PROVE  /\ Swap(a, b) \in [Kinds -> Kinds]
         /\ \A k \in Kinds : Swap(a, b)[Swap(a, b)[k]] = k
  BY DEF Swap

(* What a step of p does to the counts: its tokens change places by f, and *)
(* then the one of kind j becomes x.                                       *)
LEMMA Shifted ==
  ASSUME NEW H, NEW G, NEW p \in Proc, NEW s, NEW j \in Kinds,
         \A q \in Proc \ {p} : \A k \in Kinds : G[<<q, k>>] = H[<<q, k>>],
         NEW f \in [Kinds -> Kinds], \A k \in Kinds : f[f[k]] = k,
         \A k \in Kinds \ {j} : G[<<p, k>>] = H[<<p, f[k]>>]
  PROVE  /\ Count(H, Refs, s) \in Nat /\ Count(G, Refs, s) \in Nat
         /\ Count(G, Refs, s) = After(Count(H, Refs, s), H[<<p, f[j]>>], G[<<p, j>>], s)
<1> DEFINE F == [k \in Refs |-> IF k[1] = p THEN <<p, f[k[2]]>> ELSE k]
           M == [k \in Refs |-> H[F[k]]]
<1>1. F \in [Refs -> Refs]
  BY DEF Refs
<1>2. \A k \in Refs : F[F[k]] = k
  BY DEF Refs
<1>3. \A k \in Refs : M[k] = H[F[k]]
  OBVIOUS
<1>4. \A k \in Refs \ {<<p, j>>} : G[k] = M[k]
  <2> TAKE k \in Refs \ {<<p, j>>}
  <2>1. PICK q \in Proc, l \in Kinds : k = <<q, l>>
    BY DEF Refs
  <2> QED
    BY <2>1, <1>1 DEF Refs
<1>5. <<p, j>> \in Refs /\ M[<<p, j>>] = H[<<p, f[j]>>]
  BY DEF Refs
<1> DEFINE z == <<p, j>>
<1> HIDE DEF F, M, z
<1>8. z \in Refs /\ \A k \in Refs \ {z} : G[k] = M[k]
  BY <1>4, <1>5 DEF z
<1>9. z = <<p, j>>
  BY DEF z
<1>6. Count(M, Refs, s) = Count(H, Refs, s)
  BY <1>1, <1>2, <1>3, RefsFinite, Reordered
<1>a. IsFiniteSet(Refs)
  BY RefsFinite
<1>7. Count(M, Refs, s) \in Nat /\ Count(G, Refs, s) \in Nat
  BY <1>a, <1>8, OneChange
<1>b. Count(G, Refs, s) = After(Count(M, Refs, s), M[z], G[z], s)
  BY <1>a, <1>8, OneChange
<1> QED
  BY <1>5, <1>6, <1>7, <1>9, <1>b

(* The holder of an entry keeps it in the table, two keep it twice. *)
LEMMA Holders1 ==
  ASSUME TypeOK, RefInv, NEW s \in Slot, NEW k \in Refs, Held[k] = s
  PROVE  /\ ref[s] > 0
         /\ \A j \in Refs : ref[s] = 1 /\ Held[j] = s => j = k
<1> DEFINE A == {j \in Refs : Held[j] = s}
<1>1. IsFiniteSet(A) /\ k \in A /\ ref[s] = Cardinality(A)
  BY RefsFinite, FS_Subset DEF RefInv
<1>2. Cardinality(A) \in Nat /\ Cardinality(A) # 0
  BY <1>1, FS_EmptySet, FS_CardinalityType
<1>3. ASSUME NEW j \in Refs, ref[s] = 1, Held[j] = s
      PROVE  j = k
  <2>1. PICK x : A = {x}
    BY <1>1, <1>3, FS_Singleton
  <2> QED
    BY <1>1, <1>3, <2>1
<1> QED
  BY <1>1, <1>2, <1>3

(* There is room in the table for an inode that is not in it. *)
LEMMA FreeSlot ==
  ASSUME TypeOK, TableInv, NEW i \in Inum, \A s \in Slot : ref[s] > 0 => inum[s] # i
  PROVE  \E s \in Slot : ref[s] = 0
<1> SUFFICES ASSUME \A s \in Slot : ref[s] # 0
             PROVE  FALSE
  OBVIOUS
<1>1. \A s \in Slot : ref[s] > 0
  BY DEF TypeOK
<1> DEFINE T == Inum \ {i}
           g == [s \in Slot |-> inum[s]]
<1>2. g \in [Slot -> T]
  BY <1>1, Numbers DEF TypeOK, TableInv
<1>3. \A s, r \in Slot : g[s] = g[r] => s = r
  BY <1>1 DEF TableInv
<1>4. IsFiniteSet(T) /\ Cardinality(T) = NINODES - 1
  BY Numbers, FS_RemoveElement
<1> HIDE DEF g
<1>5. g \in Injection(Slot, T)
  BY <1>2, <1>3, Fun_IsInj
<1>6. Cardinality(Slot) <= Cardinality(T)
  <2> HIDE DEF T
  <2> QED
    BY <1>4, <1>5, FS_Injection
<1> QED
  BY <1>4, <1>6, Numbers, Sizes

(* iget() returns the entry of the inode, or one that was not in use. *)
LEMMA Igotten ==
  ASSUME TypeOK, TableInv, NEW i \in Inum
  PROVE  /\ SlotOf(i) \in Slot
         /\ \/ ref[SlotOf(i)] > 0 /\ inum[SlotOf(i)] = i
            \/ ref[SlotOf(i)] = 0 /\ \A s \in Slot : ref[s] > 0 => inum[s] # i
         /\ \A s \in Slot : ref[s] > 0 /\ inum[s] = i => SlotOf(i) = s
<1> DEFINE has == {s \in Slot : ref[s] > 0 /\ inum[s] = i}
           new == {s \in Slot : ref[s] = 0}
<1>1. CASE has # {}
  <2>1. Min(has) \in has
    BY <1>1, Numbers, MinIn
  <2>2. SlotOf(i) = Min(has)
    BY <1>1 DEF SlotOf
  <2> QED
    BY <2>1, <2>2 DEF TableInv
<1>2. CASE has = {}
  <2>1. new # {}
    BY <1>2, FreeSlot
  <2>2. Min(new) \in new
    BY <2>1, Numbers, MinIn
  <2>3. SlotOf(i) = Min(new)
    BY <1>2 DEF SlotOf
  <2> QED
    BY <1>2, <2>2, <2>3
<1> QED
  BY <1>1, <1>2

(* The other processes do nothing. *)
Others(p) ==
  /\ t' = [q \in Proc |-> t'[q]]
  /\ \A q \in Proc \ {p} : t'[q] = t[q] /\ cwd'[q] = cwd[q] /\ file'[q] = file[q]

HeldNow(p, k)  == Holding(t[p], cwd[p], file[p], k)
HeldNext(p, k) == Holding(t'[p], cwd'[p], file'[p], k)
NextHeld == [k \in Refs |-> HeldNext(k[1], k[2])]

(* Held and NextHeld by process and kind. *)
LEMMA HeldIs ==
  ASSUME NEW p \in Proc, NEW k \in Kinds
  PROVE  <<p, k>> \in Refs /\ Held[<<p, k>>] = HeldNow(p, k) /\ NextHeld[<<p, k>>] = HeldNext(p, k)
  BY DEF Refs, Held, NextHeld, HeldNow, HeldNext

(* The references of the others stay. *)
LEMMA HeldElse ==
  ASSUME NEW p \in Proc, Others(p)
  PROVE  \A q \in Proc \ {p} : \A k \in Kinds : NextHeld[<<q, k>>] = Held[<<q, k>>]
<1> TAKE q \in Proc \ {p}
<1> TAKE k \in Kinds
<1>1. NextHeld[<<q, k>>] = HeldNext(q, k) /\ Held[<<q, k>>] = HeldNow(q, k)
  BY HeldIs
<1> QED
  BY <1>1 DEF Others, HeldNow, HeldNext

(* RefInv of the next state and of this one, as counts. *)
LEMMA RefInvNext ==
  ASSUME \A s \in Slot : ref'[s] = Count(NextHeld, Refs, s)
  PROVE  RefInv'
  BY DEF RefInv, Held, Count, NextHeld, HeldNext

(* The counts of this state. *)
LEMMA RefInvNow ==
  ASSUME RefInv
  PROVE  \A s \in Slot : ref[s] = Count(Held, Refs, s)
  BY DEF RefInv, Count

(* A count is a number. *)
LEMMA HeldCount ==
  ASSUME NEW s \in Slot
  PROVE  Count(Held, Refs, s) \in Nat
<1>1. IsFiniteSet({k \in Refs : Held[k] = s})
  BY RefsFinite, FS_Subset
<1> QED
  BY <1>1, FS_CardinalityType DEF Count

(* The references of p change places. *)
LEMMA RefsMoved ==
  ASSUME RefInv, NEW p \in Proc, Others(p), NEW f \in [Kinds -> Kinds], \A k \in Kinds : f[f[k]] = k,
         \A k \in Kinds : HeldNext(p, k) = HeldNow(p, f[k]),
         ref' = ref
  PROVE  RefInv'
<1>1. \A q \in Proc \ {p} : \A k \in Kinds : NextHeld[<<q, k>>] = Held[<<q, k>>]
  BY HeldElse
<1>2. \A k \in Kinds : NextHeld[<<p, k>>] = Held[<<p, f[k]>>]
  BY HeldIs
<1>3. PICK j \in Kinds : TRUE
  BY DEF Kinds
<1>a. \A s \in Slot : Count(Held, Refs, s) \in Nat
  BY HeldCount
<1>4. \A s \in Slot : Count(NextHeld, Refs, s) = After(Count(Held, Refs, s), Held[<<p, f[j]>>], NextHeld[<<p, j>>], s)
  BY <1>1, <1>2, Shifted
<1>5. \A s \in Slot : Count(NextHeld, Refs, s) = Count(Held, Refs, s)
  BY <1>2, <1>4, <1>a DEF One, After
<1> QED
  BY <1>5, RefInvNow, RefInvNext

(* And p gets one more. *)
LEMMA RefsGained ==
  ASSUME TypeOK, RefInv, NEW p \in Proc, Others(p), NEW f \in [Kinds -> Kinds], \A k \in Kinds : f[f[k]] = k,
         NEW j \in Kinds, NEW x \in Slot,
         \A k \in Kinds \ {j} : HeldNext(p, k) = HeldNow(p, f[k]),
         HeldNow(p, f[j]) = 0, HeldNext(p, j) = x,
         ref' = [ref EXCEPT ![x] = @ + 1]
  PROVE  RefInv'
<1>1. \A q \in Proc \ {p} : \A k \in Kinds : NextHeld[<<q, k>>] = Held[<<q, k>>]
  BY HeldElse
<1>2. \A k \in Kinds \ {j} : NextHeld[<<p, k>>] = Held[<<p, f[k]>>]
  BY HeldIs
<1>3. NextHeld[<<p, j>>] = x /\ Held[<<p, f[j]>>] = 0
  BY HeldIs
<1>a. \A s \in Slot : Count(Held, Refs, s) \in Nat
  BY HeldCount
<1>4. \A s \in Slot : Count(NextHeld, Refs, s) = After(Count(Held, Refs, s), Held[<<p, f[j]>>], NextHeld[<<p, j>>], s)
  BY <1>1, <1>2, Shifted
<1>5. \A s \in Slot : ref'[s] = Count(NextHeld, Refs, s)
  BY <1>3, <1>4, <1>a, Numbers, RefInvNow DEF TypeOK, One, After
<1> QED
  BY <1>5, RefInvNext

(* Or one less. *)
LEMMA RefsLost ==
  ASSUME TypeOK, RefInv, NEW p \in Proc, Others(p), NEW j \in Kinds, NEW x \in Slot,
         \A k \in Kinds \ {j} : HeldNext(p, k) = HeldNow(p, k),
         HeldNow(p, j) = x, HeldNext(p, j) = 0,
         ref' = [ref EXCEPT ![x] = @ - 1]
  PROVE  RefInv'
<1> DEFINE f == [k \in Kinds |-> k]
<1>0. f \in [Kinds -> Kinds] /\ \A k \in Kinds : f[k] = k /\ f[f[k]] = k
  OBVIOUS
<1> HIDE DEF f
<1>1. \A q \in Proc \ {p} : \A k \in Kinds : NextHeld[<<q, k>>] = Held[<<q, k>>]
  BY HeldElse
<1>2. \A k \in Kinds \ {j} : NextHeld[<<p, k>>] = Held[<<p, f[k]>>]
  BY <1>0, HeldIs
<1>3. NextHeld[<<p, j>>] = 0 /\ Held[<<p, f[j]>>] = x
  BY <1>0, HeldIs
<1>a. \A s \in Slot : Count(Held, Refs, s) \in Nat
  BY HeldCount
<1>4. \A s \in Slot : Count(NextHeld, Refs, s) = After(Count(Held, Refs, s), Held[<<p, f[j]>>], NextHeld[<<p, j>>], s)
  BY <1>0, <1>1, <1>2, Shifted
<1>5. \A s \in Slot : ref'[s] = Count(NextHeld, Refs, s)
  BY <1>3, <1>4, <1>a, Numbers, RefInvNow DEF TypeOK, One, After
<1> QED
  BY <1>5, RefInvNext

-----------------------------------------------------------------------------
(* What the invariant says of what a process holds.                        *)

(* What one of the references of p names is in the table. *)
LEMMA HolderRef ==
  ASSUME TypeOK, RefInv, TableInv, NEW p \in Proc, NEW k \in Kinds, HeldNow(p, k) \in Slot
  PROVE  /\ ref[HeldNow(p, k)] > 0 /\ inum[HeldNow(p, k)] \in Inum
         /\ \A q \in Proc, j \in Kinds :
              ref[HeldNow(p, k)] = 1 /\ HeldNow(q, j) = HeldNow(p, k) => q = p /\ j = k
<1> DEFINE s == HeldNow(p, k)
<1>1. <<p, k>> \in Refs /\ Held[<<p, k>>] = s
  BY HeldIs
<1>2. s \in Slot
  OBVIOUS
<1> HIDE DEF s
<1>3. ref[s] > 0 /\ \A j \in Refs : ref[s] = 1 /\ Held[j] = s => j = <<p, k>>
  BY <1>1, <1>2, Holders1
<1>4. inum[s] \in Inum
  BY <1>2, <1>3, Numbers DEF TypeOK, TableInv
<1>5. ASSUME NEW q \in Proc, NEW j \in Kinds, ref[s] = 1, HeldNow(q, j) = s
      PROVE  q = p /\ j = k
  <2>1. <<q, j>> \in Refs /\ Held[<<q, j>>] = s
    BY <1>5, HeldIs
  <2>2. <<q, j>> = <<p, k>>
    BY <1>3, <1>5, <2>1
  <2> QED
    BY <2>2
<1> QED
  BY <1>3, <1>4, <1>5 DEF s

(* The references by the state of the thread. *)
LEMMA CurHeld ==
  ASSUME ThreadInv, NEW p \in Proc, t[p].pc \in WithCur
  PROVE  t[p].cur \in Slot /\ "cur" \in Kinds /\ HeldNow(p, "cur") = t[p].cur
<1>1. t[p].cur \in 0..NINODE /\ t[p].cur # 0
  BY DEF ThreadInv, ThreadType, ThreadShape
<1> QED
  BY <1>1, Numbers DEF Kinds, HeldNow, Holding

(* The inode found first. *)
LEMMA IpHeld ==
  ASSUME ThreadInv, NEW p \in Proc, t[p].pc \in Second \/ (t[p].pc = "walk" /\ t[p].ip # 0)
  PROVE  t[p].ip \in Slot /\ "ip" \in Kinds /\ HeldNow(p, "ip") = t[p].ip
<1>1. t[p].ip \in 0..NINODE /\ t[p].ip # 0
  BY DEF ThreadInv, ThreadType, ThreadShape
<1> QED
  BY <1>1, Numbers DEF Kinds, HeldNow, Holding, WithIp

(* The file and the directory. *)
LEMMA UserHeld ==
  ASSUME TypeOK, NEW p \in Proc
  PROVE  /\ "file" \in Kinds /\ HeldNow(p, "file") = file[p] /\ (file[p] # 0 => file[p] \in Slot)
         /\ "cwd" \in Kinds /\ (t[p].pc # "moved" => HeldNow(p, "cwd") = cwd[p])
         /\ (cwd[p] # 0 => cwd[p] \in Slot)
  BY Numbers DEF TypeOK, Kinds, HeldNow, Holding

(* Sequences of one element and of two. *)
LEMMA ShortSeq ==
  ASSUME NEW S, NEW u \in Seq(S)
  PROVE  /\ Len(u) = 1 => u[1] \in S /\ u = <<u[1]>> /\ Tail(u) = <<>>
         /\ Len(u) = 2 => u[1] \in S /\ u[2] \in S /\ u = <<u[1], u[2]>> /\ Tail(u) = <<u[2]>>
<1>1. ASSUME Len(u) = 1
      PROVE  u[1] \in S /\ u = <<u[1]>> /\ Tail(u) = <<>>
  <2>1. u[1] \in S
    <3>1. PICK n \in 1..Len(u) : n = 1
      BY <1>1
    <3> QED
      BY <3>1, ElementOfSeq
  <2>2. <<u[1]>> \in Seq(S) /\ Len(<<u[1]>>) = 1 /\ <<u[1]>>[1] = u[1]
    BY <2>1
  <2>3. PICK w \in Seq(S) : w = <<u[1]>>
    BY <2>2
  <2>4. u = w
    BY <1>1, <2>2, <2>3, SeqEqual
  <2>5. u # <<>>
    BY <1>1, EmptySeq
  <2>6. Tail(u) \in Seq(S) /\ Len(Tail(u)) = 0
    BY <1>1, <2>5, HeadTailProperties
  <2> QED
    BY <2>1, <2>3, <2>4, <2>6, EmptySeq
<1>2. ASSUME Len(u) = 2
      PROVE  u[1] \in S /\ u[2] \in S /\ u = <<u[1], u[2]>> /\ Tail(u) = <<u[2]>>
  <2>1. u[1] \in S /\ u[2] \in S
    <3>1. PICK n \in 1..Len(u) : n = 1
      BY <1>2
    <3>2. PICK m \in 1..Len(u) : m = 2
      BY <1>2
    <3>3. u[n] \in S /\ u[m] \in S
      BY ElementOfSeq
    <3> QED
      BY <3>1, <3>2, <3>3
  <2>2. /\ <<u[1], u[2]>> \in Seq(S) /\ Len(<<u[1], u[2]>>) = 2
        /\ <<u[1], u[2]>>[1] = u[1] /\ <<u[1], u[2]>>[2] = u[2]
    BY <2>1
  <2>3. PICK w \in Seq(S) : w = <<u[1], u[2]>>
    BY <2>2
  <2>4. u = w
    <3>1. Len(u) = Len(w) /\ \A i \in 1..Len(u) : u[i] = w[i]
      BY <1>2, <2>2, <2>3
    <3> QED
      BY <3>1, SeqEqual
  <2>5. u # <<>>
    <3>1. Len(<<>>) = 0
      BY EmptySeq
    <3> QED
      BY <1>2, <3>1
  <2>6. PICK v : v = Tail(u)
    OBVIOUS
  <2>7. v \in Seq(S) /\ Len(v) = 1 /\ \A i \in 1..Len(v) : v[i] = u[i+1]
    BY <1>2, <2>5, <2>6, HeadTailProperties
  <2>a. <<u[2]>> \in Seq(S) /\ Len(<<u[2]>>) = 1 /\ <<u[2]>>[1] = u[2]
    BY <2>1
  <2>8. PICK x \in Seq(S) : x = <<u[2]>> /\ Len(x) = 1 /\ x[1] = u[2]
    BY <2>a
  <2>9. \A i \in 1..Len(v) : v[i] = x[i]
    <3>1. \A i \in 1..Len(v) : i = 1
      BY <2>7
    <3> QED
      BY <2>7, <2>8, <3>1
  <2>10. v = x
    BY <2>7, <2>8, <2>9, SeqEqual
  <2> QED
    BY <2>1, <2>3, <2>4, <2>6, <2>8, <2>10
<1> QED
  BY <1>1, <1>2

(* The queue of puts: its first is held until it has been given up. *)
LEMMA PutsAre ==
  ASSUME ThreadInv, NEW p \in Proc, t[p].puts # <<>>
  PROVE  /\ PutSlot(p) \in Slot /\ PutSlot(p) = t[p].puts[1] /\ PutSlot(p) \in Range(t[p].puts)
         /\ \/ Len(t[p].puts) = 1 /\ Tail(t[p].puts) = <<>> /\ t[p].puts = <<PutSlot(p)>>
            \/ /\ Len(t[p].puts) = 2 /\ Tail(t[p].puts) = <<t[p].puts[2]>>
               /\ t[p].puts = <<PutSlot(p), t[p].puts[2]>> /\ t[p].puts[2] \in Slot /\ t[p].pc = "end"
<1>1. t[p].puts \in Seq(Slot) /\ Len(t[p].puts) <= 2 /\ (Len(t[p].puts) = 2 => t[p].pc = "end")
  BY DEF ThreadInv, ThreadType, ThreadShape
<1>2. Len(t[p].puts) = 1 \/ Len(t[p].puts) = 2
  <2>1. Len(t[p].puts) \in Nat \ {0}
    BY <1>1, EmptySeq
  <2>2. PICK n \in Nat \ {0} : n = Len(t[p].puts)
    BY <2>1
  <2>3. n <= 2
    BY <1>1, <2>2
  <2>4. n = 1 \/ n = 2
    BY <2>3
  <2> QED
    BY <2>2, <2>4
<1>3. PutSlot(p) \in Slot /\ PutSlot(p) = t[p].puts[1] /\ PutSlot(p) \in Range(t[p].puts)
  BY <1>1 DEF PutSlot, Range
<1>4. CASE Len(t[p].puts) = 1
  BY <1>1, <1>3, <1>4, ShortSeq
<1>5. CASE Len(t[p].puts) = 2
  BY <1>1, <1>3, <1>5, ShortSeq
<1> QED
  BY <1>2, <1>3, <1>4, <1>5

(* Which kind of reference the first put is. *)
FirstPut(p) == IF Len(t[p].puts) = 2 THEN "first" ELSE "last"

(* It holds the entry that is put, until that is free. *)
LEMMA PutHeld ==
  ASSUME ThreadInv, NEW p \in Proc, t[p].puts # <<>>
  PROVE  /\ FirstPut(p) \in Kinds
         /\ HeldNow(p, FirstPut(p)) = IF t[p].put = "free" THEN 0 ELSE PutSlot(p)
         /\ Len(t[p].puts) = 2 => HeldNow(p, "last") = t[p].puts[2]
         /\ Len(t[p].puts) = 1 => HeldNow(p, "first") = 0
<1>1. CASE Len(t[p].puts) = 2
  BY <1>1, PutsAre DEF FirstPut, Kinds, HeldNow, Holding, PutAt
<1>2. CASE Len(t[p].puts) = 1
  BY <1>2, PutsAre DEF FirstPut, Kinds, HeldNow, Holding, PutAt
<1> QED
  BY <1>1, <1>2, PutsAre

(* No put to do. *)
LEMMA NoPuts ==
  ASSUME NEW x, NEW c, NEW f, x.puts = <<>>
  PROVE  Holding(x, c, f, "first") = 0 /\ Holding(x, c, f, "last") = 0
  BY DEF Holding, PutAt

(* One put to do. *)
LEMMA OnePut ==
  ASSUME NEW x, NEW c, NEW f, NEW s, x.puts = <<s>>, x.put = "test"
  PROVE  Holding(x, c, f, "first") = 0 /\ Holding(x, c, f, "last") = s
  BY DEF Holding, PutAt

(* Two puts to do. *)
LEMMA TwoPuts ==
  ASSUME NEW x, NEW c, NEW f, NEW s, NEW r, x.puts = <<s, r>>, x.put = "test"
  PROVE  Holding(x, c, f, "first") = s /\ Holding(x, c, f, "last") = r
  BY DEF Holding, PutAt

(* Who has a lock holds the entry. *)
LEMMA LockerHolds ==
  ASSUME TypeOK, ThreadInv, LockInv, NEW p \in Proc, NEW s \in Slot, lock[s] = p
  PROVE  \E k \in Kinds : HeldNow(p, k) = s
<1>1. s \in MayLock(p)
  BY DEF LockInv, LockOf
<1>2. CASE s = t[p].ip /\ t[p].pc \in Locking
  <2>1. t[p].pc \in Second
    BY <1>2 DEF Locking, Second
  <2> QED
    BY <1>2, <2>1, IpHeld
<1>3. CASE s = t[p].cur /\ t[p].pc = "unlink_child"
  <2>1. t[p].pc \in WithCur
    BY <1>3 DEF WithCur, Finds
  <2> QED
    BY <1>3, <2>1, CurHeld
<1>4. CASE s \in Range(t[p].puts)
  <2>1. t[p].puts # <<>>
    BY <1>4 DEF Range
  <2>2. \/ Len(t[p].puts) = 1 /\ s = PutSlot(p)
        \/ Len(t[p].puts) = 2 /\ (s = PutSlot(p) \/ s = t[p].puts[2])
    <3>1. CASE Len(t[p].puts) = 1
      BY <1>4, <2>1, <3>1, PutsAre DEF Range
    <3>2. CASE Len(t[p].puts) = 2
      <4>1. t[p].puts = <<PutSlot(p), t[p].puts[2]>>
        BY <2>1, <3>2, PutsAre
      <4>2. \A i \in DOMAIN t[p].puts : i = 1 \/ i = 2
        BY <3>2 DEF ThreadInv, ThreadType
      <4> QED
        BY <1>4, <3>2, <4>1, <4>2 DEF Range
    <3> QED
      BY <2>1, <3>1, <3>2, PutsAre
  <2>3. CASE s = PutSlot(p)
    <3>1. t[p].put # "free"
      BY <2>3 DEF LockInv, LockOf
    <3> QED
      BY <2>1, <2>3, <3>1, PutHeld
  <2>4. CASE Len(t[p].puts) = 2 /\ s = t[p].puts[2]
    <3>1. "last" \in Kinds
      BY DEF Kinds
    <3> QED
      BY <2>1, <2>4, <3>1, PutHeld
  <2> QED
    BY <2>2, <2>3, <2>4
<1> QED
  BY <1>1, <1>2, <1>3, <1>4 DEF MayLock

-----------------------------------------------------------------------------
(* What a step leaves alone.                                               *)

(* What Go() writes. *)
LEMMA GoFields ==
  ASSUME NEW p \in Proc, NEW r, Go(p, r), ThreadInv
  PROVE  /\ t' = [q \in Proc |-> t'[q]]
         /\ \A q \in Proc \ {p} : t'[q] = t[q]
         /\ \A f \in Fields : t'[p][f] = IF f \in DOMAIN r THEN r[f] ELSE t[p][f]
<1>1. DOMAIN Idle = Fields
  BY DEF Idle, Fields
<1>2. t = [q \in Proc |-> t[q]]
  BY DEF ThreadInv
<1> QED
  BY <1>1, <1>2 DEF Go

(* The threads of the others, past the start. *)
LEMMA ThreadFrame ==
  ASSUME ThreadInv, NEW p \in Proc, Others(p), t[p].pc \notin Boots, t'[p].pc \notin Boots,
         ThreadType(t'[p]), ThreadShape(t'[p]), cwd'[p] # 0,
         active \ {p} \subseteq active', t'[p].pc = "idle" \/ p \in active'
  PROVE  ThreadInv' /\ \A q \in Proc : t[q].pc \notin Boots /\ cwd[q] # 0
<1>1. \A q \in Proc : t[q].pc \notin Boots /\ cwd[q] # 0
  BY DEF ThreadInv, BootInv, Boots
<1>2. \A q \in Proc : t'[q].pc \notin Boots /\ cwd'[q] # 0
  BY <1>1 DEF Others
<1>3. \A q \in Proc : ThreadType(t'[q]) /\ ThreadShape(t'[q])
  BY DEF ThreadInv, Others
<1>4. \A q \in Proc : t'[q].pc \notin {"idle", "down", "reclaim"} => q \in active'
  BY DEF ThreadInv, ActiveInv, Others
<1>5. t' = [q \in Proc |-> t'[q]]
  BY DEF Others
<1> QED
  BY <1>1, <1>2, <1>3, <1>4, <1>5 DEF ThreadInv, BootInv, ActiveInv

(* The locks of the others. *)
LEMMA LockFrame ==
  ASSUME TypeOK, ThreadInv, LockInv, NEW p \in Proc, Others(p),
         \A s \in Slot : lock'[s] # lock[s] => lock[s] \in {None, p} /\ lock'[s] \in {None, p},
         LockOf(p)'
  PROVE  LockInv'
<1> SUFFICES ASSUME NEW q \in Proc \ {p}
             PROVE  LockOf(q)'
  BY DEF LockInv
<1>0. LockOf(q) /\ t'[q] = t[q]
  BY DEF LockInv, Others
<1>1. \A s \in Slot : lock'[s] = q <=> lock[s] = q
  BY Sizes
<1>2. t[q].pc \in Locking => t[q].ip \in Slot
  BY IpHeld DEF Locking, Second
<1>3. t[q].pc = "unlink_child" => t[q].cur \in Slot
  BY CurHeld DEF WithCur, Finds
<1>4. t[q].put # "test" => PutSlot(q) \in Slot
  <2>1. t[q].put # "test" => t[q].puts # <<>>
    BY DEF ThreadInv, ThreadShape
  <2> QED
    BY <2>1, PutsAre
<1>5. MayLock(q)' = MayLock(q) /\ PutSlot(q)' = PutSlot(q)
  BY <1>0 DEF MayLock, PutSlot
<1>6. (\A s \in Slot : lock[s] = q => s \in MayLock(q))'
  BY <1>0, <1>1, <1>5 DEF LockOf
<1>7. (t[q].pc \in Locking => lock[t[q].ip] = q /\ t[q].ip \notin Range(t[q].puts))'
  BY <1>0, <1>1, <1>2 DEF LockOf
<1>8. (t[q].pc = "unlink_child" => lock[t[q].cur] = q)'
  BY <1>0, <1>1, <1>3 DEF LockOf
<1>9. (t[q].put = "trunc" => lock[PutSlot(q)] = q)'
  BY <1>0, <1>1, <1>4, <1>5 DEF LockOf
<1>10. (t[q].put \in {"drop", "free"} => lock[PutSlot(q)] # q)'
  BY <1>0, <1>1, <1>4, <1>5 DEF LockOf
<1> QED
  BY <1>6, <1>7, <1>8, <1>9, <1>10 DEF LockOf

(* iget() keeps the table: no inode has two entries. *)
LEMMA IgetTable ==
  ASSUME TypeOK, TableInv, NEW i \in Inum, Iget(i),
         valid' \subseteq valid \union {SlotOf(i)} \union {s \in Slot : ref[s] > 0}
  PROVE  /\ TableInv' /\ ref' \in [Slot -> Nat] /\ inum' \in [Slot -> 0..NINODES]
         /\ SlotOf(i) \in Slot /\ ref'[SlotOf(i)] > 0 /\ inum'[SlotOf(i)] = i
         /\ \A s \in Slot : ref[s] > 0 => ref'[s] > 0 /\ inum'[s] = inum[s]
         /\ \A s \in Slot : s # SlotOf(i) => ref'[s] = ref[s] /\ inum'[s] = inum[s]
         /\ ref' = [ref EXCEPT ![SlotOf(i)] = @ + 1]
<1> DEFINE x == SlotOf(i)
<1>1. /\ x \in Slot
      /\ \/ ref[x] > 0 /\ inum[x] = i
         \/ ref[x] = 0 /\ \A s \in Slot : ref[s] > 0 => inum[s] # i
      /\ \A s \in Slot : ref[s] > 0 /\ inum[s] = i => x = s
  BY Igotten
<1>2. ref' = [ref EXCEPT ![x] = @ + 1] /\ inum' = [inum EXCEPT ![x] = i]
  BY DEF Iget
<1>3. valid' \subseteq valid \union {x} \union {s \in Slot : ref[s] > 0}
  OBVIOUS
<1> HIDE DEF x
<1>4. /\ \A s \in Slot : s # x => ref'[s] = ref[s] /\ inum'[s] = inum[s]
      /\ ref'[x] = ref[x] + 1 /\ inum'[x] = i
  BY <1>1, <1>2 DEF TypeOK
<1>5. ref \in [Slot -> Nat] /\ inum \in [Slot -> 0..NINODES] /\ i \in 0..NINODES /\ i # 0
  BY Numbers DEF TypeOK
<1>6. ref' \in [Slot -> Nat] /\ inum' \in [Slot -> 0..NINODES]
  BY <1>1, <1>2, <1>5
<1>7. ref'[x] > 0
  BY <1>1, <1>4, <1>5
<1>8. \A s \in Slot : ref[s] > 0 => ref'[s] > 0 /\ inum'[s] = inum[s]
  BY <1>1, <1>4, <1>7
<1>9. \A s \in Slot : ref'[s] > 0 => inum'[s] # 0
  BY <1>1, <1>4, <1>5 DEF TableInv
<1>10. \A s \in Slot : ref'[s] = 0 => inum'[s] = 0 /\ s \notin valid'
  <2> SUFFICES ASSUME NEW s \in Slot, ref'[s] = 0
               PROVE  inum'[s] = 0 /\ s \notin valid'
    OBVIOUS
  <2>1. s # x /\ ref[s] = 0
    BY <1>4, <1>7
  <2> QED
    BY <1>3, <1>4, <2>1 DEF TableInv
<1>11. \A s, r \in Slot : ref'[s] > 0 /\ ref'[r] > 0 /\ inum'[s] = inum'[r] => s = r
  BY <1>1, <1>4 DEF TableInv
<1>12. TableInv'
  BY <1>9, <1>10, <1>11 DEF TableInv
<1> QED
  BY <1>1, <1>2, <1>4, <1>6, <1>7, <1>8, <1>12 DEF x

(* What a process in the last phases of a put holds is its own. *)
LEMMA PutAlone ==
  ASSUME TypeOK, ThreadInv, RefInv, TableInv, PutInv, NEW q \in Proc, t[q].put # "test",
         NEW p \in Proc \ {q}, NEW k \in Kinds, HeldNow(p, k) \in Slot
  PROVE  /\ inum[HeldNow(p, k)] # t[q].inum
         /\ t[q].put \in {"trunc", "drop"} => HeldNow(p, k) # PutSlot(q)
<1> DEFINE s == HeldNow(p, k)
<1>1. s \in Slot /\ ref[s] > 0 /\ (\A r \in Proc, j \in Kinds : ref[s] = 1 /\ HeldNow(r, j) = s => r = p)
  BY HolderRef
<1>2. CASE t[q].put = "free"
  BY <1>1, <1>2 DEF PutInv
<1>3. CASE t[q].put \in {"trunc", "drop"}
  <2>1. t[q].puts # <<>>
    BY <1>3 DEF ThreadInv, ThreadShape
  <2>2. HeldNow(q, FirstPut(q)) = PutSlot(q) /\ PutSlot(q) \in Slot /\ FirstPut(q) \in Kinds
    BY <1>3, <2>1, PutHeld, PutsAre
  <2>3. ref[PutSlot(q)] = 1 /\ inum[PutSlot(q)] = t[q].inum
    BY <1>3 DEF PutInv
  <2> HIDE DEF s
  <2>4. s # PutSlot(q)
    BY <1>1, <2>2, <2>3
  <2>5. inum[s] # inum[PutSlot(q)]
    BY <1>1, <2>2, <2>3, <2>4 DEF TableInv
  <2> QED
    BY <2>3, <2>4, <2>5 DEF s
<1>4. t[q].put \in Phases
  BY DEF ThreadInv, ThreadType
<1> QED
  BY <1>2, <1>3, <1>4 DEF Phases

-----------------------------------------------------------------------------
(* Steps that leave the disk alone.                                        *)

(* The links that are counted. *)
LEMMA LinkFrame ==
  ASSUME ThreadInv, ThreadInv', inode' = inode,
         \A q \in Proc : /\ Counted(q)' = Counted(q)
                         /\ t'[q].pc = "unlinked" <=> t[q].pc = "unlinked"
                         /\ Counted(q) # 0 => inum'[Counted(q)] = inum[Counted(q)]
  PROVE  Linking' = Linking /\ Dying' = Dying /\ Live' = Live
<1>1. \A q \in Proc : t[q].pc = "unlinked" => Counted(q) = t[q].ip /\ Counted(q) # 0
  BY IpHeld, Numbers DEF Second, Counted
<1>2. \A q \in Proc : t'[q].pc = "unlinked" => Counted(q)' = t'[q].ip
  BY DEF Counted
<1>3. Dying' = Dying
  <2>1. \A i \in Inum : (\E q \in Proc : t'[q].pc = "unlinked" /\ inum'[t'[q].ip] = i)
                        <=> (\E q \in Proc : t[q].pc = "unlinked" /\ inum[t[q].ip] = i)
    BY <1>1, <1>2
  <2> QED
    BY <2>1 DEF Dying
<1>4. Live' = Live
  BY <1>3 DEF Live, Dirs, Linked
<1>5. ASSUME NEW k \in Links0
      PROVE  Linking'[k] = Linking[k]
  <2>1. CASE k[1] = "entry"
    BY <1>4, <2>1 DEF Linking
  <2>2. CASE k[1] # "entry"
    <3>1. k[2] \in Proc
      BY <2>2 DEF Links0
    <3>2. PICK q \in Proc : q = k[2]
      BY <3>1
    <3>3. Linking[k] = IF Counted(q) = 0 THEN 0 ELSE inum[Counted(q)]
      BY <2>2, <3>2 DEF Linking
    <3>4. Linking'[k] = IF Counted(q)' = 0 THEN 0 ELSE inum'[Counted(q)']
      BY <2>2, <3>2 DEF Linking
    <3> QED
      BY <3>3, <3>4
  <2> QED
    BY <2>1, <2>2
<1>6. Linking = [k \in Links0 |-> Linking[k]] /\ Linking' = [k \in Links0 |-> Linking'[k]]
  BY DEF Linking
<1> QED
  BY <1>3, <1>4, <1>5, <1>6

(* The inodes and their links, when the links counted are the same. *)
LEMMA DiskFrame ==
  ASSUME inode' = inode, used' = used, Linking' = Linking, Dying' = Dying, Live' = Live,
         LinkInv, EntryInv, DirInv, BlockInv
  PROVE  LinkInv' /\ EntryInv' /\ DirInv' /\ BlockInv'
<1>1. LinkInv'
  BY DEF LinkInv
<1>2. EntryInv'
  BY DEF EntryInv, Linked
<1>3. DirInv'
  BY DEF DirInv, Dirs, Linked, Entries, IsDirEmpty
<1>4. BlockInv'
  BY DEF BlockInv, BlocksRight, Owned
<1> QED
  BY <1>1, <1>2, <1>3, <1>4

(* What the others know of the inodes they hold. *)
LEMMA KnowsFrame ==
  ASSUME ThreadInv, HeldInv, NEW p \in Proc, Others(p),
         \A q \in Proc \ {p}, k \in Kinds : HeldNow(q, k) \in Slot =>
           /\ inum'[HeldNow(q, k)] = inum[HeldNow(q, k)]
           /\ HeldNow(q, k) \in valid => HeldNow(q, k) \in valid'
           /\ inode'[inum[HeldNow(q, k)]].type = inode[inum[HeldNow(q, k)]].type,
         \A q \in Proc \ {p} : t[q].pc = "unlink_child" =>
           inode'[inum[t[q].cur]].dir = inode[inum[t[q].cur]].dir
  PROVE  \A q \in Proc \ {p} : Knows(q)'
<1> TAKE q \in Proc \ {p}
<1>0. Knows(q) /\ t'[q] = t[q]
  BY DEF HeldInv, Others
<1>1. t[q].pc \in Second \/ (t[q].pc = "walk" /\ t[q].ip # 0) =>
        /\ inum'[t[q].ip] = inum[t[q].ip]
        /\ t[q].ip \in valid => t[q].ip \in valid'
        /\ inode'[inum[t[q].ip]].type = inode[inum[t[q].ip]].type
  BY IpHeld
<1>2. t[q].pc \in WithCur =>
        /\ inum'[t[q].cur] = inum[t[q].cur]
        /\ inode'[inum[t[q].cur]].type = inode[inum[t[q].cur]].type
  BY CurHeld
<1>3. (t[q].pc \in {"walk", "link_new", "link_bad"} /\ t[q].ip # 0 => Ip(t[q].ip).type # "dir" /\ t[q].ip \in valid)'
  BY <1>0, <1>1 DEF Knows, Ip, Second
<1>4. (t[q].pc \in {"create", "unlink", "unlink_child", "link_new"} => Ip(t[q].cur).type = "dir")'
  BY <1>0, <1>2 DEF Knows, Ip, WithCur, Finds
<1>5. (t[q].pc = "unlink_child" => Ip(t[q].cur).dir[t[q].name] = inum[t[q].ip])'
  BY <1>0, <1>1, <1>2 DEF Knows, Ip, Second, WithCur, Finds
<1>6. (t[q].pc = "unlinked" => t[q].ip \in valid)'
  BY <1>0, <1>1 DEF Knows, Second
<1> QED
  BY <1>3, <1>4, <1>5, <1>6 DEF Knows

(* The last puts of the others. *)
LEMMA PutFrame ==
  ASSUME ThreadInv, PutInv, NEW p \in Proc, Others(p), t[p].put = "test", t'[p].put = "test",
         t'[p].pc \notin Boots,
         \A q \in Proc \ {p} : t[q].pc \notin Boots,
         \A q \in Proc \ {p} : t[q].put # "test" => inode'[t[q].inum] = inode[t[q].inum],
         \A q \in Proc \ {p} : t[q].put \in {"trunc", "drop"} =>
           ref'[PutSlot(q)] = ref[PutSlot(q)] /\ inum'[PutSlot(q)] = inum[PutSlot(q)],
         \A q \in Proc \ {p} : t[q].put = "free" =>
           \A s \in Slot : inum[s] # t[q].inum => inum'[s] # t[q].inum
  PROVE  PutInv'
<1>0. \A q \in Proc : t'[q].put # "test" => q # p /\ t'[q] = t[q] /\ PutSlot(q)' = PutSlot(q)
  BY DEF Others, PutSlot
<1>1. (\A q \in Proc : t[q].put # "test" => t[q].inum \in Inum /\ Gone(t[q].inum))'
  BY <1>0 DEF PutInv, Gone
<1>2. (\A q \in Proc : t[q].put \in {"drop", "free"} =>
         Owned(inode[t[q].inum]) = {} /\ inode[t[q].inum].dir = NoEntries)'
  <2> SUFFICES ASSUME NEW q \in Proc, t'[q].put \in {"drop", "free"}
               PROVE  Owned(inode'[t'[q].inum]) = {} /\ inode'[t'[q].inum].dir = NoEntries
    BY DEF Owned
  <2>1. q # p /\ t'[q] = t[q] /\ t[q].put \in {"drop", "free"}
    BY <1>0
  <2>2. inode'[t[q].inum] = inode[t[q].inum]
    BY <2>1
  <2> QED
    BY <2>1, <2>2 DEF PutInv
<1>3. (\A q \in Proc : t[q].put \in {"trunc", "drop"} => ref[PutSlot(q)] = 1 /\ inum[PutSlot(q)] = t[q].inum)'
  BY <1>0 DEF PutInv
<1>4. (\A q \in Proc : t[q].put = "free" => \A s \in Slot : inum[s] # t[q].inum)'
  BY <1>0 DEF PutInv
<1>5. (\A q, r \in Proc : t[q].put = "free" /\ t[r].put = "free" /\ t[q].inum = t[r].inum => q = r)'
  BY <1>0 DEF PutInv
<1>6. (\A q \in Proc : t[q].pc = "reclaimed" /\ t[q].put = "test" /\ t[q].puts # <<>> => inum[PutSlot(q)] = t[q].inum)'
  BY DEF Others, Boots
<1> QED
  BY <1>1, <1>2, <1>3, <1>4, <1>5, <1>6 DEF PutInv

(* The inodes without links. *)
LEMMA OrphanFrame ==
  ASSUME TypeOK, ThreadInv, TableInv, OrphanInv, NEW p \in Proc, Others(p), t[p].put = "test", t[p].pc \notin Boots,
         \A s \in Slot : ref[s] > 0 => inum'[s] = inum[s],
         \A i \in Inum : inode'[i].type # "free" /\ inode'[i].nlink = 0 => Orphan(i) \/ \E s \in Slot : inum'[s] = i,
         \A s \in Slot : ref'[s] > 0 /\ inode'[inum'[s]].nlink = 0 =>
           s \in valid' \/ (ref[s] > 0 /\ inode[inum[s]].nlink = 0),
         valid \subseteq valid'
  PROVE  OrphanInv'
<1>0. \A q \in Proc : t[q].put # "test" \/ t[q].pc \in Boots => q # p /\ t'[q] = t[q] /\ PutSlot(q)' = PutSlot(q)
  BY DEF Others, PutSlot
<1>1. ASSUME NEW s \in Slot, ref'[s] > 0, inode'[inum'[s]].nlink = 0
      PROVE  s \in valid' \/ \E q \in Proc : t'[q].put = "drop" /\ PutSlot(q)' = s
  <2>1. CASE ref[s] > 0 /\ inode[inum[s]].nlink = 0
    BY <1>0, <2>1 DEF OrphanInv, Ip
  <2> QED
    BY <1>1, <2>1
<1>2. ASSUME NEW i \in Inum, inode'[i].type # "free", inode'[i].nlink = 0
      PROVE  \/ \E s \in Slot : inum'[s] = i
             \/ \E q \in Proc : t'[q].put = "free" /\ t'[q].inum = i
             \/ \E q \in Proc : t'[q].pc = "reclaim" /\ t'[q].inum <= i
             \/ \E q \in Proc : t'[q].pc = "reclaimed" /\ t'[q].inum < i
  <2>1. CASE \E s \in Slot : inum'[s] = i
    BY <2>1
  <2>2. CASE Orphan(i)
    <3>1. CASE \E s \in Slot : inum[s] = i
      <4>1. PICK s \in Slot : inum[s] = i
        BY <3>1
      <4>2. ref[s] > 0
        BY <4>1, Numbers DEF TypeOK, TableInv
      <4> QED
        BY <4>1, <4>2
    <3>2. CASE \E q \in Proc : t[q].put = "free" /\ t[q].inum = i
      BY <1>0, <3>2
    <3>3. CASE \E q \in Proc : t[q].pc = "reclaim" /\ t[q].inum <= i
      BY <1>0, <3>3 DEF Boots
    <3>4. CASE \E q \in Proc : t[q].pc = "reclaimed" /\ t[q].inum < i
      BY <1>0, <3>4 DEF Boots
    <3> QED
      BY <2>2, <3>1, <3>2, <3>3, <3>4 DEF OrphanInv
  <2> QED
    BY <1>2, <2>1, <2>2
<1>3. (\A s \in Slot : ref[s] > 0 /\ Ip(s).nlink = 0 => s \in valid \/ \E q \in Proc : t[q].put = "drop" /\ PutSlot(q) = s)'
  BY <1>1 DEF Ip
<1>4. (\A i \in Inum : Orphan(i) =>
       \/ \E s \in Slot : inum[s] = i
       \/ \E q \in Proc : t[q].put = "free" /\ t[q].inum = i
       \/ \E q \in Proc : t[q].pc = "reclaim" /\ t[q].inum <= i
       \/ \E q \in Proc : t[q].pc = "reclaimed" /\ t[q].inum < i)'
  BY <1>2 DEF Orphan
<1> QED
  BY <1>3, <1>4 DEF OrphanInv

(* The inode that p has counted a link to is one it holds. *)
LEMMA CountedHeld ==
  ASSUME TypeOK, ThreadInv, RefInv, TableInv, NEW p \in Proc, Counted(p) # 0
  PROVE  Counted(p) \in Slot /\ ref[Counted(p)] > 0 /\ HeldNow(p, "ip") = Counted(p) /\ "ip" \in Kinds
<1>1. /\ Counted(p) = t[p].ip /\ (t[p].pc \in Second \/ (t[p].pc = "walk" /\ t[p].ip # 0))
  BY DEF Counted, Second
<1>2. t[p].ip \in Slot /\ "ip" \in Kinds /\ HeldNow(p, "ip") = t[p].ip
  BY <1>1, IpHeld
<1>3. ref[HeldNow(p, "ip")] > 0
  BY <1>2, HolderRef
<1> QED
  BY <1>1, <1>2, <1>3

(* A step of a call that neither writes nor puts an inode for the last     *)
(* time.                                                                   *)
Calm(p) ==
  /\ Others(p) /\ inode' = inode /\ used' = used /\ saved' = saved /\ crashes' = crashes
  /\ t[p].pc \notin Boots /\ t'[p].pc \notin Boots
  /\ t[p].put = "test" /\ t'[p].put = "test"
  /\ ThreadType(t'[p]) /\ ThreadShape(t'[p])
  /\ cwd' \in [Proc -> 0..NINODE] /\ file' \in [Proc -> 0..NINODE] /\ cwd'[p] # 0
  /\ active \ {p} \subseteq active' /\ active' \subseteq Proc /\ (t'[p].pc = "idle" \/ p \in active')
  /\ ops' \in 0..MaxOps /\ valid \subseteq valid'
  /\ lock' \in [Slot -> Proc \union {None}]
  /\ \A s \in Slot : lock'[s] # lock[s] => lock[s] \in {None, p} /\ lock'[s] \in {None, p}
  /\ LockOf(p)' /\ Knows(p)'
  /\ Counted(p)' = Counted(p) /\ (t'[p].pc = "unlinked" <=> t[p].pc = "unlinked")

(* An inode that iget() may be called with: one with a link, or one that p *)
(* holds.                                                                  *)
Alive(p, i) ==
  /\ i \in Inum /\ inode[i].type # "free"
  /\ inode[i].nlink # 0 \/ \E k \in Kinds : HeldNow(p, k) \in Slot /\ inum[HeldNow(p, k)] = i

(* Nobody is putting it for the last time. *)
LEMMA AliveAlone ==
  ASSUME TypeOK, ThreadInv, RefInv, TableInv, PutInv, NEW p \in Proc, NEW i, Alive(p, i),
         NEW q \in Proc \ {p}, t[q].put # "test"
  PROVE  i # t[q].inum
<1>1. CASE inode[i].nlink # 0
  BY <1>1 DEF PutInv, Gone
<1>2. CASE \E k \in Kinds : HeldNow(p, k) \in Slot /\ inum[HeldNow(p, k)] = i
  BY <1>2, PutAlone
<1> QED
  BY <1>1, <1>2 DEF Alive

(* A calm step keeps what the table need not change for. *)
LEMMA CalmFrame ==
  ASSUME IInv, NEW p \in Proc, Calm(p), RefInv', TableInv',
         ref' \in [Slot -> Nat], inum' \in [Slot -> 0..NINODES], valid' \subseteq Slot,
         \A s \in Slot : ref[s] > 0 => inum'[s] = inum[s],
         \A s \in Slot : ref'[s] > 0 => ref[s] > 0 \/ (inode[inum'[s]].type # "free" /\ inode[inum'[s]].nlink # 0),
         \A q \in Proc \ {p} : t[q].put \in {"trunc", "drop"} =>
           ref'[PutSlot(q)] = ref[PutSlot(q)] /\ inum'[PutSlot(q)] = inum[PutSlot(q)],
         \A q \in Proc \ {p} : t[q].put = "free" =>
           \A s \in Slot : inum[s] # t[q].inum => inum'[s] # t[q].inum
  PROVE  IInv'
<1>1. TypeOK'
  <2>1. [inode |-> inode, used |-> used]' \in Image /\ saved' \in Image
    BY DEF IInv, TypeOK, Calm
  <2>2. \A s, r \in Slot : ref'[s] > 0 /\ ref'[r] > 0 /\ inum'[s] = inum'[r] => s = r
    BY DEF TableInv
  <2>3. crashes' \in 0..MaxCrashes
    BY DEF IInv, TypeOK, Calm
  <2> QED
    BY <2>1, <2>2, <2>3 DEF Calm, TypeOK
<1>2. SavedConsistent'
  BY DEF IInv, Calm, SavedConsistent
<1>3. ThreadInv' /\ \A q \in Proc : t[q].pc \notin Boots /\ cwd[q] # 0
  BY ThreadFrame DEF IInv, Calm
<1>4. LockInv'
  BY LockFrame DEF IInv, Calm
<1>5. LinkInv' /\ EntryInv' /\ DirInv' /\ BlockInv'
  <2>1. \A q \in Proc : Counted(q)' = Counted(q) /\ (t'[q].pc = "unlinked" <=> t[q].pc = "unlinked")
    BY DEF Calm, Others, Counted
  <2>2. \A q \in Proc : Counted(q) # 0 => inum'[Counted(q)] = inum[Counted(q)]
    BY CountedHeld DEF IInv
  <2>3. Linking' = Linking /\ Dying' = Dying /\ Live' = Live
    BY <1>3, <2>1, <2>2, LinkFrame DEF IInv, Calm
  <2> QED
    BY <2>3, DiskFrame DEF IInv, Calm
<1>6. \A q \in Proc \ {p} : Knows(q)'
  <2>1. \A q \in Proc, k \in Kinds : HeldNow(q, k) \in Slot => ref[HeldNow(q, k)] > 0
    BY HolderRef DEF IInv
  <2>2. \A q \in Proc \ {p}, k \in Kinds : HeldNow(q, k) \in Slot =>
           /\ inum'[HeldNow(q, k)] = inum[HeldNow(q, k)]
           /\ HeldNow(q, k) \in valid => HeldNow(q, k) \in valid'
           /\ inode'[inum[HeldNow(q, k)]].type = inode[inum[HeldNow(q, k)]].type
    BY <2>1 DEF Calm
  <2> QED
    BY <2>2, KnowsFrame DEF IInv, Calm
<1>7. HeldInv'
  <2>1. \A s \in Slot : ref'[s] > 0 => inode'[inum'[s]].type # "free"
    BY DEF Calm, IInv, HeldInv, Ip
  <2> QED
    BY <1>6, <2>1 DEF Calm, HeldInv, Ip
<1>8. PutInv'
  BY <1>3, PutFrame DEF IInv, Calm
<1>9. OrphanInv'
  <2>1. \A i \in Inum : inode'[i].type # "free" /\ inode'[i].nlink = 0 => Orphan(i) \/ \E s \in Slot : inum'[s] = i
    BY DEF Calm, Orphan
  <2>2. \A s \in Slot : ref'[s] > 0 /\ inode'[inum'[s]].nlink = 0 =>
          s \in valid' \/ (ref[s] > 0 /\ inode[inum[s]].nlink = 0)
    BY DEF Calm
  <2> QED
    BY <2>1, <2>2, OrphanFrame DEF IInv, Calm
<1> QED
  BY <1>1, <1>2, <1>3, <1>4, <1>5, <1>7, <1>8, <1>9 DEF IInv

(* The references of p change places, and the table stays. *)
LEMMA CalmMove ==
  ASSUME IInv, NEW p \in Proc, Calm(p), ref' = ref, inum' = inum,
         valid' \subseteq valid \union {s \in Slot : ref[s] > 0},
         NEW f \in [Kinds -> Kinds], \A k \in Kinds : f[f[k]] = k,
         \A k \in Kinds : HeldNext(p, k) = HeldNow(p, f[k])
  PROVE  IInv'
<1>1. RefInv'
  BY RefsMoved DEF IInv, Calm
<1>2. TableInv'
  BY DEF IInv, TableInv, TypeOK
<1>3. ref' \in [Slot -> Nat] /\ inum' \in [Slot -> 0..NINODES] /\ valid' \subseteq Slot
  BY DEF IInv, TypeOK
<1> QED
  BY <1>1, <1>2, <1>3, CalmFrame

(* And p gets an inode. *)
LEMMA CalmGet ==
  ASSUME IInv, NEW p \in Proc, Calm(p), NEW i, Alive(p, i), Iget(i),
         valid' \subseteq valid \union {SlotOf(i)} \union {s \in Slot : ref[s] > 0},
         NEW f \in [Kinds -> Kinds], \A k \in Kinds : f[f[k]] = k, NEW j \in Kinds,
         \A k \in Kinds \ {j} : HeldNext(p, k) = HeldNow(p, f[k]),
         HeldNow(p, f[j]) = 0, HeldNext(p, j) = SlotOf(i)
  PROVE  IInv'
<1>0. i \in Inum /\ TypeOK /\ TableInv /\ RefInv /\ ThreadInv /\ PutInv
  BY DEF Alive, IInv
<1>1. /\ TableInv' /\ ref' \in [Slot -> Nat] /\ inum' \in [Slot -> 0..NINODES]
      /\ SlotOf(i) \in Slot /\ ref'[SlotOf(i)] > 0 /\ inum'[SlotOf(i)] = i
      /\ \A s \in Slot : ref[s] > 0 => ref'[s] > 0 /\ inum'[s] = inum[s]
      /\ \A s \in Slot : s # SlotOf(i) => ref'[s] = ref[s] /\ inum'[s] = inum[s]
      /\ ref' = [ref EXCEPT ![SlotOf(i)] = @ + 1]
  BY <1>0, IgetTable
<1>2. RefInv'
  <2>1. PICK x \in Slot : x = SlotOf(i)
    BY <1>1
  <2>2. ref' = [ref EXCEPT ![x] = @ + 1] /\ HeldNext(p, j) = x /\ Others(p)
    BY <1>1, <2>1 DEF Calm
  <2> QED
    BY <1>0, <2>2, RefsGained
<1>3. valid' \subseteq Slot
  BY <1>0, <1>1 DEF TypeOK
<1>4. \A q \in Proc \ {p} : t[q].put # "test" => i # t[q].inum
  BY <1>0, AliveAlone
<1>5. \A q \in Proc \ {p} : t[q].put \in {"trunc", "drop"} =>
        ref'[PutSlot(q)] = ref[PutSlot(q)] /\ inum'[PutSlot(q)] = inum[PutSlot(q)]
  <2> SUFFICES ASSUME NEW q \in Proc \ {p}, t[q].put \in {"trunc", "drop"}
               PROVE  PutSlot(q) # SlotOf(i) /\ PutSlot(q) \in Slot
    BY <1>1
  <2>1. ref[PutSlot(q)] = 1 /\ inum[PutSlot(q)] = t[q].inum
    BY <1>0 DEF PutInv
  <2>2. PutSlot(q) \in Slot
    BY <1>0, PutsAre DEF ThreadInv, ThreadShape
  <2>3. inum'[PutSlot(q)] = t[q].inum
    BY <1>1, <2>1, <2>2
  <2> QED
    BY <1>1, <1>4, <2>2, <2>3
<1>6. \A q \in Proc \ {p} : t[q].put = "free" =>
        \A s \in Slot : inum[s] # t[q].inum => inum'[s] # t[q].inum
  BY <1>1, <1>4
<1>7. \A s \in Slot : ref'[s] > 0 => ref[s] > 0 \/ (inode[inum'[s]].type # "free" /\ inode[inum'[s]].nlink # 0)
  <2> SUFFICES ASSUME NEW s \in Slot, ref'[s] > 0, ~(ref[s] > 0)
               PROVE  inode[inum'[s]].type # "free" /\ inode[inum'[s]].nlink # 0
    OBVIOUS
  <2>1. s = SlotOf(i)
    BY <1>1
  <2>2. ~ \E k \in Kinds : HeldNow(p, k) \in Slot /\ inum[HeldNow(p, k)] = i
    <3> SUFFICES ASSUME NEW k \in Kinds, HeldNow(p, k) \in Slot, inum[HeldNow(p, k)] = i
                 PROVE  FALSE
      OBVIOUS
    <3>1. ref[HeldNow(p, k)] > 0
      BY <1>0, HolderRef
    <3>2. HeldNow(p, k) = SlotOf(i)
      BY <1>0, <3>1, Igotten
    <3> QED
      BY <2>1, <3>1, <3>2
  <2> QED
    BY <1>1, <2>1, <2>2 DEF Alive
<1> QED
  BY <1>1, <1>2, <1>3, <1>5, <1>6, <1>7, CalmFrame

-----------------------------------------------------------------------------
(* The steps of a call.                                                    *)

Fixed == inode' = inode /\ used' = used /\ saved' = saved /\ crashes' = crashes
Table == ref' = ref /\ inum' = inum /\ lock' = lock

(* One put, and two. *)
LEMMA OneSeq ==
  ASSUME NEW S, NEW s \in S
  PROVE  /\ <<s>> \in Seq(S) /\ Len(<<s>>) = 1 /\ <<s>> # <<>> /\ Range(<<s>>) = {s} /\ Head(<<s>>) = s
         /\ \A r \in S : <<s, r>> \in Seq(S) /\ Len(<<s, r>>) = 2 /\ <<s, r>> # <<>>
                       /\ Range(<<s, r>>) = {s, r} /\ Head(<<s, r>>) = s
<1>1. <<s>> \in Seq(S) /\ Len(<<s>>) = 1 /\ DOMAIN <<s>> = 1..1 /\ <<s>>[1] = s
  OBVIOUS
<1>2. Range(<<s>>) = {s}
  BY <1>1 DEF Range
<1>3. ASSUME NEW r \in S
      PROVE  <<s, r>> \in Seq(S) /\ Len(<<s, r>>) = 2 /\ Range(<<s, r>>) = {s, r}
  <2>1. <<s, r>> \in Seq(S) /\ Len(<<s, r>>) = 2 /\ DOMAIN <<s, r>> = 1..2 /\ <<s, r>>[1] = s /\ <<s, r>>[2] = r
    OBVIOUS
  <2>2. \A i : i \in 1..2 <=> i = 1 \/ i = 2
    OBVIOUS
  <2> QED
    BY <2>1, <2>2 DEF Range
<1>4. <<s>> # <<>> /\ Head(<<s>>) = s
  OBVIOUS
<1>5. \A r \in S : <<s, r>> # <<>> /\ Head(<<s, r>>) = s
  OBVIOUS
<1> QED
  BY <1>1, <1>2, <1>3, <1>4, <1>5

(* The second of them for two elements that are known. *)
LEMMA TwoSeq ==
  ASSUME NEW S, NEW s \in S, NEW r \in S
  PROVE  <<s, r>> \in Seq(S) /\ Len(<<s, r>>) = 2 /\ <<s, r>> # <<>> /\ Range(<<s, r>>) = {s, r}
<1>1. \A x \in S : <<s, x>> \in Seq(S) /\ Len(<<s, x>>) = 2 /\ <<s, x>> # <<>> /\ Range(<<s, x>>) = {s, x}
  BY OneSeq
<1> QED
  BY <1>1

(* A thread with nothing to put. *)
LEMMA Ready ==
  ASSUME IInv, NEW p \in Proc, t[p].puts = <<>>
  PROVE  /\ t[p].put = "test" /\ ThreadType(t[p]) /\ ThreadShape(t[p])
         /\ HeldNow(p, "first") = 0 /\ HeldNow(p, "last") = 0
         /\ MayLock(p) = {s \in {t[p].ip}  : t[p].pc \in Locking} \union {s \in {t[p].cur} : t[p].pc = "unlink_child"}
         /\ LockOf(p) /\ Knows(p)
         /\ file \in [Proc -> 0..NINODE] /\ cwd \in [Proc -> 0..NINODE] /\ ops \in 0..MaxOps /\ active \subseteq Proc
         /\ lock \in [Slot -> Proc \union {None}] /\ valid \subseteq Slot
         /\ t[p].pc \notin Boots => cwd[p] # 0
         /\ t[p].pc \notin {"idle", "down", "reclaim"} => p \in active
<1>1. ThreadType(t[p]) /\ ThreadShape(t[p])
  BY DEF IInv, ThreadInv
<1>2. t[p].put = "test"
  BY <1>1 DEF ThreadShape
<1>3. HeldNow(p, "first") = 0 /\ HeldNow(p, "last") = 0
  BY NoPuts DEF HeldNow
<1>4. Range(t[p].puts) = {}
  BY DEF Range
<1>5. t[p].pc \notin Boots => cwd[p] # 0
  BY DEF IInv, ThreadInv, BootInv, Boots
<1>6. MayLock(p) = {s \in {t[p].ip}  : t[p].pc \in Locking} \union {s \in {t[p].cur} : t[p].pc = "unlink_child"}
  BY <1>4 DEF MayLock
<1>7. t[p].pc \notin {"idle", "down", "reclaim"} => p \in active
  BY DEF IInv, ThreadInv, ActiveInv
<1> QED
  BY <1>1, <1>2, <1>3, <1>5, <1>6, <1>7 DEF IInv, TypeOK, LockInv, HeldInv

(* The call gives up what it found last. *)
LEMMA QuitCur ==
  ASSUME IInv, NEW p \in Proc, t[p].puts = <<>>,
         t[p].pc \in {"walk", "create", "open", "trunc", "unlink", "chdir", "link_inc"},
         Go(p, [pc |-> IF t[p].pc = "walk" /\ t[p].ip # 0 THEN "link_bad" ELSE "end", puts |-> <<t[p].cur>>]),
         Fixed, Table, UNCHANGED <<user, active>>,
         valid \subseteq valid', valid' \subseteq valid \union {t[p].cur}
  PROVE  IInv'
<1> DEFINE c == t[p].cur
           pc == IF t[p].pc = "walk" /\ t[p].ip # 0 THEN "link_bad" ELSE "end"
<1>0. ThreadInv /\ TypeOK /\ RefInv /\ TableInv
  BY DEF IInv
<1>1. /\ t' = [q \in Proc |-> t'[q]] /\ \A q \in Proc \ {p} : t'[q] = t[q]
      /\ t'[p].pc = pc /\ t'[p].puts = <<c>> /\ t'[p].call = t[p].call /\ t'[p].path = t[p].path
      /\ t'[p].cur = c /\ t'[p].ip = t[p].ip /\ t'[p].name = t[p].name /\ t'[p].put = t[p].put
      /\ t'[p].inum = t[p].inum
  BY <1>0, GoFields DEF Fields
<1>2. /\ t[p].put = "test" /\ ThreadType(t[p]) /\ ThreadShape(t[p])
      /\ HeldNow(p, "first") = 0 /\ HeldNow(p, "last") = 0
  BY Ready
<1>3. c \in Slot /\ HeldNow(p, "cur") = c /\ ref[c] > 0
  <2>1. t[p].pc \in WithCur
    BY DEF WithCur, Finds
  <2> QED
    BY <1>0, <2>1, CurHeld, HolderRef
<1>4. t'[p].pc = "link_bad" <=> t[p].pc = "walk" /\ t[p].ip # 0
  BY <1>1
<1>5. t'[p].pc = "link_bad" \/ t'[p].pc = "end"
  BY <1>1
<1> HIDE DEF pc, c
<1>6. ThreadType(t'[p])
  <2>1. t'[p].puts \in Seq(Slot) /\ Len(t'[p].puts) <= 2
    BY <1>1, <1>3, OneSeq
  <2>2. t'[p].pc \in Pcs
    BY <1>5 DEF Pcs, InCall, Second
  <2> QED
    BY <1>1, <1>2, <2>1, <2>2 DEF ThreadType, c
<1>7. ThreadShape(t'[p])
  BY <1>1, <1>2, <1>3, <1>4, <1>5 DEF ThreadShape, InCall, Finds, Second, WithCur, WithPuts
<1>8. Others(p)
  BY <1>1 DEF Others, user
<1>9. LockOf(p)'
  <2>1. \A s \in Slot : lock[s] # p
    BY Ready DEF LockOf, Locking
  <2> QED
    BY <1>1, <1>2, <1>5, <2>1 DEF LockOf, Locking, Table
<1>10. Knows(p)'
  BY <1>1, <1>4, <1>5, Ready DEF Knows, Ip, Table, Fixed
<1>11. Counted(p)' = Counted(p)
  BY <1>1, <1>2, <1>4, <1>5 DEF Counted
<1>12. Calm(p)
  BY <1>1, <1>2, <1>4, <1>5, <1>6, <1>7, <1>8, <1>9, <1>10, <1>11, Ready DEF Calm, Fixed, Table, user, Boots
<1>13. \A k \in Kinds : HeldNext(p, k) = HeldNow(p, Swap("cur", "last")[k])
  <2>1. HeldNext(p, "last") = c /\ HeldNext(p, "first") = 0
    BY <1>1, <1>2, OnePut DEF HeldNext
  <2>2. HeldNext(p, "cur") = 0
    BY <1>5 DEF HeldNext, Holding, WithCur, Finds
  <2>3. HeldNext(p, "ip") = HeldNow(p, "ip")
    BY <1>1, <1>2, <1>4, <1>5 DEF HeldNext, HeldNow, Holding, WithIp, Second
  <2>4. HeldNext(p, "cwd") = HeldNow(p, "cwd") /\ HeldNext(p, "file") = HeldNow(p, "file")
    BY <1>1, <1>5 DEF HeldNext, HeldNow, Holding, user
  <2> QED
    BY <1>2, <1>3, <2>1, <2>2, <2>3, <2>4 DEF Swap, Kinds
<1>14. Swap("cur", "last") \in [Kinds -> Kinds] /\ \A k \in Kinds : Swap("cur", "last")[Swap("cur", "last")[k]] = k
  BY Swapping DEF Kinds
<1> QED
  BY <1>3, <1>12, <1>13, <1>14, CalmMove DEF Table, c

(* The fields of the inodes. *)
LEMMA InodeTypes ==
  ASSUME TypeOK
  PROVE  /\ inode \in [Inum -> Inode] /\ used \in SUBSET Block
         /\ \A i \in Inum : /\ inode[i] \in Inode
                            /\ inode[i].type \in {"free", "file", "dir", "device"} /\ inode[i].nlink \in 0..NLINK_MAX
                            /\ inode[i].data \in SUBSET Block /\ inode[i].ind \in SUBSET Block
                            /\ inode[i].dir \in [Entry -> 0..NINODES]
                            /\ \A n \in Entry : inode[i].dir[n] = 0 \/ inode[i].dir[n] \in Inum
<1>1. [inode |-> inode, used |-> used] \in [inode : [Inum -> Inode], used : SUBSET Block]
  BY DEF TypeOK, Image
<1>2. inode \in [Inum -> Inode] /\ used \in SUBSET Block
  BY <1>1
<1>3. ASSUME NEW i \in Inum
      PROVE  /\ inode[i] \in Inode
             /\ inode[i].type \in {"free", "file", "dir", "device"} /\ inode[i].nlink \in 0..NLINK_MAX
             /\ inode[i].data \in SUBSET Block /\ inode[i].ind \in SUBSET Block
             /\ inode[i].dir \in [Entry -> 0..NINODES]
  BY <1>2 DEF Inode
<1>4. ASSUME NEW i \in Inum, NEW n \in Entry
      PROVE  inode[i].dir[n] = 0 \/ inode[i].dir[n] \in Inum
  BY <1>3, Numbers
<1> QED
  BY <1>2, <1>3, <1>4

(* The locks of a process after it takes some that were free. *)
LEMMA LocksTaken ==
  ASSUME IInv, NEW p \in Proc, NEW S \in SUBSET Slot, Locks(p, S), \A s \in S : lock[s] \in {None, p}
  PROVE  /\ lock' \in [Slot -> Proc \union {None}]
         /\ \A s \in Slot : lock'[s] # lock[s] => lock[s] \in {None, p} /\ lock'[s] \in {None, p}
         /\ \A s \in Slot : lock'[s] = p <=> s \in S
<1>1. lock \in [Slot -> Proc \union {None}] /\ p # None
  BY Sizes DEF IInv, TypeOK
<1> QED
  BY <1>1 DEF Locks

(* A step of a call that keeps its files and its directory. *)
LEMMA CalmCall ==
  ASSUME IInv, NEW p \in Proc, t[p].puts = <<>>, t[p].pc \in InCall, NEW r, Go(p, r),
         Fixed, UNCHANGED <<user, active>>,
         t'[p].pc \in InCall \union {"end"}, t'[p].put = t[p].put, ThreadType(t'[p]), ThreadShape(t'[p]),
         valid \subseteq valid',
         lock' \in [Slot -> Proc \union {None}],
         \A s \in Slot : lock'[s] # lock[s] => lock[s] \in {None, p} /\ lock'[s] \in {None, p},
         LockOf(p)', Knows(p)',
         Counted(p)' = Counted(p), t'[p].pc = "unlinked" <=> t[p].pc = "unlinked"
  PROVE  /\ Calm(p)
         /\ HeldNext(p, "file") = HeldNow(p, "file")
         /\ t[p].pc # "moved" /\ t'[p].pc # "moved" => HeldNext(p, "cwd") = HeldNow(p, "cwd")
<1>1. Others(p)
  BY GoFields DEF IInv, Others, user
<1>2. t[p].pc \notin Boots /\ t[p].pc \notin {"idle", "down", "reclaim"} /\ t'[p].pc \notin Boots
  BY DEF InCall, Finds, Second, Boots
<1>3. t[p].put = "test" /\ cwd[p] # 0 /\ p \in active
  BY <1>2, Ready
<1>4. file' \in [Proc -> 0..NINODE] /\ cwd' \in [Proc -> 0..NINODE] /\ ops' \in 0..MaxOps /\ active' \subseteq Proc
  BY DEF IInv, TypeOK, user
<1>5. Calm(p)
  BY <1>1, <1>2, <1>3, <1>4 DEF Calm, Fixed, user
<1> QED
  BY <1>5 DEF HeldNext, HeldNow, Holding, user

(* The call gives up the inode it found second. *)
LEMMA QuitIp ==
  ASSUME IInv, NEW p \in Proc, t[p].puts = <<>>, t[p].pc \in {"exists", "made", "opened"},
         Quit(p, <<t[p].ip>>), Fixed, Table, UNCHANGED <<user, active>>,
         valid \subseteq valid', valid' \subseteq valid \union {t[p].ip}
  PROVE  IInv'
<1> DEFINE c == t[p].ip
<1>0. ThreadInv /\ TypeOK /\ RefInv /\ TableInv
  BY DEF IInv
<1>1. /\ t'[p].pc = "end" /\ t'[p].puts = <<c>> /\ t'[p].call = t[p].call /\ t'[p].path = t[p].path
      /\ t'[p].cur = t[p].cur /\ t'[p].ip = c /\ t'[p].name = t[p].name /\ t'[p].put = t[p].put
      /\ t'[p].inum = t[p].inum
  BY <1>0, GoFields DEF Fields, Quit
<1>2. /\ t[p].put = "test" /\ ThreadType(t[p]) /\ ThreadShape(t[p])
      /\ HeldNow(p, "first") = 0 /\ HeldNow(p, "last") = 0
  BY Ready
<1>3. c \in Slot /\ HeldNow(p, "ip") = c /\ ref[c] > 0
  <2>1. t[p].pc \in Second
    BY DEF Second
  <2> QED
    BY <1>0, <2>1, IpHeld, HolderRef
<1> HIDE DEF c
<1>4. <<c>> \in Seq(Slot) /\ Len(<<c>>) <= 2 /\ Len(<<c>>) # 2 /\ <<c>> # <<>> /\ Range(<<c>>) = {c}
  BY <1>3, OneSeq
<1>6. ThreadType(t'[p])
  BY <1>1, <1>2, <1>4, Numbers DEF ThreadType, Pcs, c
<1>7. ThreadShape(t'[p])
  BY <1>1, <1>2, <1>4 DEF ThreadShape, InCall, Finds, Second, WithCur, WithPuts
<1>9. LockOf(p)'
  <2>1. \A s \in Slot : lock[s] = p => s = c
    BY Ready DEF LockOf, c
  <2> QED
    BY <1>1, <1>2, <1>4, <2>1 DEF LockOf, Locking, Table, MayLock
<1>10. Knows(p)'
  BY <1>1 DEF Knows
<1>11. Counted(p)' = Counted(p)
  BY <1>1 DEF Counted
<1>12. Calm(p) /\ HeldNext(p, "file") = HeldNow(p, "file") /\ HeldNext(p, "cwd") = HeldNow(p, "cwd")
  <2>1. t[p].pc \in InCall /\ t[p].pc # "moved" /\ t[p].pc # "unlinked"
    BY DEF InCall, Second
  <2>2. lock' \in [Slot -> Proc \union {None}]
    BY Ready DEF Table
  <2>3. t'[p].pc \in InCall \union {"end"} /\ t'[p].pc # "unlinked"
    BY <1>1
  <2> QED
    BY <1>1, <1>6, <1>7, <1>9, <1>10, <1>11, <2>1, <2>2, <2>3, CalmCall DEF Table, Quit
<1>13. \A k \in Kinds : HeldNext(p, k) = HeldNow(p, Swap("ip", "last")[k])
  <2>1. HeldNext(p, "last") = c /\ HeldNext(p, "first") = 0
    BY <1>1, <1>2, OnePut DEF HeldNext
  <2>2. HeldNext(p, "cur") = 0 /\ HeldNext(p, "ip") = 0
    BY <1>1 DEF HeldNext, Holding, WithCur, Finds, WithIp, Second
  <2>3. HeldNow(p, "cur") = 0
    BY DEF HeldNow, Holding, WithCur, Finds
  <2> QED
    BY <1>2, <1>3, <1>12, <2>1, <2>2, <2>3 DEF Swap, Kinds
<1>14. Swap("ip", "last") \in [Kinds -> Kinds] /\ \A k \in Kinds : Swap("ip", "last")[Swap("ip", "last")[k]] = k
  BY Swapping DEF Kinds
<1> QED
  BY <1>3, <1>12, <1>13, <1>14, CalmMove DEF Table, c

(* A name is looked up in a directory that is there. *)
LEMMA Entered ==
  ASSUME IInv, NEW p \in Proc, t[p].pc \in WithCur, NEW s, s = t[p].cur, Unlocked(s),
         Ip(s).type = "dir", Ip(s).nlink # 0
  PROVE  /\ s \in Slot /\ ref[s] > 0 /\ inum[s] \in Live
         /\ \A n \in Entry : Ip(s).dir[n] # 0 =>
              Alive(p, Ip(s).dir[n]) /\ Ip(s).dir[n] \in Inum /\ Linked(inode, Ip(s).dir[n]) /\ Ip(s).dir[n] \notin Dying
<1>0. ThreadInv /\ TypeOK /\ RefInv /\ TableInv /\ LockInv /\ EntryInv
  BY DEF IInv
<1>1. s \in Slot /\ ref[s] > 0 /\ inum[s] \in Inum
  BY <1>0, CurHeld, HolderRef
<1>2. inum[s] \notin Dying
  <2> SUFFICES ASSUME NEW q \in Proc, t[q].pc = "unlinked", inum[t[q].ip] = inum[s]
               PROVE  FALSE
    BY DEF Dying
  <2>1. t[q].ip \in Slot /\ ref[t[q].ip] > 0
    BY <1>0, IpHeld, HolderRef DEF Second
  <2>2. t[q].ip = s
    BY <1>0, <1>1, <2>1 DEF TableInv
  <2>3. lock[t[q].ip] = q
    BY <1>0 DEF LockInv, LockOf, Locking
  <2> QED
    BY <2>2, <2>3, Sizes DEF Unlocked
<1>3. inum[s] \in Dirs(inode)
  <2>1. inode[inum[s]].nlink \in 0..NLINK_MAX
    BY <1>0, <1>1, InodeTypes
  <2> QED
    BY <1>1, <2>1, Sizes DEF Dirs, Linked, Ip
<1>4. ASSUME NEW n \in Entry, Ip(s).dir[n] # 0
      PROVE  Alive(p, Ip(s).dir[n]) /\ Ip(s).dir[n] \in Inum /\ Linked(inode, Ip(s).dir[n]) /\ Ip(s).dir[n] \notin Dying
  <2>1. Ip(s).dir[n] \in Inum
    BY <1>0, <1>1, <1>4, InodeTypes DEF Ip
  <2>2. Linked(inode, Ip(s).dir[n]) /\ Ip(s).dir[n] \notin Dying
    BY <1>0, <1>2, <1>3, <1>4 DEF EntryInv, Live, Ip
  <2> QED
    BY <2>1, <2>2 DEF Alive, Linked
<1> QED
  BY <1>1, <1>2, <1>3, <1>4 DEF Live

(* What a call is. *)
LEMMA CallTypes ==
  ASSUME NEW c \in Calls
  PROVE  c.op \in Ops /\ c.path \in Seq(Entry) /\ c.new \in Seq(Entry)
<1>1. c \in [op : Ops, abs : BOOLEAN, path : Seq(Entry), newabs : BOOLEAN, new : Seq(Entry)]
  BY FsAssumption
<1> QED
  BY <1>1

(* A thread between two inodes holds no lock. *)
LEMMA NoLocks ==
  ASSUME IInv, NEW p \in Proc, t[p].puts = <<>>,
         t[p].pc \notin {"opened", "made", "unlinked", "unlink_child"}
  PROVE  \A s \in Slot : lock[s] # p
<1>1. LockOf(p) /\ MayLock(p) = {s \in {t[p].ip}  : t[p].pc \in Locking} \union {s \in {t[p].cur} : t[p].pc = "unlink_child"}
  BY Ready
<1>2. MayLock(p) = {}
  BY <1>1 DEF Locking
<1> QED
  BY <1>1, <1>2 DEF LockOf

(* The walk of p is at its end, and the call goes on with what it found. *)
LEMMA Advance ==
  ASSUME IInv, NEW p \in Proc, t[p].puts = <<>>, t[p].pc = "walk", NEW r, Go(p, r),
         t'[p].pc = Found(p), t'[p].path \in Seq(Entry), t'[p].name \in Entry,
         \A f \in {"call", "cur", "ip", "puts", "put", "inum"} : t'[p][f] = t[p][f],
         ToParent(p) => Ip(t[p].cur).type = "dir",
         Fixed, Table, UNCHANGED <<user, active>>,
         valid \subseteq valid', valid' \subseteq valid \union {t[p].cur}
  PROVE  IInv'
<1> DEFINE c == t[p].cur
<1>0. ThreadInv /\ TypeOK /\ RefInv /\ TableInv
  BY DEF IInv
<1>1. /\ t'[p].puts = <<>> /\ t'[p].call = t[p].call
      /\ t'[p].cur = c /\ t'[p].ip = t[p].ip /\ t'[p].put = t[p].put
      /\ t'[p].inum = t[p].inum
  OBVIOUS
<1>2. /\ t[p].put = "test" /\ ThreadType(t[p]) /\ ThreadShape(t[p])
      /\ HeldNow(p, "first") = 0 /\ HeldNow(p, "last") = 0 /\ LockOf(p) /\ Knows(p)
  BY Ready
<1>3. c \in Slot /\ HeldNow(p, "cur") = c /\ ref[c] > 0
  BY <1>0, CurHeld, HolderRef DEF WithCur
<1> HIDE DEF c
<1>4. t[p].call \in Calls /\ t[p].call.op \in Ops
  BY <1>2, CallTypes DEF ThreadShape, InCall
<1>5. \/ Found(p) = "link_new" /\ t[p].call.op = "link" /\ t[p].ip # 0 /\ ToParent(p)
      \/ Found(p) = "link_inc" /\ t[p].call.op = "link" /\ t[p].ip = 0
      \/ Found(p) = "create" /\ t[p].call.op \in Creates /\ t[p].ip = 0 /\ ToParent(p)
      \/ Found(p) \in {"open", "trunc", "chdir"} /\ t[p].ip = 0
      \/ Found(p) = "unlink" /\ t[p].ip = 0 /\ ToParent(p)
  <2>1. t[p].ip # 0 => t[p].call.op = "link"
    BY <1>2 DEF ThreadShape
  <2>2. CASE t[p].call.op = "link"
    BY <2>2 DEF Found, Relinking, ToParent, Creates
  <2>3. CASE t[p].call.op \in Creates
    BY <2>1, <2>3 DEF Found, Relinking, ToParent, Creates
  <2>4. CASE t[p].call.op = "unlink"
    BY <2>1, <2>4 DEF Found, Relinking, ToParent, Creates
  <2>5. CASE t[p].call.op \in {"open", "trunc", "chdir"}
    BY <2>1, <2>5 DEF Found, Relinking, Creates
  <2> QED
    BY <1>4, <2>2, <2>3, <2>4, <2>5 DEF Ops, Creates
<1>6. ThreadType(t'[p])
  BY <1>1, <1>2, <1>3, <1>5 DEF ThreadType, Pcs, InCall, Finds, c
<1>7. ThreadShape(t'[p])
  BY <1>1, <1>2, <1>3, <1>4, <1>5 DEF ThreadShape, InCall, Finds, Second, WithCur, WithPuts
<1>9. LockOf(p)'
  <2>1. \A s \in Slot : lock[s] # p
    BY NoLocks
  <2> QED
    BY <1>1, <1>2, <1>5, <2>1 DEF LockOf, Locking, Table
<1>10. Knows(p)'
  BY <1>1, <1>2, <1>5 DEF Knows, Ip, Table, Fixed, c
<1>11. Counted(p)' = Counted(p)
  BY <1>1, <1>5 DEF Counted
<1>12. Calm(p) /\ HeldNext(p, "file") = HeldNow(p, "file") /\ HeldNext(p, "cwd") = HeldNow(p, "cwd")
  <2>1. t[p].pc \in InCall
    BY DEF InCall
  <2>2. lock' \in [Slot -> Proc \union {None}]
    BY Ready DEF Table
  <2>3. t'[p].pc \in InCall /\ t'[p].pc # "unlinked" /\ t'[p].pc # "moved"
    BY <1>5 DEF InCall, Finds
  <2> QED
    BY <1>1, <1>6, <1>7, <1>9, <1>10, <1>11, <2>1, <2>2, <2>3, CalmCall DEF Table
<1>13. \A k \in Kinds : HeldNext(p, k) = HeldNow(p, Swap("cur", "cur")[k])
  <2>1. HeldNext(p, "last") = 0 /\ HeldNext(p, "first") = 0
    BY <1>1, NoPuts DEF HeldNext
  <2>2. HeldNext(p, "cur") = c
    BY <1>1, <1>5 DEF HeldNext, Holding, WithCur, Finds
  <2>3. HeldNext(p, "ip") = HeldNow(p, "ip")
    BY <1>1, <1>5 DEF HeldNext, HeldNow, Holding, WithIp, Second
  <2> QED
    BY <1>2, <1>3, <1>12, <2>1, <2>2, <2>3 DEF Swap, Kinds
<1>14. Swap("cur", "cur") \in [Kinds -> Kinds] /\ \A k \in Kinds : Swap("cur", "cur")[Swap("cur", "cur")[k]] = k
  BY Swapping DEF Kinds
<1> QED
  BY <1>3, <1>12, <1>13, <1>14, CalmMove DEF Table, c

(* namex(): the end of the path. *)
LEMMA WalkEndStep ==
  ASSUME IInv, NEW p \in Proc, WalkEnd(p)
  PROVE  IInv'
<1>0. /\ t[p].pc = "walk" /\ t[p].puts = <<>> /\ t[p].path = <<>> /\ Fixed /\ Table
      /\ UNCHANGED <<user, active>> /\ valid' = valid
  BY DEF WalkEnd, At, Fixed, Table, disk
<1>1. ThreadInv /\ ThreadType(t[p]) /\ ThreadShape(t[p])
  BY <1>0, Ready DEF IInv
<1>2. CASE ToParent(p)
  <2>1. Lost(p, <<t[p].cur>>)
    BY <1>2 DEF WalkEnd
  <2>2. Go(p, [pc |-> IF t[p].pc = "walk" /\ t[p].ip # 0 THEN "link_bad" ELSE "end", puts |-> <<t[p].cur>>])
    BY <1>0, <1>1, <2>1 DEF Lost, Relinking, ThreadShape
  <2> QED
    BY <1>0, <2>2, QuitCur
<1>3. CASE ~ToParent(p)
  <2>1. Go(p, [pc |-> Found(p)])
    BY <1>3 DEF WalkEnd
  <2>2. /\ t'[p].pc = Found(p) /\ t'[p].path = t[p].path /\ t'[p].name = t[p].name
        /\ \A f \in {"call", "cur", "ip", "puts", "put", "inum"} : t'[p][f] = t[p][f]
    BY <1>1, <2>1, GoFields DEF Fields
  <2> QED
    BY <1>0, <1>1, <1>3, <2>1, <2>2, Advance DEF ThreadType
<1> QED
  BY <1>2, <1>3

(* namex(): one element of the path. *)
LEMMA WalkStep ==
  ASSUME IInv, NEW p \in Proc, Walk(p)
  PROVE  IInv'
<1> DEFINE s == t[p].cur
           name == Head(t[p].path)
           last == ToParent(p) /\ Len(t[p].path) = 1
           next == Ip(s).dir[name]
<1>0. /\ t[p].pc = "walk" /\ t[p].puts = <<>> /\ t[p].path # <<>> /\ Fixed /\ lock' = lock
      /\ UNCHANGED <<user, active>> /\ valid' = valid \union {s} /\ Unlocked(s)
  BY DEF Walk, At, Fixed, disk, ReadIn
<1>1. /\ TypeOK /\ RefInv /\ TableInv /\ ThreadInv /\ ThreadType(t[p]) /\ ThreadShape(t[p])
      /\ t[p].put = "test" /\ HeldNow(p, "first") = 0 /\ HeldNow(p, "last") = 0 /\ LockOf(p) /\ Knows(p)
  BY <1>0, Ready DEF IInv
<1>2. name \in Entry /\ Tail(t[p].path) \in Seq(Entry)
  BY <1>0, <1>1, HeadTailProperties DEF ThreadType
<1>3. s \in Slot /\ HeldNow(p, "cur") = s /\ ref[s] > 0
  BY <1>0, <1>1, CurHeld, HolderRef DEF WithCur
<1>4. CASE Searchable(Ip(s)) /\ last
  <2>1. Go(p, [pc |-> Found(p), name |-> name, path |-> <<>>]) /\ NoIget
    BY <1>4 DEF Walk
  <2> HIDE DEF name
  <2>2. /\ t'[p].pc = Found(p) /\ t'[p].path = <<>> /\ t'[p].name = name
        /\ \A f \in {"call", "cur", "ip", "puts", "put", "inum"} : t'[p][f] = t[p][f]
    BY <1>1, <2>1, GoFields DEF Fields
  <2>3. <<>> \in Seq(Entry)
    OBVIOUS
  <2>4. Table
    BY <1>0, <2>1 DEF Table, NoIget
  <2> QED
    BY <1>0, <1>2, <1>4, <2>1, <2>2, <2>3, <2>4, Advance DEF Searchable
<1>5. CASE Searchable(Ip(s)) /\ ~last /\ next # 0
  <2>1. Iget(next) /\ Go(p, [cur |-> SlotOf(next), path |-> Tail(t[p].path), puts |-> <<s>>])
    BY <1>5 DEF Walk
  <2>2. Alive(p, next) /\ next \in Inum
    BY <1>0, <1>2, <1>5, Entered DEF WithCur, Searchable
  <2>3. /\ SlotOf(next) \in Slot /\ \A x \in Slot : ref[x] > 0 => ref'[x] > 0 /\ inum'[x] = inum[x]
    BY <1>0, <1>1, <1>3, <2>1, <2>2, IgetTable
  <2> DEFINE c == SlotOf(next)
             w == Tail(t[p].path)
  <2> HIDE DEF c, w, s, next, name
  <2>4. /\ t'[p].pc = "walk" /\ t'[p].puts = <<s>> /\ t'[p].call = t[p].call /\ t'[p].path = w
        /\ t'[p].cur = c /\ t'[p].ip = t[p].ip /\ t'[p].name = t[p].name /\ t'[p].put = t[p].put
        /\ t'[p].inum = t[p].inum
    <3>1. Go(p, [cur |-> c, path |-> w, puts |-> <<s>>])
      BY <2>1 DEF c, w, s
    <3> QED
      BY <1>0, <1>1, <3>1, GoFields DEF Fields
  <2>5. <<s>> \in Seq(Slot) /\ Len(<<s>>) <= 2 /\ Len(<<s>>) # 2 /\ <<s>> # <<>> /\ Range(<<s>>) = {s}
    BY <1>3, OneSeq
  <2>6. c \in Slot /\ w \in Seq(Entry)
    BY <1>2, <2>3 DEF c, w
  <2>7. ThreadType(t'[p])
    BY <1>1, <2>4, <2>5, <2>6, Numbers DEF ThreadType, Pcs, InCall
  <2>8. ThreadShape(t'[p])
    BY <1>0, <1>1, <2>4, <2>5, <2>6, Numbers DEF ThreadShape, InCall, Finds, Second, WithCur, WithPuts
  <2>9. LockOf(p)'
    <3>1. \A x \in Slot : lock[x] # p
      BY <1>0, NoLocks
    <3> QED
      BY <1>0, <1>1, <2>4, <3>1 DEF LockOf, Locking
  <2>10. Counted(p)' = Counted(p)
    BY <1>0, <2>4 DEF Counted
  <2>11. Knows(p)'
    <3>1. t[p].ip # 0 => t[p].ip \in Slot /\ ref[t[p].ip] > 0
      BY <1>0, <1>1, IpHeld, HolderRef
    <3> QED
      BY <1>0, <1>1, <2>3, <2>4, <3>1 DEF Knows, Ip, Fixed
  <2>12. Calm(p) /\ HeldNext(p, "file") = HeldNow(p, "file") /\ HeldNext(p, "cwd") = HeldNow(p, "cwd")
    <3>1. t[p].pc \in InCall
      BY <1>0 DEF InCall
    <3>2. lock' \in [Slot -> Proc \union {None}] /\ valid \subseteq valid'
      BY <1>0, Ready
    <3>3. t'[p].pc \in InCall /\ t'[p].pc # "unlinked" /\ t'[p].pc # "moved"
      BY <2>4 DEF InCall
    <3> QED
      BY <1>0, <2>1, <2>4, <2>7, <2>8, <2>9, <2>10, <2>11, <3>1, <3>2, <3>3, CalmCall
  <2>13. \A k \in Kinds \ {"cur"} : HeldNext(p, k) = HeldNow(p, Swap("cur", "last")[k])
    <3>1. HeldNext(p, "last") = s /\ HeldNext(p, "first") = 0
      BY <1>1, <2>4, OnePut DEF HeldNext
    <3>2. HeldNext(p, "ip") = HeldNow(p, "ip")
      BY <1>0, <2>4 DEF HeldNext, HeldNow, Holding, WithIp, Second
    <3> QED
      BY <1>1, <1>3, <2>12, <3>1, <3>2 DEF Swap, Kinds
  <2>14. HeldNext(p, "cur") = c /\ HeldNow(p, Swap("cur", "last")["cur"]) = 0
    BY <1>1, <2>4 DEF HeldNext, Holding, WithCur, Swap, Kinds
  <2>15. Swap("cur", "last") \in [Kinds -> Kinds] /\ \A k \in Kinds : Swap("cur", "last")[Swap("cur", "last")[k]] = k
    BY Swapping DEF Kinds
  <2>16. valid' \subseteq valid \union {SlotOf(next)} \union {x \in Slot : ref[x] > 0}
    BY <1>0, <1>3
  <2>17. "cur" \in Kinds
    BY DEF Kinds
  <2> QED
    BY <2>1, <2>2, <2>12, <2>13, <2>14, <2>15, <2>16, <2>17, CalmGet DEF c
<1>6. CASE ~(Searchable(Ip(s)) /\ last) /\ ~(Searchable(Ip(s)) /\ ~last /\ next # 0)
  <2>1. Lost(p, <<s>>) /\ NoIget
    BY <1>6 DEF Walk
  <2>2. Go(p, [pc |-> IF t[p].pc = "walk" /\ t[p].ip # 0 THEN "link_bad" ELSE "end", puts |-> <<t[p].cur>>])
    BY <1>0, <1>1, <2>1 DEF Lost, Relinking, ThreadShape
  <2>3. Table
    BY <1>0, <2>1 DEF Table, NoIget
  <2> QED
    BY <1>0, <2>2, <2>3, QuitCur
<1> QED
  BY <1>4, <1>5, <1>6

(* begin_op(), and where namex() starts. *)
LEMMA StartStep ==
  ASSUME IInv, NEW p \in Proc, Start(p)
  PROVE  IInv'
<1>1. PICK a \in Calls : /\ active' = active \union {p}
                         /\ Iget(From(p, a.abs))
                         /\ Go(p, [pc |-> "walk", call |-> a, path |-> a.path, cur |-> SlotOf(From(p, a.abs))])
  BY DEF Start
<1> DEFINE i == From(p, a.abs)
           c == SlotOf(i)
<1>0. /\ t[p].pc = "idle" /\ t[p].puts = <<>> /\ Fixed /\ lock' = lock
      /\ cwd' = cwd /\ file' = file /\ valid' = valid /\ ops < MaxOps /\ ops' = ops + 1
  BY DEF Start, At, Fixed, disk
<1>2. /\ TypeOK /\ RefInv /\ TableInv /\ ThreadInv /\ DirInv /\ ThreadType(t[p]) /\ ThreadShape(t[p])
      /\ t[p].put = "test" /\ HeldNow(p, "first") = 0 /\ HeldNow(p, "last") = 0 /\ LockOf(p) /\ Knows(p)
      /\ cwd[p] # 0 /\ t[p].ip = 0
  <2>1. t[p].pc \notin Boots
    BY <1>0 DEF Boots
  <2>2. ThreadShape(t[p])
    BY <1>0, Ready
  <2> QED
    BY <1>0, <2>1, <2>2, Ready DEF IInv, ThreadShape
<1>3. Alive(p, i)
  <2>1. CASE a.abs
    <3>1. i = ROOTINO /\ ROOTINO \in Dirs(inode)
      BY <1>2, <2>1 DEF From, DirInv, Live
    <3> QED
      BY <3>1, Numbers DEF Alive, Dirs, Linked
  <2>2. CASE ~a.abs
    <3>1. i = inum[cwd[p]] /\ cwd[p] \in Slot /\ HeldNow(p, "cwd") = cwd[p] /\ "cwd" \in Kinds
      BY <1>0, <1>2, <2>2, UserHeld DEF From
    <3>2. ref[cwd[p]] > 0 /\ inum[cwd[p]] \in Inum
      BY <1>2, <3>1, HolderRef
    <3>3. inode[inum[cwd[p]]].type # "free"
      BY <3>1, <3>2 DEF IInv, HeldInv, Ip
    <3> QED
      BY <3>1, <3>2, <3>3 DEF Alive
  <2> QED
    BY <2>1, <2>2
<1>4. i \in Inum /\ c \in Slot
  BY <1>2, <1>3, Igotten DEF Alive
<1> HIDE DEF c, i
<1>5. /\ t'[p].pc = "walk" /\ t'[p].puts = <<>> /\ t'[p].call = a /\ t'[p].path = a.path
      /\ t'[p].cur = c /\ t'[p].ip = 0 /\ t'[p].name = t[p].name /\ t'[p].put = t[p].put
      /\ t'[p].inum = t[p].inum /\ t' = [q \in Proc |-> t'[q]] /\ \A q \in Proc \ {p} : t'[q] = t[q]
  <2>1. Go(p, [pc |-> "walk", call |-> a, path |-> a.path, cur |-> c])
    BY <1>1 DEF c, i
  <2> QED
    BY <1>0, <1>2, <2>1, GoFields DEF Fields
<1>6. a.path \in Seq(Entry)
  BY CallTypes
<1>7. ThreadType(t'[p])
  BY <1>2, <1>4, <1>5, <1>6, Numbers DEF ThreadType, Pcs, InCall
<1>8. ThreadShape(t'[p])
  BY <1>0, <1>2, <1>4, <1>5, Numbers DEF ThreadShape, InCall, Finds, Second, WithCur, WithPuts
<1>9. LockOf(p)'
  <2>1. \A x \in Slot : lock[x] # p
    BY <1>0, NoLocks
  <2> QED
    BY <1>0, <1>2, <1>5, <2>1 DEF LockOf, Locking
<1>10. Counted(p)' = Counted(p)
  BY <1>0, <1>5 DEF Counted
<1>11. Knows(p)'
  BY <1>5 DEF Knows
<1>12. Calm(p)
  <2>1. Others(p)
    BY <1>0, <1>5 DEF Others
  <2>2. ops' \in 0..MaxOps
    BY <1>0, <1>2, Sizes DEF TypeOK
  <2>3. /\ t[p].pc \notin Boots /\ t'[p].pc \notin Boots /\ t'[p].pc # "unlinked" /\ t[p].pc # "unlinked"
    BY <1>0, <1>5 DEF Boots
  <2>4. active \in SUBSET Proc /\ lock' \in [Slot -> Proc \union {None}] /\ cwd' \in [Proc -> 0..NINODE]
        /\ file' \in [Proc -> 0..NINODE]
    BY <1>0, <1>2 DEF TypeOK
  <2> QED
    BY <1>0, <1>1, <1>2, <1>5, <1>7, <1>8, <1>9, <1>10, <1>11, <2>1, <2>2, <2>3, <2>4 DEF Calm, Fixed
<1>13. \A k \in Kinds \ {"cur"} : HeldNext(p, k) = HeldNow(p, Swap("cur", "cur")[k])
  <2>1. HeldNext(p, "last") = 0 /\ HeldNext(p, "first") = 0
    BY <1>5, NoPuts DEF HeldNext
  <2>2. HeldNext(p, "ip") = 0 /\ HeldNow(p, "ip") = 0
    BY <1>0, <1>5 DEF HeldNext, HeldNow, Holding, WithIp, Second
  <2>3. HeldNext(p, "cwd") = HeldNow(p, "cwd") /\ HeldNext(p, "file") = HeldNow(p, "file")
    BY <1>0, <1>5 DEF HeldNext, HeldNow, Holding
  <2> QED
    BY <1>2, <2>1, <2>2, <2>3 DEF Swap, Kinds
<1>14. HeldNext(p, "cur") = c /\ HeldNow(p, Swap("cur", "cur")["cur"]) = 0
  BY <1>0, <1>5 DEF HeldNext, HeldNow, Holding, WithCur, Finds, Swap, Kinds
<1>15. Swap("cur", "cur") \in [Kinds -> Kinds] /\ \A k \in Kinds : Swap("cur", "cur")[Swap("cur", "cur")[k]] = k
  BY Swapping DEF Kinds
<1>16. valid' \subseteq valid \union {SlotOf(i)} \union {x \in Slot : ref[x] > 0}
  BY <1>0
<1>17. "cur" \in Kinds /\ Iget(i)
  BY <1>1 DEF Kinds, i
<1> QED
  BY <1>3, <1>12, <1>13, <1>14, <1>15, <1>16, <1>17, CalmGet DEF c

(* A thread that is back at its start. *)
LEMMA IdleFields ==
  ASSUME NEW p \in Proc, ThreadInv, t' = [t EXCEPT ![p] = Idle]
  PROVE  /\ t' = [q \in Proc |-> t'[q]] /\ \A q \in Proc \ {p} : t'[q] = t[q]
         /\ t'[p] = Idle /\ t'[p].pc = "idle" /\ t'[p].puts = <<>> /\ t'[p].put = "test"
         /\ ThreadType(t'[p]) /\ ThreadShape(t'[p])
<1>1. t = [q \in Proc |-> t[q]]
  BY DEF ThreadInv
<1>2. t' = [q \in Proc |-> t'[q]] /\ t'[p] = Idle /\ \A q \in Proc \ {p} : t'[q] = t[q]
  BY <1>1
<1>3. <<>> \in Seq(Entry) /\ <<>> \in Seq(Slot) /\ Len(<<>>) = 0
  OBVIOUS
<1>4. 0 \in 0..NINODE /\ 0 \in 0..NINODES+1
  BY Sizes
<1>5. ThreadType(Idle)
  BY <1>3, <1>4, EntryNames DEF ThreadType, Idle, Pcs, Phases
<1>6. ThreadShape(Idle)
  BY <1>3 DEF ThreadShape, Idle, InCall, Finds, Second, WithCur, WithPuts
<1> QED
  BY <1>2, <1>5, <1>6 DEF Idle

(* A thread that ends a call: the same of the locks and the inodes. *)
LEMMA IdleCalm ==
  ASSUME IInv, NEW p \in Proc, t[p].pc \in {"end", "moved"}, t[p].puts = <<>>,
         t' = [t EXCEPT ![p] = Idle], active' = active \ {p}, Fixed, Table, valid' = valid, file' = file, ops' = ops,
         cwd' \in [Proc -> 0..NINODE], cwd'[p] # 0, \A q \in Proc \ {p} : cwd'[q] = cwd[q]
  PROVE  /\ Calm(p)
         /\ HeldNext(p, "first") = 0 /\ HeldNext(p, "last") = 0 /\ HeldNext(p, "cur") = 0 /\ HeldNext(p, "ip") = 0
         /\ HeldNow(p, "first") = 0 /\ HeldNow(p, "last") = 0 /\ HeldNow(p, "ip") = 0
         /\ HeldNext(p, "file") = HeldNow(p, "file") /\ HeldNext(p, "cwd") = cwd'[p]
<1>0. ThreadInv
  BY DEF IInv
<1>1. /\ t' = [q \in Proc |-> t'[q]] /\ \A q \in Proc \ {p} : t'[q] = t[q]
      /\ t'[p] = Idle /\ t'[p].pc = "idle" /\ t'[p].puts = <<>> /\ t'[p].put = "test"
      /\ ThreadType(t'[p]) /\ ThreadShape(t'[p])
  BY <1>0, IdleFields
<1>2. /\ t[p].put = "test" /\ HeldNow(p, "first") = 0 /\ HeldNow(p, "last") = 0
      /\ file \in [Proc -> 0..NINODE] /\ ops \in 0..MaxOps /\ active \subseteq Proc
      /\ lock \in [Slot -> Proc \union {None}]
  BY Ready
<1>3. LockOf(p)'
  <2>1. \A x \in Slot : lock[x] # p
    BY NoLocks
  <2> QED
    BY <1>1, <2>1 DEF LockOf, Locking, Table
<1>4. Knows(p)' /\ Counted(p)' = Counted(p)
  BY <1>1 DEF Knows, Counted
<1>5. Others(p)
  BY <1>1 DEF Others
<1>6. Calm(p)
  BY <1>1, <1>2, <1>3, <1>4, <1>5 DEF Calm, Fixed, Table, Boots
<1>7. HeldNext(p, "first") = 0 /\ HeldNext(p, "last") = 0
  BY <1>1, NoPuts DEF HeldNext
<1>8. HeldNext(p, "cur") = 0 /\ HeldNext(p, "ip") = 0 /\ HeldNow(p, "ip") = 0
  BY <1>1 DEF HeldNext, HeldNow, Holding, WithCur, WithIp, Finds, Second
<1>9. HeldNext(p, "file") = HeldNow(p, "file") /\ HeldNext(p, "cwd") = cwd'[p]
  BY <1>1 DEF HeldNext, HeldNow, Holding
<1> QED
  BY <1>2, <1>6, <1>7, <1>8, <1>9

(* end_op() *)
LEMMA EndStep ==
  ASSUME IInv, NEW p \in Proc, End(p)
  PROVE  IInv'
<1>1. /\ t[p].pc = "end" /\ t[p].puts = <<>> /\ t' = [t EXCEPT ![p] = Idle] /\ active' = active \ {p}
      /\ Fixed /\ Table /\ valid' = valid /\ file' = file /\ ops' = ops /\ cwd' = cwd
  BY DEF End, At, Fixed, Table, disk, user
<1>2. cwd \in [Proc -> 0..NINODE] /\ cwd[p] # 0
  BY <1>1, Ready DEF Boots
<1>3. /\ Calm(p)
      /\ HeldNext(p, "first") = 0 /\ HeldNext(p, "last") = 0 /\ HeldNext(p, "cur") = 0 /\ HeldNext(p, "ip") = 0
      /\ HeldNow(p, "first") = 0 /\ HeldNow(p, "last") = 0 /\ HeldNow(p, "ip") = 0
      /\ HeldNext(p, "file") = HeldNow(p, "file") /\ HeldNext(p, "cwd") = cwd'[p]
  BY <1>1, <1>2, IdleCalm
<1>4. HeldNow(p, "cur") = 0 /\ HeldNow(p, "cwd") = cwd[p]
  BY <1>1 DEF HeldNow, Holding, WithCur, Finds
<1>5. \A k \in Kinds : HeldNext(p, k) = HeldNow(p, Swap("cur", "cur")[k])
  BY <1>1, <1>3, <1>4 DEF Swap, Kinds
<1>6. Swap("cur", "cur") \in [Kinds -> Kinds] /\ \A k \in Kinds : Swap("cur", "cur")[Swap("cur", "cur")[k]] = k
  BY Swapping DEF Kinds
<1> QED
  BY <1>1, <1>3, <1>5, <1>6, CalmMove DEF Table

(* The new directory takes the old one's place. *)
LEMMA ChdirEndStep ==
  ASSUME IInv, NEW p \in Proc, ChdirEnd(p)
  PROVE  IInv'
<1>1. /\ t[p].pc = "moved" /\ t[p].puts = <<>> /\ t' = [t EXCEPT ![p] = Idle] /\ active' = active \ {p}
      /\ Fixed /\ Table /\ valid' = valid /\ file' = file /\ ops' = ops /\ cwd' = [cwd EXCEPT ![p] = t[p].cur]
  BY DEF ChdirEnd, At, Fixed, Table, disk
<1>2. cwd \in [Proc -> 0..NINODE] /\ cwd[p] # 0
  BY <1>1, Ready DEF Boots
<1>3. t[p].cur \in Slot /\ HeldNow(p, "cur") = t[p].cur
  BY <1>1, CurHeld DEF IInv, WithCur
<1>4. cwd' \in [Proc -> 0..NINODE] /\ cwd'[p] = t[p].cur /\ cwd'[p] # 0 /\ \A q \in Proc \ {p} : cwd'[q] = cwd[q]
  BY <1>1, <1>2, <1>3, Numbers
<1>5. /\ Calm(p)
      /\ HeldNext(p, "first") = 0 /\ HeldNext(p, "last") = 0 /\ HeldNext(p, "cur") = 0 /\ HeldNext(p, "ip") = 0
      /\ HeldNow(p, "first") = 0 /\ HeldNow(p, "last") = 0 /\ HeldNow(p, "ip") = 0
      /\ HeldNext(p, "file") = HeldNow(p, "file") /\ HeldNext(p, "cwd") = cwd'[p]
  BY <1>1, <1>4, IdleCalm
<1>6. HeldNow(p, "cwd") = 0
  BY <1>1 DEF HeldNow, Holding
<1>7. \A k \in Kinds : HeldNext(p, k) = HeldNow(p, Swap("cur", "cwd")[k])
  BY <1>3, <1>4, <1>5, <1>6 DEF Swap, Kinds
<1>8. Swap("cur", "cwd") \in [Kinds -> Kinds] /\ \A k \in Kinds : Swap("cur", "cwd")[Swap("cur", "cwd")[k]] = k
  BY Swapping DEF Kinds
<1> QED
  BY <1>1, <1>5, <1>7, <1>8, CalmMove DEF Table

(* create(): the parent is put at once. *)
LEMMA CreateRefusedStep ==
  ASSUME IInv, NEW p \in Proc, CreateRefused(p)
  PROVE  IInv'
<1>1. /\ t[p].pc = "create" /\ t[p].puts = <<>> /\ Fixed /\ Table /\ UNCHANGED <<user, active>>
      /\ valid' = valid \union {t[p].cur} /\ Go(p, [pc |-> "end", puts |-> <<t[p].cur>>])
  BY DEF CreateRefused, At, Fixed, Table, disk, ReadIn, Quit
<1>2. (IF t[p].pc = "walk" /\ t[p].ip # 0 THEN "link_bad" ELSE "end") = "end"
  BY <1>1
<1> QED
  BY <1>1, <1>2, QuitCur

(* create() of a name that is there. *)
LEMMA CreateExistsStep ==
  ASSUME IInv, NEW p \in Proc, CreateExists(p)
  PROVE  IInv'
<1> DEFINE s == t[p].cur
           i == Ip(s).dir[t[p].name]
           c == SlotOf(i)
<1>0. /\ t[p].pc = "create" /\ t[p].puts = <<>> /\ Fixed /\ lock' = lock /\ UNCHANGED <<user, active>>
      /\ valid' = valid \union {s} /\ Unlocked(s) /\ MayCreate(p, Ip(s)) /\ i # 0 /\ Iget(i)
      /\ Go(p, [pc |-> "exists", ip |-> c, puts |-> <<s>>])
  BY DEF CreateExists, At, Fixed, disk, ReadIn
<1>1. /\ TypeOK /\ RefInv /\ TableInv /\ ThreadInv /\ ThreadType(t[p]) /\ ThreadShape(t[p])
      /\ t[p].put = "test" /\ HeldNow(p, "first") = 0 /\ HeldNow(p, "last") = 0 /\ Knows(p)
  BY <1>0, Ready DEF IInv
<1>2. s \in Slot /\ HeldNow(p, "cur") = s /\ ref[s] > 0
  BY <1>0, <1>1, CurHeld, HolderRef DEF WithCur, Finds
<1>3. Alive(p, i) /\ i \in Inum
  <2>1. Ip(s).type = "dir" /\ Ip(s).nlink # 0 /\ t[p].name \in Entry
    BY <1>0, <1>1 DEF Knows, MayCreate, ThreadType
  <2> QED
    BY <1>0, <2>1, Entered DEF WithCur, Finds
<1>4. c \in Slot
  BY <1>1, <1>3, Igotten
<1>5. /\ t'[p].pc = "exists" /\ t'[p].puts = <<s>> /\ t'[p].call = t[p].call /\ t'[p].path = t[p].path
      /\ t'[p].cur = s /\ t'[p].ip = c /\ t'[p].name = t[p].name /\ t'[p].put = t[p].put
      /\ t'[p].inum = t[p].inum
  <2> HIDE DEF c, i
  <2> QED
    BY <1>0, <1>1, GoFields DEF Fields
<1> HIDE DEF s, i, c
<1>6. <<s>> \in Seq(Slot) /\ Len(<<s>>) <= 2 /\ Len(<<s>>) # 2 /\ <<s>> # <<>> /\ Range(<<s>>) = {s}
  BY <1>2, OneSeq
<1>7. ThreadType(t'[p])
  BY <1>1, <1>2, <1>4, <1>5, <1>6, Numbers DEF ThreadType, Pcs, InCall, Second
<1>8. ThreadShape(t'[p])
  BY <1>0, <1>1, <1>4, <1>5, <1>6, Numbers DEF ThreadShape, InCall, Finds, Second, WithCur, WithPuts
<1>9. LockOf(p)'
  <2>1. \A x \in Slot : lock[x] # p
    BY <1>0, NoLocks
  <2> QED
    BY <1>0, <1>1, <1>5, <2>1 DEF LockOf, Locking
<1>10. Counted(p)' = Counted(p) /\ Knows(p)'
  BY <1>0, <1>5 DEF Counted, Knows
<1>12. Calm(p) /\ HeldNext(p, "file") = HeldNow(p, "file") /\ HeldNext(p, "cwd") = HeldNow(p, "cwd")
  <2>1. t[p].pc \in InCall
    BY <1>0 DEF InCall, Finds
  <2>2. lock' \in [Slot -> Proc \union {None}] /\ valid \subseteq valid'
    BY <1>0, Ready
  <2>3. t'[p].pc \in InCall /\ t'[p].pc # "unlinked" /\ t'[p].pc # "moved"
    BY <1>5 DEF InCall, Second
  <2> QED
    BY <1>0, <1>5, <1>7, <1>8, <1>9, <1>10, <2>1, <2>2, <2>3, CalmCall
<1>13. \A k \in Kinds \ {"ip"} : HeldNext(p, k) = HeldNow(p, Swap("cur", "last")[k])
  <2>1. HeldNext(p, "last") = s /\ HeldNext(p, "first") = 0
    BY <1>1, <1>5, OnePut DEF HeldNext
  <2>2. HeldNext(p, "cur") = 0
    BY <1>5 DEF HeldNext, Holding, WithCur, Finds
  <2> QED
    BY <1>1, <1>2, <1>12, <2>1, <2>2 DEF Swap, Kinds
<1>14. HeldNext(p, "ip") = c /\ HeldNow(p, Swap("cur", "last")["ip"]) = 0
  BY <1>0, <1>5 DEF HeldNext, HeldNow, Holding, WithIp, Second, Swap, Kinds
<1>15. Swap("cur", "last") \in [Kinds -> Kinds] /\ \A k \in Kinds : Swap("cur", "last")[Swap("cur", "last")[k]] = k
  BY Swapping DEF Kinds
<1>16. valid' \subseteq valid \union {SlotOf(i)} \union {x \in Slot : ref[x] > 0}
  BY <1>0, <1>2
<1>17. "ip" \in Kinds /\ Iget(i)
  BY <1>0 DEF Kinds
<1> QED
  BY <1>3, <1>12, <1>13, <1>14, <1>15, <1>16, <1>17, CalmGet DEF c

(* A call that takes the lock of what it opens. *)
LEMMA OpenWith ==
  ASSUME IInv, NEW p \in Proc, t[p].puts = <<>>, NEW s, NEW k \in {"cur", "ip"},
         (k = "cur" /\ t[p].pc \in {"open", "trunc"} /\ s = t[p].cur) \/ (k = "ip" /\ t[p].pc = "exists" /\ s = t[p].ip),
         Unlocked(s), Locks(p, {s}), NEW r, Go(p, r),
         t'[p].pc = "opened", t'[p].ip = s,
         \A f \in {"call", "cur", "path", "name", "puts", "put", "inum"} : t'[p][f] = t[p][f],
         Fixed, ref' = ref, inum' = inum, UNCHANGED <<user, active>>, valid' = valid \union {s}
  PROVE  IInv'
<1>1. /\ TypeOK /\ RefInv /\ TableInv /\ ThreadInv /\ ThreadType(t[p]) /\ ThreadShape(t[p])
      /\ t[p].put = "test" /\ HeldNow(p, "first") = 0 /\ HeldNow(p, "last") = 0
  BY Ready DEF IInv
<1>2. s \in Slot /\ HeldNow(p, k) = s /\ k \in Kinds /\ ref[s] > 0
  <2>1. t[p].pc \in WithCur \/ t[p].pc \in Second
    BY DEF WithCur, Finds, Second
  <2>2. CASE k = "cur"
    BY <1>1, <2>2, CurHeld, HolderRef DEF WithCur, Finds
  <2>3. CASE k = "ip"
    BY <1>1, <2>3, IpHeld, HolderRef DEF Second
  <2> QED
    BY <2>2, <2>3
<1>3. /\ t'[p].puts = <<>> /\ t'[p].call = t[p].call /\ t'[p].path = t[p].path
      /\ t'[p].cur = t[p].cur /\ t'[p].name = t[p].name /\ t'[p].put = t[p].put /\ t'[p].inum = t[p].inum
  OBVIOUS
<1>4. ThreadType(t'[p])
  BY <1>1, <1>2, <1>3, Numbers DEF ThreadType, Pcs, InCall, Second
<1>5. ThreadShape(t'[p])
  BY <1>1, <1>2, <1>3, Numbers DEF ThreadShape, InCall, Finds, Second, WithCur, WithPuts
<1>6. /\ lock' \in [Slot -> Proc \union {None}]
      /\ \A x \in Slot : lock'[x] # lock[x] => lock[x] \in {None, p} /\ lock'[x] \in {None, p}
      /\ \A x \in Slot : lock'[x] = p <=> x \in {s}
  BY <1>2, LocksTaken DEF Unlocked
<1>7. LockOf(p)'
  <2>1. Range(t'[p].puts) = {}
    BY <1>3 DEF Range
  <2> QED
    BY <1>1, <1>2, <1>3, <1>6, <2>1 DEF LockOf, Locking, MayLock
<1>8. Counted(p)' = Counted(p) /\ Knows(p)'
  BY DEF Counted, Knows
<1>9. Calm(p) /\ HeldNext(p, "file") = HeldNow(p, "file") /\ HeldNext(p, "cwd") = HeldNow(p, "cwd")
  <2>1. t[p].pc \in InCall
    BY DEF InCall, Finds, Second
  <2>3. t'[p].pc \in InCall /\ t'[p].pc # "unlinked" /\ t'[p].pc # "moved"
    BY DEF InCall, Second
  <2> QED
    BY <1>3, <1>4, <1>5, <1>6, <1>7, <1>8, <2>1, <2>3, CalmCall
<1>10. \A j \in Kinds : HeldNext(p, j) = HeldNow(p, Swap(k, "ip")[j])
  <2>1. HeldNext(p, "last") = 0 /\ HeldNext(p, "first") = 0
    BY <1>3, NoPuts DEF HeldNext
  <2>2. HeldNext(p, "cur") = 0 /\ HeldNext(p, "ip") = s
    BY DEF HeldNext, Holding, WithCur, Finds, WithIp, Second
  <2>3. CASE k = "cur"
    <3>1. HeldNow(p, "ip") = 0
      BY <2>3 DEF HeldNow, Holding, WithIp, Second
    <3> QED
      BY <1>1, <1>2, <1>9, <2>1, <2>2, <2>3, <3>1 DEF Swap, Kinds
  <2>4. CASE k = "ip"
    <3>1. HeldNow(p, "cur") = 0
      BY <2>4 DEF HeldNow, Holding, WithCur, Finds
    <3> QED
      BY <1>1, <1>2, <1>9, <2>1, <2>2, <2>4, <3>1 DEF Swap, Kinds
  <2> QED
    BY <2>3, <2>4
<1>11. Swap(k, "ip") \in [Kinds -> Kinds] /\ \A j \in Kinds : Swap(k, "ip")[Swap(k, "ip")[j]] = j
  BY <1>2, Swapping DEF Kinds
<1> QED
  BY <1>2, <1>9, <1>10, <1>11, CalmMove

(* open() of what is there. *)
LEMMA OpenExistingStep ==
  ASSUME IInv, NEW p \in Proc, OpenExisting(p)
  PROVE  IInv'
<1>1. /\ t[p].pc = "exists" /\ t[p].puts = <<>> /\ Fixed /\ UNCHANGED <<user, active>> /\ ref' = ref /\ inum' = inum
      /\ valid' = valid \union {t[p].ip} /\ Unlocked(t[p].ip) /\ ThreadInv
  BY DEF OpenExisting, At, Fixed, disk, ReadIn, IInv
<1>2. CASE t[p].call.op = "creat" /\ Ip(t[p].ip).type \in {"file", "device"}
  <2>1. Locks(p, {t[p].ip}) /\ Go(p, [pc |-> "opened"])
    BY <1>2 DEF OpenExisting
  <2>2. t'[p].pc = "opened" /\ t'[p].ip = t[p].ip
        /\ \A f \in {"call", "cur", "path", "name", "puts", "put", "inum"} : t'[p][f] = t[p][f]
    BY <1>1, <2>1, GoFields DEF Fields
  <2> QED
    BY <1>1, <2>1, <2>2, OpenWith
<1>3. CASE ~(t[p].call.op = "creat" /\ Ip(t[p].ip).type \in {"file", "device"})
  <2>1. Quit(p, <<t[p].ip>>) /\ lock' = lock
    BY <1>3 DEF OpenExisting
  <2> QED
    BY <1>1, <2>1, QuitIp DEF Table
<1> QED
  BY <1>2, <1>3

(* open() of what the walk found. *)
LEMMA OpenStep ==
  ASSUME IInv, NEW p \in Proc, Open(p)
  PROVE  IInv'
<1>1. /\ t[p].pc \in {"open", "trunc"} /\ t[p].puts = <<>> /\ Fixed /\ UNCHANGED <<user, active>>
      /\ ref' = ref /\ inum' = inum
      /\ valid' = valid \union {t[p].cur} /\ Unlocked(t[p].cur) /\ ThreadInv
  BY DEF Open, Fixed, disk, ReadIn, IInv
<1>2. CASE ~(Ip(t[p].cur).type = "dir" /\ t[p].call.op = "trunc")
  <2>1. Locks(p, {t[p].cur}) /\ Go(p, [pc |-> "opened", ip |-> t[p].cur])
    BY <1>2 DEF Open
  <2>2. t'[p].pc = "opened" /\ t'[p].ip = t[p].cur
        /\ \A f \in {"call", "cur", "path", "name", "puts", "put", "inum"} : t'[p][f] = t[p][f]
    BY <1>1, <2>1, GoFields DEF Fields
  <2> QED
    BY <1>1, <2>1, <2>2, OpenWith
<1>3. CASE Ip(t[p].cur).type = "dir" /\ t[p].call.op = "trunc"
  <2>1. Go(p, [pc |-> "end", puts |-> <<t[p].cur>>]) /\ lock' = lock
    BY <1>3 DEF Open, Quit
  <2>2. (IF t[p].pc = "walk" /\ t[p].ip # 0 THEN "link_bad" ELSE "end") = "end"
    BY <1>1
  <2> QED
    BY <1>1, <2>1, <2>2, QuitCur DEF Table
<1> QED
  BY <1>2, <1>3

(* mkdir() and mknod() are done. *)
LEMMA MadeStep ==
  ASSUME IInv, NEW p \in Proc, Made(p)
  PROVE  IInv'
<1>1. /\ t[p].pc = "made" /\ t[p].puts = <<>> /\ Fixed /\ Table /\ UNCHANGED <<user, active>>
      /\ valid' = valid /\ Quit(p, <<t[p].ip>>)
  BY DEF Made, At, Fixed, Table, disk
<1> QED
  BY <1>1, QuitIp

(* No locks are held and none are needed. *)
LEMMA NoLocksNext ==
  ASSUME NEW p \in Proc, t'[p].put = "test", t'[p].pc \notin {"opened", "made", "unlinked", "unlink_child"},
         \A s \in Slot : lock'[s] # p
  PROVE  LockOf(p)'
BY DEF LockOf, Locking

(* close(): the file is put. *)
LEMMA CloseStep ==
  ASSUME IInv, NEW p \in Proc, Close(p)
  PROVE  IInv'
<1> DEFINE s == file[p]
<1>0. /\ t[p].pc = "idle" /\ t[p].puts = <<>> /\ s # 0 /\ Fixed /\ Table /\ cwd' = cwd /\ ops' = ops /\ valid' = valid
      /\ active' = active \union {p} /\ file' = [file EXCEPT ![p] = 0] /\ Go(p, [pc |-> "end", puts |-> <<s>>])
  BY DEF Close, At, Fixed, Table, disk, Quit
<1>1. /\ TypeOK /\ RefInv /\ TableInv /\ ThreadInv /\ ThreadType(t[p]) /\ ThreadShape(t[p])
      /\ t[p].put = "test" /\ HeldNow(p, "first") = 0 /\ HeldNow(p, "last") = 0 /\ cwd[p] # 0
      /\ file \in [Proc -> 0..NINODE] /\ cwd \in [Proc -> 0..NINODE] /\ ops \in 0..MaxOps /\ active \subseteq Proc
      /\ lock \in [Slot -> Proc \union {None}]
  BY <1>0, Ready DEF IInv, Boots
<1>2. s \in Slot /\ HeldNow(p, "file") = s
  BY <1>0, <1>1, UserHeld
<1> HIDE DEF s
<1>3. /\ t'[p].pc = "end" /\ t'[p].puts = <<s>> /\ t'[p].call = t[p].call /\ t'[p].path = t[p].path
      /\ t'[p].cur = t[p].cur /\ t'[p].ip = t[p].ip /\ t'[p].name = t[p].name /\ t'[p].put = t[p].put
      /\ t'[p].inum = t[p].inum /\ t' = [q \in Proc |-> t'[q]] /\ \A q \in Proc \ {p} : t'[q] = t[q]
  <2>1. t' = [q \in Proc |-> t'[q]] /\ \A q \in Proc \ {p} : t'[q] = t[q]
    BY <1>0, <1>1, GoFields
  <2>2. Go(p, [pc |-> "end", puts |-> <<s>>]) /\ ThreadInv
    BY <1>0, <1>1
  <2>3. \A f \in Fields : t'[p][f] = IF f \in {"pc", "puts"} THEN [pc |-> "end", puts |-> <<s>>][f] ELSE t[p][f]
    BY <2>2, GoFields
  <2> QED
    BY <2>1, <2>3 DEF Fields
<1>4. <<s>> \in Seq(Slot) /\ Len(<<s>>) <= 2 /\ Len(<<s>>) # 2 /\ <<s>> # <<>> /\ Range(<<s>>) = {s}
  BY <1>2, OneSeq
<1>5. ThreadType(t'[p])
  BY <1>1, <1>3, <1>4 DEF ThreadType, Pcs
<1>6. ThreadShape(t'[p])
  BY <1>1, <1>3, <1>4 DEF ThreadShape, InCall, Finds, Second, WithCur, WithPuts
<1>7. LockOf(p)'
  <2>1. \A x \in Slot : lock[x] # p
    BY <1>0, NoLocks
  <2> QED
    BY <1>0, <1>1, <1>3, <2>1, NoLocksNext DEF Table
<1>8. Counted(p)' = Counted(p) /\ Knows(p)'
  BY <1>0, <1>3 DEF Counted, Knows
<1>9. Calm(p)
  <2>1. Others(p)
    BY <1>0, <1>3 DEF Others
  <2>2. file' \in [Proc -> 0..NINODE] /\ file'[p] = 0
    BY <1>0, <1>1, Numbers
  <2>3. t[p].pc \notin Boots /\ t'[p].pc \notin Boots /\ t[p].pc # "unlinked" /\ t'[p].pc # "unlinked"
    BY <1>0, <1>3 DEF Boots
  <2> QED
    BY <1>0, <1>1, <1>3, <1>5, <1>6, <1>7, <1>8, <2>1, <2>2, <2>3 DEF Calm, Fixed, Table
<1>10. \A k \in Kinds : HeldNext(p, k) = HeldNow(p, Swap("file", "last")[k])
  <2>1. HeldNext(p, "last") = s /\ HeldNext(p, "first") = 0
    BY <1>1, <1>3, OnePut DEF HeldNext
  <2>2. HeldNext(p, "cur") = 0 /\ HeldNext(p, "ip") = 0
    BY <1>3 DEF HeldNext, Holding, WithCur, Finds, WithIp, Second
  <2>3. HeldNow(p, "cur") = 0 /\ HeldNow(p, "ip") = 0
    BY <1>0 DEF HeldNow, Holding, WithCur, Finds, WithIp, Second
  <2>4. HeldNext(p, "cwd") = HeldNow(p, "cwd") /\ HeldNext(p, "file") = 0
    BY <1>0, <1>1, <1>3 DEF HeldNext, HeldNow, Holding
  <2> QED
    BY <1>1, <1>2, <2>1, <2>2, <2>3, <2>4 DEF Swap, Kinds
<1>11. Swap("file", "last") \in [Kinds -> Kinds] /\ \A k \in Kinds : Swap("file", "last")[Swap("file", "last")[k]] = k
  BY Swapping DEF Kinds
<1> QED
  BY <1>0, <1>9, <1>10, <1>11, CalmMove DEF Table

(* read() and fstat() read the inode in. *)
LEMMA ReadStep ==
  ASSUME IInv, NEW p \in Proc, Read(p)
  PROVE  IInv'
<1> DEFINE s == file[p]
<1>0. /\ t[p].pc = "idle" /\ t[p].puts = <<>> /\ s # 0 /\ Fixed /\ Table /\ UNCHANGED user /\ valid' = valid \union {s}
      /\ active' = active /\ t' = t
  BY DEF Read, At, Fixed, Table, disk, ReadIn
<1>1. /\ TypeOK /\ RefInv /\ TableInv /\ ThreadInv /\ ThreadType(t[p]) /\ ThreadShape(t[p])
      /\ t[p].put = "test" /\ cwd[p] # 0 /\ LockOf(p) /\ Knows(p) /\ t = [q \in Proc |-> t[q]]
      /\ file \in [Proc -> 0..NINODE] /\ cwd \in [Proc -> 0..NINODE] /\ ops \in 0..MaxOps /\ active \subseteq Proc
      /\ lock \in [Slot -> Proc \union {None}]
  BY <1>0, Ready DEF IInv, ThreadInv, Boots
<1>2. s \in Slot /\ ref[s] > 0
  BY <1>0, <1>1, UserHeld, HolderRef
<1>3. LockOf(p)'
  BY <1>0, <1>1 DEF LockOf, Table, MayLock, PutSlot
<1>4. Counted(p)' = Counted(p) /\ Knows(p)'
  BY <1>0 DEF Counted, Knows
<1>5. Calm(p)
  BY <1>0, <1>1, <1>3, <1>4 DEF Calm, Fixed, Table, Others, user, Boots
<1>6. \A k \in Kinds : HeldNext(p, k) = HeldNow(p, Swap("file", "file")[k])
  BY <1>0 DEF HeldNext, HeldNow, user, Swap
<1>7. Swap("file", "file") \in [Kinds -> Kinds] /\ \A k \in Kinds : Swap("file", "file")[Swap("file", "file")[k]] = k
  BY Swapping DEF Kinds
<1> QED
  BY <1>0, <1>2, <1>5, <1>6, <1>7, CalmMove DEF Table

(* chdir() puts the old directory first. *)
LEMMA ChdirStep ==
  ASSUME IInv, NEW p \in Proc, Chdir(p)
  PROVE  IInv'
<1> DEFINE s == t[p].cur
           d == cwd[p]
<1>0. /\ t[p].pc = "chdir" /\ t[p].puts = <<>> /\ Fixed /\ Table /\ UNCHANGED <<user, active>>
      /\ valid' = valid \union {s}
  BY DEF Chdir, At, Fixed, Table, disk, ReadIn
<1>1. CASE Ip(s).type # "dir"
  <2>1. Go(p, [pc |-> "end", puts |-> <<s>>])
    BY <1>1 DEF Chdir, Quit
  <2>2. (IF t[p].pc = "walk" /\ t[p].ip # 0 THEN "link_bad" ELSE "end") = "end"
    BY <1>0
  <2> QED
    BY <1>0, <2>1, <2>2, QuitCur
<1>2. CASE Ip(s).type = "dir"
  <2>0. Go(p, [pc |-> "moved", puts |-> <<d>>])
    BY <1>2 DEF Chdir
  <2>1. /\ TypeOK /\ RefInv /\ TableInv /\ ThreadInv /\ ThreadType(t[p]) /\ ThreadShape(t[p])
        /\ t[p].put = "test" /\ HeldNow(p, "first") = 0 /\ HeldNow(p, "last") = 0 /\ d # 0
    BY <1>0, Ready DEF IInv, Boots
  <2>2. d \in Slot /\ HeldNow(p, "cwd") = d
    BY <1>0, <2>1, UserHeld
  <2>3. s \in Slot /\ ref[s] > 0 /\ HeldNow(p, "cur") = s
    BY <1>0, <2>1, CurHeld, HolderRef DEF WithCur, Finds
  <2> HIDE DEF s, d
  <2>4. /\ t'[p].pc = "moved" /\ t'[p].puts = <<d>> /\ t'[p].call = t[p].call /\ t'[p].path = t[p].path
        /\ t'[p].cur = s /\ t'[p].ip = t[p].ip /\ t'[p].name = t[p].name /\ t'[p].put = t[p].put
        /\ t'[p].inum = t[p].inum
    BY <2>0, <2>1, GoFields DEF Fields, s
  <2>5. <<d>> \in Seq(Slot) /\ Len(<<d>>) <= 2 /\ Len(<<d>>) # 2 /\ <<d>> # <<>> /\ Range(<<d>>) = {d}
    BY <2>2, OneSeq
  <2>6. ThreadType(t'[p])
    BY <2>1, <2>3, <2>4, <2>5, Numbers DEF ThreadType, Pcs, InCall
  <2>7. ThreadShape(t'[p])
    BY <1>0, <2>1, <2>3, <2>4, <2>5, Numbers DEF ThreadShape, InCall, Finds, Second, WithCur, WithPuts
  <2>8. LockOf(p)'
    <3>1. \A x \in Slot : lock[x] # p
      BY <1>0, NoLocks
    <3> QED
      BY <1>0, <2>1, <2>4, <3>1, NoLocksNext DEF Table
  <2>9. Counted(p)' = Counted(p) /\ Knows(p)'
    BY <1>0, <2>4 DEF Counted, Knows
  <2>10. Calm(p) /\ HeldNext(p, "file") = HeldNow(p, "file")
    <3>1. t[p].pc \in InCall /\ t[p].pc # "unlinked"
      BY <1>0 DEF InCall, Finds
    <3>2. lock' \in [Slot -> Proc \union {None}] /\ valid \subseteq valid'
      BY <1>0, Ready DEF Table
    <3>3. t'[p].pc \in InCall /\ t'[p].pc # "unlinked"
      BY <2>4 DEF InCall
    <3> QED
      BY <1>0, <2>0, <2>4, <2>6, <2>7, <2>8, <2>9, <3>1, <3>2, <3>3, CalmCall DEF Table
  <2>11. \A k \in Kinds : HeldNext(p, k) = HeldNow(p, Swap("cwd", "last")[k])
    <3>1. HeldNext(p, "last") = d /\ HeldNext(p, "first") = 0
      BY <2>1, <2>4, OnePut DEF HeldNext
    <3>2. HeldNext(p, "cur") = s /\ HeldNext(p, "ip") = 0 /\ HeldNext(p, "cwd") = 0
      BY <2>4 DEF HeldNext, Holding, WithCur, Finds, WithIp, Second
    <3>3. HeldNow(p, "ip") = 0
      BY <1>0 DEF HeldNow, Holding, WithIp, Second
    <3> QED
      BY <2>1, <2>2, <2>3, <2>10, <3>1, <3>2, <3>3 DEF Swap, Kinds
  <2>12. Swap("cwd", "last") \in [Kinds -> Kinds] /\ \A k \in Kinds : Swap("cwd", "last")[Swap("cwd", "last")[k]] = k
    BY Swapping DEF Kinds
  <2> QED
    BY <1>0, <2>3, <2>10, <2>11, <2>12, CalmMove DEF Table
<1> QED
  BY <1>1, <1>2

(* unlink() of a name: the parent's lock is kept. *)
LEMMA UnlinkStep ==
  ASSUME IInv, NEW p \in Proc, Unlink(p)
  PROVE  IInv'
<1> DEFINE s == t[p].cur
           i == Ip(s).dir[t[p].name]
           c == SlotOf(i)
<1>0. /\ t[p].pc = "unlink" /\ t[p].puts = <<>> /\ Fixed /\ UNCHANGED <<user, active>>
      /\ valid' = valid \union {s} /\ Unlocked(s)
  BY DEF Unlink, At, Fixed, disk, ReadIn
<1>1. CASE t[p].name \in {".", ".."} \/ i = 0
  <2>1. Go(p, [pc |-> "end", puts |-> <<s>>]) /\ Table
    BY <1>1 DEF Unlink, Quit, Table, NoIget
  <2>2. (IF t[p].pc = "walk" /\ t[p].ip # 0 THEN "link_bad" ELSE "end") = "end"
    BY <1>0
  <2> QED
    BY <1>0, <2>1, <2>2, QuitCur
<1>2. CASE ~(t[p].name \in {".", ".."} \/ i = 0)
  <2>0. Iget(i) /\ Locks(p, {s}) /\ Go(p, [pc |-> "unlink_child", ip |-> c])
    BY <1>2 DEF Unlink
  <2>1. /\ TypeOK /\ RefInv /\ TableInv /\ ThreadInv /\ ThreadType(t[p]) /\ ThreadShape(t[p])
        /\ t[p].put = "test" /\ HeldNow(p, "first") = 0 /\ HeldNow(p, "last") = 0 /\ Knows(p) /\ DirInv
    BY <1>0, Ready DEF IInv
  <2>2. s \in Slot /\ HeldNow(p, "cur") = s /\ ref[s] > 0 /\ inum[s] \in Inum
    BY <1>0, <2>1, CurHeld, HolderRef DEF WithCur, Finds
  <2>3. t[p].name \in Name
    BY <1>2, <2>1, EntryNames DEF ThreadType
  <2>4. Ip(s).type = "dir"
    BY <1>0, <2>1 DEF Knows
  <2>5. Ip(s).nlink # 0
    <3>1. t[p].name \in Entry /\ t[p].name \notin {".", ".."} /\ i # 0
      BY <1>2, <2>1 DEF ThreadType
    <3>2. ~ IsDirEmpty(inode[inum[s]])
      BY <3>1 DEF IsDirEmpty, Entries, Ip
    <3> QED
      BY <2>1, <2>2, <2>4, <3>2 DEF DirInv, Ip
  <2>6. Alive(p, i) /\ i \in Inum
    BY <1>0, <1>2, <2>1, <2>4, <2>5, Entered DEF WithCur, Finds, ThreadType
  <2>7. c \in Slot /\ inum'[c] = i /\ inum'[s] = inum[s]
    BY <1>0, <2>0, <2>1, <2>2, <2>6, IgetTable
  <2> DEFINE name == t[p].name
  <2>8. i = inode[inum[s]].dir[name]
    BY DEF Ip
  <2> HIDE DEF s, i, c, name
  <2>9. /\ t'[p].pc = "unlink_child" /\ t'[p].puts = <<>> /\ t'[p].call = t[p].call /\ t'[p].path = t[p].path
        /\ t'[p].cur = s /\ t'[p].ip = c /\ t'[p].name = name /\ t'[p].put = t[p].put
        /\ t'[p].inum = t[p].inum
    BY <1>0, <2>0, <2>1, GoFields DEF Fields, s, name
  <2>10. ThreadType(t'[p])
    BY <2>1, <2>2, <2>7, <2>9, Numbers DEF ThreadType, Pcs, InCall, Finds, name
  <2>11. ThreadShape(t'[p])
    BY <1>0, <2>1, <2>2, <2>3, <2>7, <2>9, Numbers DEF ThreadShape, InCall, Finds, Second, WithCur, WithPuts, name
  <2>12. /\ lock' \in [Slot -> Proc \union {None}]
         /\ \A x \in Slot : lock'[x] # lock[x] => lock[x] \in {None, p} /\ lock'[x] \in {None, p}
         /\ \A x \in Slot : lock'[x] = p <=> x \in {s}
    BY <1>0, <2>0, <2>2, LocksTaken DEF Unlocked
  <2>13. LockOf(p)'
    <3>1. Range(t'[p].puts) = {}
      BY <2>9 DEF Range
    <3> QED
      BY <2>1, <2>2, <2>9, <2>12, <3>1 DEF LockOf, Locking, MayLock
  <2>14. Counted(p)' = Counted(p)
    BY <1>0, <2>9 DEF Counted
  <2>15. Knows(p)'
    BY <1>0, <2>4, <2>7, <2>8, <2>9 DEF Knows, Ip, Fixed
  <2>16. Calm(p) /\ HeldNext(p, "file") = HeldNow(p, "file") /\ HeldNext(p, "cwd") = HeldNow(p, "cwd")
    <3>1. t[p].pc \in InCall
      BY <1>0 DEF InCall, Finds
    <3>2. valid \subseteq valid'
      BY <1>0
    <3>3. t'[p].pc \in InCall /\ t'[p].pc # "unlinked" /\ t'[p].pc # "moved"
      BY <2>9 DEF InCall, Finds
    <3> QED
      BY <1>0, <2>0, <2>9, <2>10, <2>11, <2>12, <2>13, <2>14, <2>15, <3>1, <3>2, <3>3, CalmCall
  <2>17. \A k \in Kinds \ {"ip"} : HeldNext(p, k) = HeldNow(p, Swap("cur", "cur")[k])
    <3>1. HeldNext(p, "last") = 0 /\ HeldNext(p, "first") = 0
      BY <2>9, NoPuts DEF HeldNext
    <3>2. HeldNext(p, "cur") = s
      BY <2>9 DEF HeldNext, Holding, WithCur, Finds
    <3> QED
      BY <2>1, <2>2, <2>16, <3>1, <3>2 DEF Swap, Kinds
  <2>18. HeldNext(p, "ip") = c /\ HeldNow(p, Swap("cur", "cur")["ip"]) = 0
    BY <1>0, <2>9 DEF HeldNext, HeldNow, Holding, WithIp, Second, Swap, Kinds
  <2>19. Swap("cur", "cur") \in [Kinds -> Kinds] /\ \A k \in Kinds : Swap("cur", "cur")[Swap("cur", "cur")[k]] = k
    BY Swapping DEF Kinds
  <2>20. valid' \subseteq valid \union {SlotOf(i)} \union {x \in Slot : ref[x] > 0}
    BY <1>0, <2>2
  <2>21. "ip" \in Kinds
    BY DEF Kinds
  <2> QED
    BY <2>0, <2>6, <2>16, <2>17, <2>18, <2>19, <2>20, <2>21, CalmGet DEF c
<1> QED
  BY <1>1, <1>2

(* unlink() of a directory that is not empty puts both. *)
LEMMA UnlinkRefused ==
  ASSUME IInv, NEW p \in Proc, UnlinkChild(p), Ip(t[p].ip).type = "dir" /\ ~IsDirEmpty(Ip(t[p].ip))
  PROVE  IInv'
<1> DEFINE d == t[p].cur
           s == t[p].ip
           f == [k \in Kinds |-> IF k \in {"cur", "last"} THEN Swap("cur", "last")[k] ELSE Swap("ip", "first")[k]]
<1>0. /\ t[p].pc = "unlink_child" /\ t[p].puts = <<>> /\ Fixed /\ Table /\ UNCHANGED <<user, active>>
      /\ valid' = valid \union {s} /\ Unlocked(s) /\ Go(p, [pc |-> "end", puts |-> <<s, d>>])
  BY DEF UnlinkChild, At, Fixed, Table, disk, ReadIn, Quit
<1>1. /\ TypeOK /\ RefInv /\ TableInv /\ ThreadInv /\ ThreadType(t[p]) /\ ThreadShape(t[p])
      /\ t[p].put = "test" /\ HeldNow(p, "first") = 0 /\ HeldNow(p, "last") = 0 /\ LockOf(p)
  BY <1>0, Ready DEF IInv
<1>2. d \in Slot /\ HeldNow(p, "cur") = d
  BY <1>0, <1>1, CurHeld DEF WithCur, Finds
<1>3. s \in Slot /\ ref[s] > 0 /\ HeldNow(p, "ip") = s
  BY <1>0, <1>1, IpHeld, HolderRef DEF Second
<1>4. \A x \in Slot : lock[x] = p => x = d
  <2>1. MayLock(p) = {x \in {d} : t[p].pc = "unlink_child"}
    BY <1>0, Ready DEF Locking
  <2> QED
    BY <1>1, <2>1 DEF LockOf
<1> HIDE DEF d, s
<1>5. /\ t'[p].pc = "end" /\ t'[p].puts = <<s, d>> /\ t'[p].call = t[p].call /\ t'[p].path = t[p].path
      /\ t'[p].cur = d /\ t'[p].ip = s /\ t'[p].name = t[p].name /\ t'[p].put = t[p].put
      /\ t'[p].inum = t[p].inum
  BY <1>0, <1>1, GoFields DEF Fields, d, s
<1>6. <<s, d>> \in Seq(Slot) /\ Len(<<s, d>>) <= 2 /\ <<s, d>> # <<>> /\ Range(<<s, d>>) = {s, d}
  <2>1. PICK a \in Slot, b \in Slot : a = s /\ b = d
    BY <1>2, <1>3
  <2>2. <<a, b>> \in Seq(Slot) /\ Len(<<a, b>>) = 2 /\ <<a, b>> # <<>> /\ Range(<<a, b>>) = {a, b}
    BY TwoSeq
  <2> QED
    BY <2>1, <2>2
<1>7. ThreadType(t'[p])
  BY <1>1, <1>2, <1>3, <1>5, <1>6, Numbers DEF ThreadType, Pcs
<1>8. ThreadShape(t'[p])
  BY <1>1, <1>5, <1>6 DEF ThreadShape, InCall, Finds, Second, WithCur, WithPuts
<1>9. LockOf(p)'
  <2>1. \A x \in Slot : lock'[x] = p => x \in MayLock(p)'
    BY <1>0, <1>4, <1>5, <1>6 DEF Table, MayLock
  <2> QED
    BY <1>0, <1>1, <1>5, <2>1 DEF LockOf, Locking
<1>10. Counted(p)' = Counted(p) /\ Knows(p)'
  BY <1>0, <1>5 DEF Counted, Knows
<1>12. Calm(p) /\ HeldNext(p, "file") = HeldNow(p, "file") /\ HeldNext(p, "cwd") = HeldNow(p, "cwd")
  <2>1. t[p].pc \in InCall
    BY <1>0 DEF InCall, Finds
  <2>2. lock' \in [Slot -> Proc \union {None}] /\ valid \subseteq valid'
    BY <1>0, Ready DEF Table
  <2>3. t'[p].pc # "unlinked" /\ t'[p].pc # "moved" /\ t[p].pc # "unlinked" /\ t[p].pc # "moved"
    BY <1>0, <1>5
  <2> QED
    BY <1>0, <1>5, <1>7, <1>8, <1>9, <1>10, <2>1, <2>2, <2>3, CalmCall DEF Table
<1>13. \A k \in Kinds : HeldNext(p, k) = HeldNow(p, f[k])
  <2>1. HeldNext(p, "last") = d /\ HeldNext(p, "first") = s
    BY <1>1, <1>5, TwoPuts DEF HeldNext
  <2>2. HeldNext(p, "cur") = 0 /\ HeldNext(p, "ip") = 0
    BY <1>5 DEF HeldNext, Holding, WithCur, Finds, WithIp, Second
  <2> QED
    BY <1>1, <1>2, <1>3, <1>12, <2>1, <2>2 DEF Swap, Kinds
<1>14. f \in [Kinds -> Kinds] /\ \A k \in Kinds : f[f[k]] = k
  BY DEF Swap, Kinds
<1> HIDE DEF f
<1> QED
  BY <1>0, <1>3, <1>12, <1>13, <1>14, CalmMove DEF Table

(* open() gives the file a descriptor, or refuses. *)
LEMMA OpenedKept ==
  ASSUME IInv, NEW p \in Proc, Opened(p), UNCHANGED disk
  PROVE  IInv'
<1> DEFINE s == t[p].ip
<1>0. /\ t[p].pc = "opened" /\ t[p].puts = <<>> /\ Fixed /\ ref' = ref /\ inum' = inum /\ cwd' = cwd /\ ops' = ops
      /\ active' = active /\ valid' = valid
  BY DEF Opened, At, Fixed, disk
<1>1. CASE Cardinality(OpenFiles) >= NFILE \/ file[p] # 0
  <2>1. Quit(p, <<s>>) /\ lock' = lock /\ file' = file
    BY <1>1 DEF Opened
  <2> QED
    BY <1>0, <2>1, QuitIp DEF Table, user
<1>2. CASE ~(Cardinality(OpenFiles) >= NFILE \/ file[p] # 0)
  <2>0. file[p] = 0 /\ file' = [file EXCEPT ![p] = s] /\ lock' = [lock EXCEPT ![s] = None] /\ Go(p, [pc |-> "end", puts |-> <<>>])
    BY <1>2 DEF Opened, Quit
  <2>1. /\ TypeOK /\ RefInv /\ TableInv /\ ThreadInv /\ ThreadType(t[p]) /\ ThreadShape(t[p])
        /\ t[p].put = "test" /\ HeldNow(p, "first") = 0 /\ HeldNow(p, "last") = 0 /\ LockOf(p)
        /\ cwd[p] # 0 /\ p \in active
        /\ file \in [Proc -> 0..NINODE] /\ cwd \in [Proc -> 0..NINODE] /\ ops \in 0..MaxOps /\ active \subseteq Proc
        /\ lock \in [Slot -> Proc \union {None}]
    BY <1>0, Ready DEF IInv, Boots
  <2>2. s \in Slot /\ HeldNow(p, "ip") = s
    BY <1>0, <2>1, IpHeld DEF Second
  <2>3. lock[s] = p /\ \A x \in Slot : lock[x] = p => x = s
    <3>1. MayLock(p) = {x \in {s} : t[p].pc \in Locking}
      BY <1>0, Ready
    <3> QED
      BY <1>0, <2>1, <3>1 DEF LockOf, Locking
  <2> HIDE DEF s
  <2>4. t' = [q \in Proc |-> t'[q]] /\ \A q \in Proc \ {p} : t'[q] = t[q]
    BY <2>0, <2>1, GoFields
  <2>5. /\ t'[p].pc = "end" /\ t'[p].puts = <<>> /\ t'[p].call = t[p].call /\ t'[p].path = t[p].path
        /\ t'[p].cur = t[p].cur /\ t'[p].ip = t[p].ip /\ t'[p].name = t[p].name /\ t'[p].put = t[p].put
        /\ t'[p].inum = t[p].inum
    <3>1. Go(p, [pc |-> "end", puts |-> <<>>]) /\ ThreadInv
      BY <2>0, <2>1
    <3>2. \A f \in Fields : t'[p][f] = IF f \in {"pc", "puts"} THEN [pc |-> "end", puts |-> <<>>][f] ELSE t[p][f]
      BY <3>1, GoFields
    <3> QED
      BY <3>2 DEF Fields
  <2>6. <<>> \in Seq(Slot) /\ Len(<<>>) <= 2 /\ Len(<<>>) # 2
    OBVIOUS
  <2>7. ThreadType(t'[p])
    BY <2>1, <2>5, <2>6 DEF ThreadType, Pcs
  <2>8. ThreadShape(t'[p])
    BY <2>1, <2>5, <2>6 DEF ThreadShape, InCall, Finds, Second, WithCur, WithPuts
  <2>9. \A x \in Slot : lock'[x] # p /\ (lock'[x] # lock[x] => lock[x] \in {None, p} /\ lock'[x] \in {None, p})
    BY <2>0, <2>1, <2>2, <2>3, Sizes
  <2>10. LockOf(p)'
    BY <2>1, <2>5, <2>9, NoLocksNext
  <2>11. Counted(p)' = Counted(p) /\ Knows(p)'
    BY <1>0, <2>5 DEF Counted, Knows
  <2>12. Calm(p)
    <3>1. file' \in [Proc -> 0..NINODE] /\ \A q \in Proc \ {p} : file'[q] = file[q]
      BY <2>0, <2>1, <2>2, Numbers
    <3>2. Others(p)
      BY <1>0, <2>4, <3>1 DEF Others
    <3>3. t[p].pc \notin Boots /\ t'[p].pc \notin Boots /\ t[p].pc # "unlinked" /\ t'[p].pc # "unlinked"
      BY <1>0, <2>5 DEF Boots
    <3>4. lock' \in [Slot -> Proc \union {None}]
      BY <2>0, <2>1
    <3> QED
      BY <1>0, <2>1, <2>5, <2>7, <2>8, <2>9, <2>10, <2>11, <3>1, <3>2, <3>3, <3>4 DEF Calm, Fixed
  <2>13. \A k \in Kinds : HeldNext(p, k) = HeldNow(p, Swap("ip", "file")[k])
    <3>1. HeldNext(p, "last") = 0 /\ HeldNext(p, "first") = 0
      BY <2>5, NoPuts DEF HeldNext
    <3>2. HeldNext(p, "cur") = 0 /\ HeldNext(p, "ip") = 0
      BY <2>5 DEF HeldNext, Holding, WithCur, Finds, WithIp, Second
    <3>3. HeldNow(p, "cur") = 0 /\ HeldNow(p, "file") = 0
      BY <1>0, <2>0 DEF HeldNow, Holding, WithCur, Finds
    <3>4. HeldNext(p, "cwd") = HeldNow(p, "cwd") /\ HeldNext(p, "file") = s
      BY <1>0, <2>0, <2>1, <2>5 DEF HeldNext, HeldNow, Holding
    <3> QED
      BY <2>1, <2>2, <3>1, <3>2, <3>3, <3>4 DEF Swap, Kinds
  <2>14. Swap("ip", "file") \in [Kinds -> Kinds] /\ \A k \in Kinds : Swap("ip", "file")[Swap("ip", "file")[k]] = k
    BY Swapping DEF Kinds
  <2> QED
    BY <1>0, <2>12, <2>13, <2>14, CalmMove
<1> QED
  BY <1>1, <1>2

(* link() of a directory, or of an inode with too many links. *)
LEMMA LinkRefused ==
  ASSUME IInv, NEW p \in Proc, LinkInc(p), Ip(t[p].cur).type = "dir" \/ Ip(t[p].cur).nlink >= NLINK_MAX
  PROVE  IInv'
<1>1. /\ t[p].pc = "link_inc" /\ t[p].puts = <<>> /\ Fixed /\ Table /\ UNCHANGED <<user, active>>
      /\ valid' = valid \union {t[p].cur} /\ Go(p, [pc |-> "end", puts |-> <<t[p].cur>>])
  BY DEF LinkInc, At, Fixed, Table, ReadIn, Quit, NoIget
<1>2. (IF t[p].pc = "walk" /\ t[p].ip # 0 THEN "link_bad" ELSE "end") = "end"
  BY <1>1
<1> QED
  BY <1>1, <1>2, QuitCur

-----------------------------------------------------------------------------
(* The steps of iput().                                                    *)

(* A thread that has something to put: the reference it gives up, and the  *)
(* references there are beside it.                                         *)
LEMMA Putter ==
  ASSUME IInv, NEW p \in Proc, t[p].puts # <<>>
  PROVE  /\ PutSlot(p) \in Slot /\ PutSlot(p) \in Range(t[p].puts) /\ FirstPut(p) \in Kinds
         /\ t[p].pc \in WithPuts /\ t[p].pc # "unlink_child" /\ t[p].pc \notin {"reclaim", "down", "idle"}
         /\ ThreadType(t[p]) /\ ThreadShape(t[p]) /\ LockOf(p) /\ Knows(p)
         /\ \A q \in Proc \ {p} : t[q].pc \notin {"reclaim", "reclaimed"}
         /\ t[p].put # "free" => /\ HeldNow(p, FirstPut(p)) = PutSlot(p)
                                 /\ ref[PutSlot(p)] > 0 /\ inum[PutSlot(p)] \in Inum
                                 /\ ref[PutSlot(p)] = 1 =>
                                      \A q \in Proc, k \in Kinds : HeldNow(q, k) = PutSlot(p) => q = p /\ k = FirstPut(p)
<1>0. ThreadInv /\ TypeOK /\ RefInv /\ TableInv
  BY DEF IInv
<1>1. ThreadType(t[p]) /\ ThreadShape(t[p]) /\ LockOf(p) /\ Knows(p)
  BY DEF IInv, ThreadInv, LockInv, HeldInv
<1>2. t[p].pc \in WithPuts
  BY <1>1 DEF ThreadShape
<1>3. t[p].pc # "unlink_child" /\ t[p].pc \notin {"reclaim", "down", "idle"}
  BY <1>2 DEF WithPuts
<1>4. \A q \in Proc \ {p} : t[q].pc \notin {"reclaim", "reclaimed"}
  BY <1>0, <1>3 DEF ThreadInv, BootInv, Boots
<1>5. PutSlot(p) \in Slot /\ PutSlot(p) \in Range(t[p].puts) /\ FirstPut(p) \in Kinds
  BY <1>0, PutsAre, PutHeld
<1>6. ASSUME t[p].put # "free"
      PROVE  /\ HeldNow(p, FirstPut(p)) = PutSlot(p)
             /\ ref[PutSlot(p)] > 0 /\ inum[PutSlot(p)] \in Inum
             /\ ref[PutSlot(p)] = 1 =>
                  \A q \in Proc, k \in Kinds : HeldNow(q, k) = PutSlot(p) => q = p /\ k = FirstPut(p)
  <2>1. HeldNow(p, FirstPut(p)) = PutSlot(p)
    BY <1>0, <1>6, PutHeld
  <2>2. HeldNow(p, FirstPut(p)) \in Slot
    BY <1>5, <2>1
  <2>3. /\ ref[HeldNow(p, FirstPut(p))] > 0 /\ inum[HeldNow(p, FirstPut(p))] \in Inum
        /\ \A q \in Proc, j \in Kinds :
              ref[HeldNow(p, FirstPut(p))] = 1 /\ HeldNow(q, j) = HeldNow(p, FirstPut(p)) => q = p /\ j = FirstPut(p)
    BY <1>0, <1>5, <2>2, HolderRef
  <2> QED
    BY <2>1, <2>3
<1> QED
  BY <1>1, <1>2, <1>3, <1>4, <1>5, <1>6

(* The threads after a step of iput(). *)
LEMMA PutThreads ==
  ASSUME IInv, NEW p \in Proc, t[p].puts # <<>>, Others(p), UNCHANGED <<user, active>>,
         \A f \in {"pc", "call", "path", "cur", "ip", "name"} : t'[p][f] = t[p][f],
         t'[p].puts = t[p].puts \/ (t'[p].puts = Tail(t[p].puts) /\ t'[p].put = "test"),
         t'[p].put \in Phases, t'[p].inum \in 0..NINODES+1,
         t[p].pc = "reclaimed" => t'[p].inum \in Inum
  PROVE  ThreadInv'
<1>1. ThreadInv /\ ThreadType(t[p]) /\ ThreadShape(t[p])
  BY Putter DEF IInv
<1>2. /\ t'[p].pc = t[p].pc /\ t'[p].call = t[p].call /\ t'[p].path = t[p].path /\ t'[p].cur = t[p].cur
      /\ t'[p].ip = t[p].ip /\ t'[p].name = t[p].name
  OBVIOUS
<1>3. /\ t'[p].puts \in Seq(Slot) /\ Len(t'[p].puts) <= 2 /\ (Len(t'[p].puts) = 2 => Len(t[p].puts) = 2)
      /\ (t'[p].puts = <<>> => t'[p].put = "test")
  <2>1. CASE t'[p].puts = t[p].puts
    BY <1>1, <2>1 DEF ThreadType
  <2>2. CASE t'[p].puts = Tail(t[p].puts) /\ t'[p].put = "test"
    <3>1. \/ Tail(t[p].puts) = <<>>
          \/ Tail(t[p].puts) = <<t[p].puts[2]>> /\ t[p].puts[2] \in Slot
      BY <1>1, PutsAre
    <3>2. CASE Tail(t[p].puts) = <<>>
      <4>1. <<>> \in Seq(Slot) /\ Len(<<>>) = 0
        OBVIOUS
      <4>2. t'[p].puts = <<>> /\ t'[p].put = "test"
        BY <2>2, <3>2
      <4> QED
        BY <4>1, <4>2
    <3>3. CASE Tail(t[p].puts) = <<t[p].puts[2]>> /\ t[p].puts[2] \in Slot
      <4>1. PICK x \in Slot : x = t[p].puts[2]
        BY <3>3
      <4>2. <<x>> \in Seq(Slot) /\ Len(<<x>>) = 1 /\ <<x>> # <<>>
        BY OneSeq
      <4>3. t'[p].puts = <<x>> /\ t'[p].put = "test"
        BY <2>2, <3>3, <4>1
      <4>4. Len(t'[p].puts) = 1 /\ t'[p].puts \in Seq(Slot) /\ t'[p].puts # <<>>
        BY <4>2, <4>3
      <4> QED
        BY <4>4
    <3> QED
      BY <3>1, <3>2, <3>3
  <2> QED
    BY <2>1, <2>2
<1>4. ThreadType(t'[p])
  BY <1>1, <1>2, <1>3 DEF ThreadType
<1>5. ThreadShape(t'[p])
  BY <1>1, <1>2, <1>3, Putter DEF ThreadShape
<1>6. \A q \in Proc : t'[q].pc = t[q].pc
  BY <1>2 DEF Others
<1>7. BootInv' /\ ActiveInv'
  BY <1>1, <1>6 DEF ThreadInv, BootInv, ActiveInv, user
<1>8. t' = [q \in Proc |-> t'[q]] /\ \A q \in Proc : ThreadType(t'[q]) /\ ThreadShape(t'[q])
  BY <1>1, <1>4, <1>5 DEF Others, ThreadInv
<1> QED
  BY <1>7, <1>8 DEF ThreadInv

(* Its locks, when it takes or gives up that of the inode it puts. *)
LEMMA PutLocks ==
  ASSUME IInv, NEW p \in Proc, t[p].puts # <<>>, Others(p),
         t'[p].pc = t[p].pc, t'[p].ip = t[p].ip, t'[p].cur = t[p].cur,
         \A x \in Slot \ {PutSlot(p)} : lock'[x] = lock[x],
         (lock[PutSlot(p)] \in {None, p} /\ lock'[PutSlot(p)] \in {None, p}) \/ lock' = lock,
         \/ t'[p].puts = t[p].puts
         \/ t'[p].puts = Tail(t[p].puts) /\ t'[p].put = "test" /\ lock'[PutSlot(p)] # p,
         t'[p].put = "trunc" => lock'[PutSlot(p)] = p,
         t'[p].put \in {"drop", "free"} => lock'[PutSlot(p)] # p
  PROVE  LockInv'
<1> DEFINE s == PutSlot(p)
<1>0. ThreadInv /\ TypeOK /\ LockInv
  BY DEF IInv
<1>1. s \in Slot /\ s \in Range(t[p].puts) /\ LockOf(p) /\ t[p].pc # "unlink_child"
  BY Putter
<1>2. t[p].pc \in Locking => t[p].ip \in Slot /\ t[p].ip # s /\ lock[t[p].ip] = p /\ t[p].ip \notin Range(t[p].puts)
  BY <1>0, <1>1, IpHeld DEF LockOf, Locking, Second
<1>3. \A x \in Slot : lock'[x] # lock[x] => lock[x] \in {None, p} /\ lock'[x] \in {None, p}
  OBVIOUS
<1>4. Range(t'[p].puts) \subseteq Range(t[p].puts) /\ \A x \in Range(t[p].puts) : x = s \/ t'[p].puts = t[p].puts \/ x \in Range(t'[p].puts)
  <2>1. CASE t'[p].puts = t[p].puts
    BY <2>1
  <2>2. CASE t'[p].puts = Tail(t[p].puts)
    <3>1. \/ Tail(t[p].puts) = <<>> /\ t[p].puts = <<s>>
          \/ /\ Tail(t[p].puts) = <<t[p].puts[2]>> /\ t[p].puts = <<s, t[p].puts[2]>> /\ t[p].puts[2] \in Slot
      BY <1>0, PutsAre
    <3>2. CASE Tail(t[p].puts) = <<>> /\ t[p].puts = <<s>>
      <4>1. Range(<<s>>) = {s} /\ Range(<<>>) = {}
        BY <1>1, OneSeq DEF Range
      <4> QED
        BY <2>2, <3>2, <4>1
    <3>3. CASE Tail(t[p].puts) = <<t[p].puts[2]>> /\ t[p].puts = <<s, t[p].puts[2]>> /\ t[p].puts[2] \in Slot
      <4>1. PICK y \in Slot : y = t[p].puts[2]
        BY <3>3
      <4>2. \A r \in Slot : Range(<<s, r>>) = {s, r}
        BY <1>1, OneSeq
      <4>3. Range(<<y>>) = {y}
        BY OneSeq
      <4>4. Range(t[p].puts) = {s, y} /\ Range(t'[p].puts) = {y}
        BY <2>2, <3>3, <4>1, <4>2, <4>3
      <4> QED
        BY <4>4
    <3> QED
      BY <3>1, <3>2, <3>3
  <2> QED
    BY <2>1, <2>2
<1>5. t'[p].put \in {"trunc", "drop", "free"} => PutSlot(p)' = s
  BY DEF PutSlot
<1> HIDE DEF s
<1>6. LockOf(p)'
  <2>1. \A x \in Slot : lock'[x] = p => x \in MayLock(p)'
    <3> SUFFICES ASSUME NEW x \in Slot, lock'[x] = p
                 PROVE  x \in MayLock(p)'
      OBVIOUS
    <3>1. CASE x = s
      <4>1. t'[p].puts = t[p].puts
        BY <3>1 DEF s
      <4> QED
        BY <1>1, <3>1, <4>1 DEF MayLock
    <3>2. CASE x # s
      <4>1. x \in MayLock(p)
        BY <1>1, <3>2 DEF LockOf, s
      <4> QED
        BY <1>1, <1>4, <3>2, <4>1 DEF MayLock
    <3> QED
      BY <3>1, <3>2
  <2>2. t'[p].pc \in Locking => lock'[t'[p].ip] = p /\ t'[p].ip \notin Range(t'[p].puts)
    BY <1>2, <1>4 DEF s
  <2>3. t'[p].pc # "unlink_child"
    BY <1>1
  <2>4. t'[p].put = "trunc" => lock'[PutSlot(p)'] = p
    BY <1>5 DEF s
  <2>5. t'[p].put \in {"drop", "free"} => lock'[PutSlot(p)'] # p
    BY <1>5 DEF s
  <2> QED
    BY <2>1, <2>2, <2>3, <2>4, <2>5 DEF LockOf
<1> QED
  BY <1>0, <1>3, <1>6, LockFrame

(* iunlock() *)
LEMMA IunlockStep ==
  ASSUME IInv, NEW p \in Proc, Iunlock(p)
  PROVE  IInv'
<1> DEFINE s == PutSlot(p)
<1>0. /\ t[p].puts # <<>> /\ t[p].put = "test" /\ lock[s] = p /\ lock' = [lock EXCEPT ![s] = None]
      /\ UNCHANGED <<inode, used, saved, ref, inum, valid, file, cwd, ops, active, t, crashes>>
  BY DEF Iunlock, Putting, disk, user
<1>1. /\ s \in Slot /\ ThreadInv /\ TypeOK /\ lock \in [Slot -> Proc \union {None}]
  BY <1>0, Putter DEF IInv, TypeOK
<1>2. /\ lock' \in [Slot -> Proc \union {None}] /\ lock'[s] = None /\ \A x \in Slot \ {s} : lock'[x] = lock[x]
  BY <1>0, <1>1
<1>3. Others(p)
  BY <1>0, <1>1 DEF Others, ThreadInv
<1>4. LockInv'
  BY <1>0, <1>1, <1>2, <1>3, PutLocks
<1>5. TypeOK'
  BY <1>0, <1>1, <1>2 DEF TypeOK
<1>6. SavedConsistent' /\ ThreadInv' /\ TableInv'
  BY <1>0 DEF IInv, SavedConsistent, ThreadInv, BootInv, ActiveInv, TableInv
<1>7. RefInv'
  BY <1>0 DEF IInv, RefInv, Held
<1>8. Linking' = Linking /\ Dying' = Dying /\ Live' = Live
  BY <1>0 DEF Linking, Dying, Live, Dirs, Linked, Counted
<1>9. LinkInv' /\ EntryInv' /\ DirInv' /\ BlockInv'
  BY <1>0, <1>8, DiskFrame DEF IInv
<1>10. HeldInv' /\ PutInv' /\ OrphanInv'
  BY <1>0 DEF IInv, HeldInv, Knows, Ip, PutInv, Gone, PutSlot, Owned, OrphanInv, Orphan
<1> QED
  BY <1>4, <1>5, <1>6, <1>7, <1>9, <1>10 DEF IInv

(* Queues of one put and of two. *)
LEMMA PutsOne ==
  ASSUME NEW x, NEW c, NEW f, Len(x.puts) = 1
  PROVE  Holding(x, c, f, "first") = 0 /\ Holding(x, c, f, "last") = IF x.put = "free" THEN 0 ELSE x.puts[1]
<1>1. PICK n : n = Len(x.puts)
  OBVIOUS
<1>2. n = 1 /\ n - 1 = 0 /\ n \in 1..n /\ n - 1 \notin 1..n
  BY <1>1
<1> QED
  BY <1>1, <1>2 DEF Holding, PutAt

(* The second. *)
LEMMA PutsTwo ==
  ASSUME NEW x, NEW c, NEW f, Len(x.puts) = 2
  PROVE  /\ Holding(x, c, f, "first") = IF x.put = "free" THEN 0 ELSE x.puts[1]
         /\ Holding(x, c, f, "last") = x.puts[2]
<1>1. PICK n : n = Len(x.puts)
  OBVIOUS
<1>2. n = 2 /\ n - 1 = 1 /\ n \in 1..n /\ n - 1 \in 1..n
  BY <1>1
<1> QED
  BY <1>1, <1>2 DEF Holding, PutAt

(* The references after a step of iput(): the one it gives up is gone.     *)
LEMMA PutTokens ==
  ASSUME ThreadInv, NEW p \in Proc, t[p].puts # <<>>, UNCHANGED user,
         \A f \in {"pc", "call", "path", "cur", "ip", "name"} : t'[p][f] = t[p][f],
         NEW gone \in BOOLEAN,
         gone => t'[p].puts = Tail(t[p].puts) /\ t'[p].put = "test",
         ~gone => t'[p].puts = t[p].puts
  PROVE  /\ \A k \in Kinds \ {FirstPut(p)} : HeldNext(p, k) = HeldNow(p, k)
         /\ HeldNext(p, FirstPut(p)) = IF gone \/ t'[p].put = "free" THEN 0 ELSE PutSlot(p)
<1>1. t'[p].pc = t[p].pc /\ t'[p].cur = t[p].cur /\ t'[p].ip = t[p].ip
  OBVIOUS
<1>2. \A k \in {"cwd", "file", "cur", "ip"} : HeldNext(p, k) = HeldNow(p, k)
  BY <1>1 DEF HeldNext, HeldNow, Holding, user
<1>3. CASE Len(t[p].puts) = 1
  <2>1. /\ FirstPut(p) = "last" /\ HeldNow(p, "first") = 0 /\ Tail(t[p].puts) = <<>> /\ t[p].puts[1] = PutSlot(p)
        /\ Len(t[p].puts) # 2
    BY <1>3, PutHeld, PutsAre DEF FirstPut
  <2>2. CASE gone
    <3>1. HeldNext(p, "first") = 0 /\ HeldNext(p, "last") = 0
      BY <2>1, <2>2, NoPuts DEF HeldNext
    <3> QED
      BY <1>2, <2>1, <2>2, <3>1 DEF Kinds
  <2>3. CASE ~gone
    <3>1. HeldNext(p, "first") = 0 /\ HeldNext(p, "last") = IF t'[p].put = "free" THEN 0 ELSE PutSlot(p)
      <4>1. Len(t'[p].puts) = 1 /\ t'[p].puts[1] = PutSlot(p)
        BY <1>3, <2>1, <2>3
      <4> QED
        BY <4>1, PutsOne DEF HeldNext
    <3> QED
      BY <1>2, <2>1, <2>3, <3>1 DEF Kinds
  <2> QED
    BY <2>2, <2>3
<1>4. CASE Len(t[p].puts) = 2
  <2>1. /\ FirstPut(p) = "first" /\ HeldNow(p, "last") = t[p].puts[2] /\ Tail(t[p].puts) = <<t[p].puts[2]>>
        /\ t[p].puts[1] = PutSlot(p)
    BY <1>4, PutHeld, PutsAre DEF FirstPut
  <2>2. CASE gone
    <3>1. HeldNext(p, "first") = 0 /\ HeldNext(p, "last") = t[p].puts[2]
      <4>1. PICK y : y = t[p].puts[2]
        OBVIOUS
      <4>2. t'[p].puts = <<y>> /\ t'[p].put = "test"
        BY <2>1, <2>2, <4>1
      <4> QED
        BY <4>1, <4>2, OnePut DEF HeldNext
    <3> QED
      BY <1>2, <2>1, <2>2, <3>1 DEF Kinds
  <2>3. CASE ~gone
    <3>1. HeldNext(p, "last") = t[p].puts[2] /\ HeldNext(p, "first") = IF t'[p].put = "free" THEN 0 ELSE PutSlot(p)
      <4>1. Len(t'[p].puts) = 2 /\ t'[p].puts[1] = PutSlot(p) /\ t'[p].puts[2] = t[p].puts[2]
        BY <1>4, <2>1, <2>3
      <4> QED
        BY <4>1, PutsTwo DEF HeldNext
    <3> QED
      BY <1>2, <2>1, <2>3, <3>1 DEF Kinds
  <2> QED
    BY <2>2, <2>3
<1>5. Len(t[p].puts) = 1 \/ Len(t[p].puts) = 2
  BY PutsAre
<1> QED
  BY <1>3, <1>4, <1>5

(* What the put of one thread is to keep. *)
PutOf(p) ==
  /\ t[p].put # "test" => t[p].inum \in Inum /\ Gone(t[p].inum)
  /\ t[p].put \in {"drop", "free"} => Owned(inode[t[p].inum]) = {} /\ inode[t[p].inum].dir = NoEntries
  /\ t[p].put \in {"trunc", "drop"} => ref[PutSlot(p)] = 1 /\ inum[PutSlot(p)] = t[p].inum
  /\ t[p].put = "free" => \A s \in Slot : inum[s] # t[p].inum
  /\ t[p].pc = "reclaimed" /\ t[p].put = "test" /\ t[p].puts # <<>> => inum[PutSlot(p)] = t[p].inum

(* The puts of all, when one of them goes on. *)
LEMMA PutsFrame ==
  ASSUME ThreadInv, PutInv, NEW p \in Proc, Others(p),
         \A q \in Proc \ {p} : t[q].pc # "reclaimed",
         \A q \in Proc \ {p} : t[q].put # "test" => inode'[t[q].inum] = inode[t[q].inum],
         \A q \in Proc \ {p} : t[q].put \in {"trunc", "drop"} =>
           ref'[PutSlot(q)] = ref[PutSlot(q)] /\ inum'[PutSlot(q)] = inum[PutSlot(q)],
         \A q \in Proc \ {p} : t[q].put = "free" =>
           \A s \in Slot : inum[s] # t[q].inum => inum'[s] # t[q].inum,
         PutOf(p)',
         \A q \in Proc \ {p} : t'[p].put = "free" /\ t[q].put = "free" => t'[p].inum # t[q].inum
  PROVE  PutInv'
<1>0. \A q \in Proc \ {p} : t'[q] = t[q] /\ PutSlot(q)' = PutSlot(q)
  BY DEF Others, PutSlot
<1>1. ASSUME NEW q \in Proc \ {p}
      PROVE  PutOf(q)'
  <2>1. (t[q].put # "test" => t[q].inum \in Inum /\ Gone(t[q].inum))'
    BY <1>0 DEF PutInv, Gone
  <2>2. (t[q].put \in {"drop", "free"} => Owned(inode[t[q].inum]) = {} /\ inode[t[q].inum].dir = NoEntries)'
    <3> SUFFICES ASSUME t[q].put \in {"drop", "free"}
                 PROVE  Owned(inode'[t[q].inum]) = {} /\ inode'[t[q].inum].dir = NoEntries
      BY <1>0 DEF Owned
    <3>1. inode'[t[q].inum] = inode[t[q].inum]
      OBVIOUS
    <3> QED
      BY <3>1 DEF PutInv
  <2>3. (t[q].put \in {"trunc", "drop"} => ref[PutSlot(q)] = 1 /\ inum[PutSlot(q)] = t[q].inum)'
    BY <1>0 DEF PutInv
  <2>4. (t[q].put = "free" => \A s \in Slot : inum[s] # t[q].inum)'
    BY <1>0 DEF PutInv
  <2>5. (t[q].pc = "reclaimed" /\ t[q].put = "test" /\ t[q].puts # <<>> => inum[PutSlot(q)] = t[q].inum)'
    BY <1>0
  <2> QED
    BY <2>1, <2>2, <2>3, <2>4, <2>5 DEF PutOf
<1>2. \A q \in Proc : PutOf(q)'
  BY <1>1
<1>3. \A q, r \in Proc : t'[q].put = "free" /\ t'[r].put = "free" /\ t'[q].inum = t'[r].inum => q = r
  BY <1>0 DEF PutInv
<1> QED
  BY <1>2, <1>3 DEF PutInv, PutOf

(* The first inode of p's queue loses a reference. *)
LEMMA Dropped ==
  ASSUME IInv, NEW p \in Proc, t[p].puts # <<>>, t[p].put # "free", lock[PutSlot(p)] # p, Drop(PutSlot(p)), Forget(PutSlot(p)), Others(p),
         UNCHANGED <<disk, saved, lock, user, active, crashes>>,
         \A f \in {"pc", "call", "path", "cur", "ip", "name"} : t'[p][f] = t[p][f],
         NEW gone \in BOOLEAN,
         gone => t'[p].puts = Tail(t[p].puts) /\ t'[p].put = "test" /\ t[p].put = "test",
         ~gone => t'[p].puts = t[p].puts /\ t'[p].put = "free" /\ t[p].put = "drop",
         t'[p].inum = t[p].inum
  PROVE  /\ TypeOK' /\ SavedConsistent' /\ ThreadInv' /\ RefInv' /\ TableInv' /\ LockInv' /\ LinkInv' /\ EntryInv'
         /\ DirInv' /\ BlockInv' /\ HeldInv'
         /\ \A x \in Slot \ {PutSlot(p)} : ref'[x] = ref[x] /\ inum'[x] = inum[x] /\ (x \in valid' <=> x \in valid)
         /\ ref[PutSlot(p)] > 1 => inum'[PutSlot(p)] = inum[PutSlot(p)] /\ (PutSlot(p) \in valid' <=> PutSlot(p) \in valid)
         /\ ref[PutSlot(p)] = 1 => inum'[PutSlot(p)] = 0 /\ ref'[PutSlot(p)] = 0
         /\ ref[PutSlot(p)] > 0
         /\ \A q \in Proc, k \in Kinds \ {FirstPut(p)} : HeldNow(q, k) = PutSlot(p) => ref[PutSlot(p)] > 1
         /\ \A q \in Proc \ {p}, k \in Kinds : HeldNow(q, k) = PutSlot(p) => ref[PutSlot(p)] > 1
<1>0. /\ ThreadInv /\ TypeOK /\ RefInv /\ TableInv /\ HeldInv
      /\ inode' = inode /\ used' = used /\ saved' = saved /\ lock' = lock /\ file' = file /\ cwd' = cwd
      /\ ops' = ops /\ active' = active /\ crashes' = crashes
  BY DEF IInv, disk, user
<1>1. PICK s \in Slot : s = PutSlot(p)
  BY Putter
<1>2. /\ HeldNow(p, FirstPut(p)) = s /\ FirstPut(p) \in Kinds /\ ref[s] > 0 /\ inum[s] \in Inum
      /\ ref[s] = 1 => \A q \in Proc, k \in Kinds : HeldNow(q, k) = s => q = p /\ k = FirstPut(p)
      /\ t[p].pc # "unlink_child" /\ \A q \in Proc \ {p} : t[q].pc # "reclaimed"
      /\ LockOf(p) /\ Knows(p) /\ ThreadType(t[p]) /\ ThreadShape(t[p])
  BY <1>1, Putter
<1>3. ref \in [Slot -> Nat] /\ inum \in [Slot -> 0..NINODES] /\ valid \subseteq Slot /\ 0 \in 0..NINODES
  BY <1>0, Numbers DEF TypeOK
<1>4. /\ ref' = [ref EXCEPT ![s] = @ - 1]
      /\ inum' = [inum EXCEPT ![s] = IF ref[s] = 1 THEN 0 ELSE @]
      /\ valid' = IF ref[s] = 1 THEN valid \ {s} ELSE valid
  BY <1>1 DEF Drop, Forget
<1>5. /\ ref'[s] = ref[s] - 1 /\ ref' \in [Slot -> Nat] /\ inum' \in [Slot -> 0..NINODES] /\ valid' \subseteq Slot
      /\ \A x \in Slot \ {s} : ref'[x] = ref[x] /\ inum'[x] = inum[x] /\ (x \in valid' <=> x \in valid)
      /\ ref[s] > 1 => inum'[s] = inum[s] /\ (s \in valid' <=> s \in valid)
      /\ ref[s] = 1 => inum'[s] = 0 /\ ref'[s] = 0 /\ s \notin valid'
      /\ ref[s] = 1 \/ ref[s] > 1
  BY <1>2, <1>3, <1>4
<1>6. \A q \in Proc, k \in Kinds : HeldNow(q, k) = s /\ (q # p \/ k # FirstPut(p)) => ref[s] > 1
  BY <1>2, <1>5
<1>7. ThreadInv'
  <2>1. t'[p].put \in Phases /\ t'[p].inum \in 0..NINODES+1 /\ (t[p].pc = "reclaimed" => t'[p].inum \in Inum)
    BY <1>2 DEF Phases, ThreadType, ThreadShape
  <2>2. t'[p].puts = t[p].puts \/ (t'[p].puts = Tail(t[p].puts) /\ t'[p].put = "test")
    OBVIOUS
  <2> QED
    BY <2>1, <2>2, PutThreads
<1>8. TableInv'
  <2>1. \A x \in Slot : ref'[x] > 0 => inum'[x] # 0
    BY <1>0, <1>2, <1>3, <1>5 DEF TableInv
  <2>2. \A x \in Slot : ref'[x] = 0 => inum'[x] = 0 /\ x \notin valid'
    BY <1>0, <1>3, <1>5 DEF TableInv
  <2>3. \A x, y \in Slot : ref'[x] > 0 /\ ref'[y] > 0 /\ inum'[x] = inum'[y] => x = y
    <3> SUFFICES ASSUME NEW x \in Slot, NEW y \in Slot, ref'[x] > 0, ref'[y] > 0, inum'[x] = inum'[y]
                 PROVE  x = y
      OBVIOUS
    <3>1. ref[x] > 0 /\ inum'[x] = inum[x]
      BY <1>3, <1>5
    <3>2. ref[y] > 0 /\ inum'[y] = inum[y]
      BY <1>3, <1>5
    <3> QED
      BY <1>0, <3>1, <3>2 DEF TableInv
  <2> QED
    BY <2>1, <2>2, <2>3 DEF TableInv
<1>9. TypeOK'
  BY <1>0, <1>5, <1>8 DEF TypeOK, TableInv
<1>10. SavedConsistent'
  BY <1>0 DEF IInv, SavedConsistent
<1>11. RefInv'
  <2>1. \A k \in Kinds \ {FirstPut(p)} : HeldNext(p, k) = HeldNow(p, k)
    BY <1>0, PutTokens
  <2>2. HeldNext(p, FirstPut(p)) = IF gone \/ t'[p].put = "free" THEN 0 ELSE PutSlot(p)
    BY <1>0, PutTokens
  <2>3. HeldNext(p, FirstPut(p)) = 0
    BY <2>2
  <2> QED
    BY <1>0, <1>2, <1>4, <2>1, <2>3, RefsLost
<1>12. LockInv'
  BY <1>0, <1>1, PutLocks
<1>13. Linking' = Linking /\ Dying' = Dying /\ Live' = Live
  <2>1. \A q \in Proc : Counted(q)' = Counted(q) /\ (t'[q].pc = "unlinked" <=> t[q].pc = "unlinked")
    BY DEF Others, Counted
  <2>2. \A q \in Proc : Counted(q) # 0 => inum'[Counted(q)] = inum[Counted(q)]
    <3> SUFFICES ASSUME NEW q \in Proc, Counted(q) # 0
                 PROVE  inum'[Counted(q)] = inum[Counted(q)]
      OBVIOUS
    <3>1. Counted(q) \in Slot /\ HeldNow(q, "ip") = Counted(q) /\ "ip" \in Kinds /\ "ip" # FirstPut(p)
      BY <1>0, CountedHeld DEF FirstPut
    <3> QED
      BY <1>5, <1>6, <3>1
  <2> QED
    BY <1>0, <1>7, <2>1, <2>2, LinkFrame
<1>14. LinkInv' /\ EntryInv' /\ DirInv' /\ BlockInv'
  BY <1>0, <1>13, DiskFrame DEF IInv
<1>15. HeldInv'
  <2>1. \A q \in Proc, k \in Kinds : (q # p \/ k # FirstPut(p)) /\ HeldNow(q, k) \in Slot =>
           /\ inum'[HeldNow(q, k)] = inum[HeldNow(q, k)]
           /\ HeldNow(q, k) \in valid => HeldNow(q, k) \in valid'
    BY <1>5, <1>6
  <2>2. \A q \in Proc \ {p}, k \in Kinds : HeldNow(q, k) \in Slot =>
           /\ inum'[HeldNow(q, k)] = inum[HeldNow(q, k)]
           /\ HeldNow(q, k) \in valid => HeldNow(q, k) \in valid'
           /\ inode'[inum[HeldNow(q, k)]].type = inode[inum[HeldNow(q, k)]].type
    BY <1>0, <2>1
  <2>3. \A q \in Proc \ {p} : Knows(q)'
    BY <1>0, <2>2, KnowsFrame
  <2>4. t[p].pc \in Second \/ (t[p].pc = "walk" /\ t[p].ip # 0) =>
          inum'[t[p].ip] = inum[t[p].ip] /\ (t[p].ip \in valid => t[p].ip \in valid')
    BY <1>0, <2>1, IpHeld DEF FirstPut
  <2>5. t[p].pc \notin {"create", "unlink", "unlink_child", "link_new"}
    BY Putter DEF WithPuts
  <2>6. Knows(p)'
    <3>1. t'[p].pc = t[p].pc /\ t'[p].ip = t[p].ip
      OBVIOUS
    <3> QED
      BY <1>0, <1>2, <2>4, <2>5, <3>1 DEF Knows, Ip, Second
  <2>7. \A x \in Slot : ref'[x] > 0 => inode'[inum'[x]].type # "free"
    <3> SUFFICES ASSUME NEW x \in Slot, ref'[x] > 0
                 PROVE  inode'[inum'[x]].type # "free"
      OBVIOUS
    <3>1. ref[x] > 0 /\ inum'[x] = inum[x]
      BY <1>2, <1>3, <1>5
    <3> QED
      BY <1>0, <3>1 DEF HeldInv, Ip
  <2> QED
    BY <2>3, <2>6, <2>7 DEF HeldInv, Ip
<1> QED
  BY <1>1, <1>2, <1>5, <1>6, <1>7, <1>8, <1>9, <1>10, <1>11, <1>12, <1>14, <1>15

(* What another thread is putting for the last time is not what p puts. *)
LEMMA PutApart ==
  ASSUME IInv, NEW p \in Proc, t[p].puts # <<>>, t[p].put # "free", NEW q \in Proc \ {p}
  PROVE  /\ t[q].put # "test" => inum[PutSlot(p)] # t[q].inum
         /\ t[q].put \in {"trunc", "drop"} => PutSlot(q) \in Slot /\ PutSlot(q) # PutSlot(p)
<1>0. ThreadInv /\ TypeOK /\ RefInv /\ TableInv /\ PutInv
  BY DEF IInv
<1>1. HeldNow(p, FirstPut(p)) = PutSlot(p) /\ PutSlot(p) \in Slot /\ FirstPut(p) \in Kinds
  BY Putter
<1>2. ASSUME t[q].put # "test"
      PROVE  /\ inum[PutSlot(p)] # t[q].inum
             /\ t[q].put \in {"trunc", "drop"} => PutSlot(p) # PutSlot(q)
  <2>1. HeldNow(p, FirstPut(p)) \in Slot
    BY <1>1
  <2>2. /\ inum[HeldNow(p, FirstPut(p))] # t[q].inum
        /\ t[q].put \in {"trunc", "drop"} => HeldNow(p, FirstPut(p)) # PutSlot(q)
    BY <1>0, <1>1, <1>2, <2>1, PutAlone
  <2> QED
    BY <1>1, <2>2
<1>3. t[q].put \in {"trunc", "drop"} => PutSlot(q) \in Slot
  <2>1. t[q].put # "test" => t[q].puts # <<>>
    BY <1>0 DEF ThreadInv, ThreadShape
  <2> QED
    BY <1>0, <2>1, PutsAre
<1> QED
  BY <1>2, <1>3

(* iput() of an inode that is used elsewhere, or has links. *)
LEMMA PutStep ==
  ASSUME IInv, NEW p \in Proc, Put(p)
  PROVE  IInv'
<1>1. PICK s \in Slot : s = PutSlot(p)
  BY Putter DEF Put, Putting
<1>0. /\ t[p].puts # <<>> /\ t[p].put = "test" /\ lock[s] # p /\ ~LastRef(s) /\ Drop(s) /\ Forget(s)
      /\ Go(p, [puts |-> Tail(t[p].puts)]) /\ UNCHANGED <<disk, saved, lock, user, active, crashes>>
  BY <1>1 DEF Put, Putting
<1>2. ThreadInv /\ TypeOK /\ RefInv /\ TableInv /\ PutInv /\ OrphanInv /\ HeldInv
  BY DEF IInv
<1>3. /\ Others(p) /\ \A q \in Proc \ {p} : t'[q] = t[q] /\ PutSlot(q)' = PutSlot(q)
  BY <1>0, <1>2, GoFields DEF Others, user, PutSlot
<1>4. /\ \A f \in {"pc", "call", "path", "cur", "ip", "name"} : t'[p][f] = t[p][f]
      /\ t'[p].pc = t[p].pc /\ t'[p].puts = Tail(t[p].puts) /\ t'[p].put = "test" /\ t'[p].inum = t[p].inum
  <2>1. PICK w : w = Tail(t[p].puts)
    OBVIOUS
  <2>2. Go(p, [puts |-> w]) /\ t[p].put = "test"
    BY <1>0, <2>1
  <2>3. \A f \in Fields : t'[p][f] = IF f = "puts" THEN w ELSE t[p][f]
    BY <1>2, <2>2, GoFields
  <2> QED
    BY <2>1, <2>2, <2>3 DEF Fields
<1>5. /\ TypeOK' /\ SavedConsistent' /\ ThreadInv' /\ RefInv' /\ TableInv' /\ LockInv' /\ LinkInv' /\ EntryInv'
      /\ DirInv' /\ BlockInv' /\ HeldInv'
      /\ \A x \in Slot \ {s} : ref'[x] = ref[x] /\ inum'[x] = inum[x] /\ (x \in valid' <=> x \in valid)
      /\ ref[s] > 1 => inum'[s] = inum[s] /\ (s \in valid' <=> s \in valid)
      /\ ref[s] = 1 => inum'[s] = 0 /\ ref'[s] = 0
      /\ ref[s] > 0
      /\ \A q \in Proc \ {p}, k \in Kinds : HeldNow(q, k) = s => ref[s] > 1
  <2>1. TRUE \in BOOLEAN
    OBVIOUS
  <2> QED
    BY <1>0, <1>1, <1>3, <1>4, <2>1, Dropped
<1>6. inode' = inode /\ ref \in [Slot -> Nat] /\ (ref[s] = 1 \/ ref[s] > 1)
  BY <1>0, <1>2, <1>5 DEF disk, TypeOK
<1>7. \A q \in Proc \ {p} : /\ t[q].put # "test" => inum[s] # t[q].inum
                            /\ t[q].put \in {"trunc", "drop"} => PutSlot(q) \in Slot /\ PutSlot(q) # s
  BY <1>0, <1>1, PutApart
<1>8. \A q \in Proc \ {p} : t[q].pc \notin {"reclaim", "reclaimed"}
  BY <1>0, Putter
<1>9. PutInv'
  <2>1. \A q \in Proc \ {p} : t[q].put = "free" =>
          \A x \in Slot : inum[x] # t[q].inum => inum'[x] # t[q].inum
    BY <1>2, <1>5, <1>6, Numbers DEF PutInv
  <2>2. t'[p].pc = "reclaimed" => t'[p].puts = <<>>
    <3>1. t[p].pc = "reclaimed" => Len(t[p].puts) # 2
      BY <1>2 DEF ThreadInv, ThreadShape
    <3> QED
      BY <1>0, <1>2, <1>4, <3>1, PutsAre
  <2>3. PutOf(p)'
    BY <1>4, <2>2 DEF PutOf
  <2> QED
    BY <1>2, <1>3, <1>4, <1>5, <1>6, <1>7, <1>8, <2>1, <2>3, PutsFrame
<1>10. OrphanInv'
  <2>1. ASSUME NEW x \in Slot, ref'[x] > 0, inode'[inum'[x]].nlink = 0
        PROVE  x \in valid' \/ \E q \in Proc : t'[q].put = "drop" /\ PutSlot(q)' = x
    <3>1. ref[x] > 0 /\ inum'[x] = inum[x] /\ (x \in valid' <=> x \in valid)
      BY <1>5, <1>6, <2>1
    <3>2. x \in valid \/ \E q \in Proc : t[q].put = "drop" /\ PutSlot(q) = x
      BY <1>2, <1>6, <2>1, <3>1 DEF OrphanInv, Ip
    <3> QED
      BY <1>0, <1>3, <3>1, <3>2
  <2>2. ASSUME NEW i \in Inum, Orphan(i)
        PROVE  \/ \E x \in Slot : inum'[x] = i
               \/ \E q \in Proc : t'[q].put = "free" /\ t'[q].inum = i
               \/ \E q \in Proc : t'[q].pc = "reclaim" /\ t'[q].inum <= i
               \/ \E q \in Proc : t'[q].pc = "reclaimed" /\ t'[q].inum < i
    <3>0. \A q \in Proc : t'[q].pc = t[q].pc /\ t'[q].inum = t[q].inum /\ (t[q].put = "free" => t'[q].put = "free")
      BY <1>0, <1>3, <1>4
    <3>1. ASSUME NEW y \in Slot, inum[y] = i
          PROVE  inum'[y] = i
      <4>1. CASE y = s /\ ref[s] = 1
        <5>1. Ip(s).nlink = 0 /\ s \notin valid
          BY <1>0, <2>2, <3>1, <4>1 DEF LastRef, Orphan, Ip
        <5>2. PICK q \in Proc : t[q].put = "drop" /\ PutSlot(q) = s
          BY <1>2, <1>5, <5>1 DEF OrphanInv
        <5> QED
          BY <1>0, <1>7, <5>2
      <4> QED
        BY <1>5, <1>6, <3>1, <4>1
    <3>2. \/ \E y \in Slot : inum[y] = i
          \/ \E q \in Proc : t[q].put = "free" /\ t[q].inum = i
          \/ \E q \in Proc : t[q].pc = "reclaim" /\ t[q].inum <= i
          \/ \E q \in Proc : t[q].pc = "reclaimed" /\ t[q].inum < i
      BY <1>2, <2>2 DEF OrphanInv
    <3> QED
      BY <3>0, <3>1, <3>2
  <2> QED
    BY <1>6, <2>1, <2>2 DEF OrphanInv, Ip, Orphan
<1> QED
  BY <1>5, <1>9, <1>10 DEF IInv

(* iput(): the last reference is found, and the lock taken. *)
LEMMA PutLastStep ==
  ASSUME IInv, NEW p \in Proc, PutLast(p)
  PROVE  IInv'
<1>1. PICK s \in Slot : s = PutSlot(p)
  BY Putter DEF PutLast, Putting
<1>0. /\ t[p].puts # <<>> /\ t[p].put = "test" /\ LastRef(s) /\ lock[s] = None /\ lock' = [lock EXCEPT ![s] = p]
      /\ Go(p, [put |-> "trunc", inum |-> inum[s]])
      /\ UNCHANGED <<inode, used, saved, ref, inum, valid, file, cwd, ops, active, crashes>> /\ UNCHANGED user
  BY <1>1 DEF PutLast, Putting, disk, user, Unlocked
<1>2. /\ ThreadInv /\ TypeOK /\ RefInv /\ TableInv /\ PutInv /\ OrphanInv /\ HeldInv
  BY DEF IInv
<1>3. /\ Others(p) /\ \A q \in Proc \ {p} : t'[q] = t[q] /\ PutSlot(q)' = PutSlot(q)
  BY <1>0, <1>2, GoFields DEF Others, user, PutSlot
<1>4. /\ \A f \in {"pc", "call", "path", "cur", "ip", "name"} : t'[p][f] = t[p][f]
      /\ t'[p].pc = t[p].pc /\ t'[p].puts = t[p].puts /\ t'[p].put = "trunc" /\ t'[p].inum = inum[s]
      /\ t'[p].ip = t[p].ip /\ t'[p].cur = t[p].cur /\ t'[p].name = t[p].name
      /\ PutSlot(p)' = s
  <2>1. \A f \in Fields : t'[p][f] = IF f \in {"put", "inum"} THEN [put |-> "trunc", inum |-> inum[s]][f] ELSE t[p][f]
    BY <1>0, <1>2, GoFields
  <2> QED
    BY <1>1, <2>1 DEF Fields, PutSlot
<1>5. /\ inum[s] \in Inum /\ ref[s] = 1 /\ \A q \in Proc \ {p} : t[q].pc \notin {"reclaim", "reclaimed"}
      /\ ThreadType(t[p]) /\ LockOf(p) /\ Knows(p)
  BY <1>0, <1>1, Putter DEF LastRef
<1>6. ThreadInv'
  <2>1. t'[p].put \in Phases /\ t'[p].inum \in 0..NINODES+1 /\ (t[p].pc = "reclaimed" => t'[p].inum \in Inum)
    BY <1>4, <1>5, Sizes DEF Phases, Inum
  <2> QED
    BY <1>0, <1>3, <1>4, <2>1, PutThreads
<1>7. LockInv' /\ lock' \in [Slot -> Proc \union {None}]
  <2>1. lock' \in [Slot -> Proc \union {None}] /\ lock'[s] = p /\ \A x \in Slot \ {s} : lock'[x] = lock[x]
    BY <1>0, <1>2 DEF TypeOK
  <2> QED
    BY <1>0, <1>1, <1>3, <1>4, <2>1, PutLocks
<1>8. TypeOK'
  BY <1>0, <1>2, <1>7 DEF TypeOK
<1>9. SavedConsistent' /\ TableInv'
  BY <1>0 DEF IInv, SavedConsistent, TableInv
<1>10. RefInv'
  <2>1. FALSE \in BOOLEAN
    OBVIOUS
  <2>2. /\ \A k \in Kinds \ {FirstPut(p)} : HeldNext(p, k) = HeldNow(p, k)
        /\ HeldNext(p, FirstPut(p)) = IF FALSE \/ t'[p].put = "free" THEN 0 ELSE PutSlot(p)
    BY <1>0, <1>2, <1>4, <2>1, PutTokens
  <2>3. HeldNow(p, FirstPut(p)) = PutSlot(p)
    BY <1>0, Putter
  <2>4. \A k \in Kinds : HeldNext(p, k) = HeldNow(p, Swap("cur", "cur")[k])
    BY <1>4, <2>2, <2>3 DEF Swap
  <2>5. Swap("cur", "cur") \in [Kinds -> Kinds] /\ \A k \in Kinds : Swap("cur", "cur")[Swap("cur", "cur")[k]] = k
    BY Swapping DEF Kinds
  <2> QED
    BY <1>0, <1>2, <1>3, <2>4, <2>5, RefsMoved
<1>11. LinkInv' /\ EntryInv' /\ DirInv' /\ BlockInv'
  <2>1. \A q \in Proc : Counted(q)' = Counted(q) /\ (t'[q].pc = "unlinked" <=> t[q].pc = "unlinked")
    BY <1>3, <1>4 DEF Counted
  <2>2. Linking' = Linking /\ Dying' = Dying /\ Live' = Live
    BY <1>0, <1>2, <1>6, <2>1, LinkFrame
  <2> QED
    BY <1>0, <2>2, DiskFrame DEF IInv
<1>12. HeldInv'
  <2>1. \A q \in Proc \ {p} : Knows(q)'
    BY <1>0, <1>2, <1>3 DEF HeldInv, Knows, Ip
  <2>2. Knows(p)'
    BY <1>0, <1>4, <1>5 DEF Knows, Ip
  <2> QED
    BY <1>0, <1>2, <2>1, <2>2 DEF HeldInv, Ip
<1>13. PutInv'
  <2>1. PutOf(p)'
    <3>1. Gone(inum[s])
      BY <1>0, <1>2, <1>5 DEF LastRef, Gone, HeldInv, Ip
    <3> QED
      BY <1>0, <1>4, <1>5, <3>1 DEF PutOf, Gone
  <2> QED
    BY <1>0, <1>2, <1>3, <1>4, <1>5, <2>1, PutsFrame
<1>14. OrphanInv'
  <2>1. t[p].pc = "reclaimed" => t'[p].inum = t[p].inum
    BY <1>0, <1>1, <1>2, <1>4 DEF PutInv
  <2>2. \A q \in Proc : t'[q].pc = t[q].pc /\ (t[q].put \in {"drop", "free"} => t'[q] = t[q] /\ PutSlot(q)' = PutSlot(q))
    BY <1>0, <1>3, <1>4
  <2>3. \A q \in Proc : t[q].pc \in {"reclaim", "reclaimed"} => t'[q].inum = t[q].inum
    BY <1>0, <1>3, <2>1, Putter
  <2> QED
    BY <1>0, <1>2, <2>2, <2>3 DEF OrphanInv, Ip, Orphan
<1> QED
  BY <1>6, <1>7, <1>8, <1>9, <1>10, <1>11, <1>12, <1>13, <1>14 DEF IInv

(* iput(): the reference is given up, the entry may be used again. *)
LEMMA PutDropStep ==
  ASSUME IInv, NEW p \in Proc, PutDrop(p)
  PROVE  IInv'
<1>2. ThreadInv /\ TypeOK /\ RefInv /\ TableInv /\ PutInv /\ OrphanInv /\ HeldInv /\ t[p].put = "drop" /\ t[p].puts # <<>>
  BY DEF IInv, PutDrop, Putting
<1>1. PICK s \in Slot : s = PutSlot(p)
  BY <1>2, Putter
<1>0. /\ lock[s] # p /\ Drop(s) /\ Forget(s) /\ Go(p, [put |-> "free"])
      /\ UNCHANGED <<disk, saved, lock, user, active, crashes>>
  <2>1. LockOf(p)
    BY <1>2, Putter
  <2> QED
    BY <1>1, <1>2, <2>1 DEF PutDrop, LockOf
<1>3. /\ Others(p) /\ \A q \in Proc \ {p} : t'[q] = t[q] /\ PutSlot(q)' = PutSlot(q)
  BY <1>0, <1>2, GoFields DEF Others, user, PutSlot
<1>4. /\ \A f \in {"pc", "call", "path", "cur", "ip", "name"} : t'[p][f] = t[p][f]
      /\ t'[p].pc = t[p].pc /\ t'[p].puts = t[p].puts /\ t'[p].put = "free" /\ t'[p].inum = t[p].inum
  BY <1>0, <1>2, GoFields DEF Fields
<1>5. /\ TypeOK' /\ SavedConsistent' /\ ThreadInv' /\ RefInv' /\ TableInv' /\ LockInv' /\ LinkInv' /\ EntryInv'
      /\ DirInv' /\ BlockInv' /\ HeldInv'
      /\ \A x \in Slot \ {s} : ref'[x] = ref[x] /\ inum'[x] = inum[x] /\ (x \in valid' <=> x \in valid)
      /\ ref[s] = 1 => inum'[s] = 0 /\ ref'[s] = 0
  <2>1. FALSE \in BOOLEAN
    OBVIOUS
  <2> QED
    BY <1>0, <1>1, <1>2, <1>3, <1>4, <2>1, Dropped
<1>6. /\ inode' = inode /\ ref[s] = 1 /\ inum[s] = t[p].inum /\ t[p].inum \in Inum
      /\ inum'[s] = 0 /\ ref'[s] = 0
  <2>1. inode' = inode
    BY <1>0 DEF disk
  <2>2. ref[s] = 1 /\ inum[s] = t[p].inum
    BY <1>1, <1>2 DEF PutInv
  <2>3. t[p].inum \in Inum
    BY <1>2 DEF PutInv
  <2> QED
    BY <1>5, <2>1, <2>2, <2>3
<1>7. \A q \in Proc \ {p} : /\ t[q].put # "test" => inum[s] # t[q].inum
                            /\ t[q].put \in {"trunc", "drop"} => PutSlot(q) \in Slot /\ PutSlot(q) # s
  BY <1>1, <1>2, PutApart
<1>8. \A q \in Proc \ {p} : t[q].pc \notin {"reclaim", "reclaimed"}
  BY <1>2, Putter
<1>9. PutInv'
  <2>1. \A q \in Proc \ {p} : t[q].put = "free" =>
          \A x \in Slot : inum[x] # t[q].inum => inum'[x] # t[q].inum
    BY <1>2, <1>5, <1>6, Numbers DEF PutInv
  <2>2. \A x \in Slot : inum'[x] # t[p].inum
    <3> SUFFICES ASSUME NEW x \in Slot, x # s, inum[x] = t[p].inum
                 PROVE  FALSE
      BY <1>5, <1>6, Numbers
    <3>1. ref[x] > 0
      BY <1>2, <1>6, Numbers DEF TableInv, TypeOK
    <3> QED
      BY <1>2, <1>6, <3>1 DEF TableInv
  <2>3. PutOf(p)'
    <3>1. Gone(t[p].inum) /\ Owned(inode[t[p].inum]) = {} /\ inode[t[p].inum].dir = NoEntries
      BY <1>2 DEF PutInv
    <3> QED
      BY <1>4, <1>6, <2>2, <3>1 DEF PutOf, Gone, Owned
  <2> QED
    BY <1>2, <1>3, <1>4, <1>5, <1>6, <1>7, <1>8, <2>1, <2>3, PutsFrame
<1>10. OrphanInv'
  <2>1. ASSUME NEW x \in Slot, ref'[x] > 0, inode'[inum'[x]].nlink = 0
        PROVE  x \in valid' \/ \E q \in Proc : t'[q].put = "drop" /\ PutSlot(q)' = x
    <3>1. x # s /\ ref[x] > 0 /\ inum'[x] = inum[x] /\ (x \in valid' <=> x \in valid)
      BY <1>5, <1>6, <2>1
    <3>2. x \in valid \/ \E q \in Proc : t[q].put = "drop" /\ PutSlot(q) = x
      BY <1>2, <1>6, <2>1, <3>1 DEF OrphanInv, Ip
    <3> QED
      BY <1>1, <1>3, <3>1, <3>2
  <2>2. ASSUME NEW i \in Inum, Orphan(i)
        PROVE  \/ \E x \in Slot : inum'[x] = i
               \/ \E q \in Proc : t'[q].put = "free" /\ t'[q].inum = i
               \/ \E q \in Proc : t'[q].pc = "reclaim" /\ t'[q].inum <= i
               \/ \E q \in Proc : t'[q].pc = "reclaimed" /\ t'[q].inum < i
    <3>0. \A q \in Proc : t'[q].pc = t[q].pc /\ t'[q].inum = t[q].inum /\ (t[q].put = "free" => t'[q].put = "free")
      BY <1>2, <1>3, <1>4
    <3>1. \A y \in Slot : inum[y] = i => inum'[y] = i \/ i = t[p].inum
      BY <1>5, <1>6
    <3>2. \/ \E y \in Slot : inum[y] = i
          \/ \E q \in Proc : t[q].put = "free" /\ t[q].inum = i
          \/ \E q \in Proc : t[q].pc = "reclaim" /\ t[q].inum <= i
          \/ \E q \in Proc : t[q].pc = "reclaimed" /\ t[q].inum < i
      BY <1>2, <2>2 DEF OrphanInv
    <3> QED
      BY <1>4, <3>0, <3>1, <3>2
  <2> QED
    BY <1>6, <2>1, <2>2 DEF OrphanInv, Ip, Orphan
<1> QED
  BY <1>5, <1>9, <1>10 DEF IInv

(* An inode without links loses its blocks and its entries, or is freed.   *)
LEMMA GoneDisk ==
  ASSUME IInv, ThreadInv', NEW i \in Inum, inode[i].nlink = 0,
         inode' \in [Inum -> Inode], \A j \in Inum \ {i} : inode'[j] = inode[j],
         inode'[i].nlink = 0, inode'[i].dir = NoEntries, Owned(inode'[i]) = {},
         inode'[i].type = inode[i].type \/ (inode'[i].type = "free" /\ i \notin Dying),
         used' = used \ Owned(inode[i]), inum' = inum,
         \A q \in Proc : Counted(q)' = Counted(q) /\ (t'[q].pc = "unlinked" <=> t[q].pc = "unlinked")
  PROVE  [inode |-> inode', used |-> used'] \in Image /\ LinkInv' /\ EntryInv' /\ DirInv' /\ BlockInv'
<1>0. ThreadInv /\ TypeOK /\ LinkInv /\ EntryInv /\ DirInv /\ BlockInv
  BY DEF IInv
<1>1. [inode |-> inode', used |-> used'] \in Image
  <2>1. used' \in SUBSET Block
    BY <1>0, InodeTypes
  <2> QED
    BY <2>1 DEF Image
<1>2. \A q \in Proc : t[q].pc = "unlinked" => Counted(q) = t[q].ip /\ Counted(q)' = t'[q].ip
  BY DEF Counted
<1>3. Dying' = Dying
  <2>1. \A j \in Inum : (\E q \in Proc : t'[q].pc = "unlinked" /\ inum'[t'[q].ip] = j)
                        <=> (\E q \in Proc : t[q].pc = "unlinked" /\ inum[t[q].ip] = j)
    BY <1>2
  <2>2. \A j \in Inum \ {i} : j \in Dying' <=> j \in Dying
    BY <2>1 DEF Dying
  <2>3. i \in Dying' <=> i \in Dying
    BY <2>1 DEF Dying
  <2>4. Dying' \subseteq Inum /\ Dying \subseteq Inum
    BY DEF Dying
  <2> QED
    BY <2>2, <2>3, <2>4
<1>4. \A j \in Inum : Linked(inode, j)' <=> Linked(inode, j)
  BY DEF Linked
<1>5. i \notin Dirs(inode) /\ Dirs(inode)' = Dirs(inode)
  BY <1>4 DEF Dirs, Linked
<1>6. Live' = Live /\ i \notin Live /\ Live \subseteq Inum
  BY <1>3, <1>5 DEF Live, Dirs
<1>7. \A d \in Live : inode'[d] = inode[d]
  BY <1>6
<1>8. Linking' = Linking
  <2>1. ASSUME NEW k \in Links0
        PROVE  Linking'[k] = Linking[k]
    <3>1. CASE k[1] = "entry"
      BY <1>6, <1>7, <3>1 DEF Linking
    <3>2. CASE k[1] # "entry"
      <4>1. PICK q \in Proc : q = k[2]
        BY <3>2 DEF Links0
      <4>2. Linking[k] = IF Counted(q) = 0 THEN 0 ELSE inum[Counted(q)]
        BY <3>2, <4>1 DEF Linking
      <4>3. Linking'[k] = IF Counted(q)' = 0 THEN 0 ELSE inum'[Counted(q)']
        BY <3>2, <4>1 DEF Linking
      <4> QED
        BY <4>2, <4>3
    <3> QED
      BY <3>1, <3>2
  <2>2. Linking = [k \in Links0 |-> Linking[k]] /\ Linking' = [k \in Links0 |-> Linking'[k]]
    BY DEF Linking
  <2> QED
    BY <2>1, <2>2
<1>9. LinkInv'
  BY <1>0, <1>8 DEF LinkInv
<1>10. EntryInv'
  <2> SUFFICES ASSUME NEW d \in Live, NEW n \in Entry, inode[d].dir[n] # 0
               PROVE  Linked(inode, inode[d].dir[n])' /\ inode[d].dir[n] \notin Dying
    BY <1>3, <1>6, <1>7 DEF EntryInv, Linked
  <2>1. Linked(inode, inode[d].dir[n]) /\ inode[d].dir[n] \notin Dying /\ inode[d].dir[n] \in Inum
    BY <1>0, <1>6, InodeTypes DEF EntryInv
  <2>2. inode[d].dir[n] # i
    BY <2>1 DEF Linked
  <2>3. inode'[inode[d].dir[n]] = inode[inode[d].dir[n]]
    BY <2>1, <2>2
  <2> QED
    BY <1>7, <2>1, <2>3 DEF Linked
<1>11. DirInv'
  <2>1. ROOTINO \in Live /\ inode'[ROOTINO].dir[".."] = ROOTINO
    BY <1>0, <1>7 DEF DirInv
  <2>2. \A d \in Live : inode'[d].dir["."] = d
    BY <1>0, <1>7 DEF DirInv
  <2>3. \A d \in Live : \A n \in Name : inode'[d].dir[n] \in Dirs(inode)' =>
       inode'[d].dir[n] # ROOTINO /\ inode'[inode'[d].dir[n]].dir[".."] = d
    <3> SUFFICES ASSUME NEW d \in Live, NEW n \in Name, inode[d].dir[n] \in Dirs(inode)
                 PROVE  inode[d].dir[n] # ROOTINO /\ inode'[inode[d].dir[n]].dir[".."] = d
      BY <1>5, <1>7
    <3>1. inode'[inode[d].dir[n]] = inode[inode[d].dir[n]]
      BY <1>5 DEF Dirs
    <3> QED
      BY <1>0, <3>1 DEF DirInv
  <2>4. \A d \in Live \ {ROOTINO} : \E n \in Name :
       /\ inode'[d].dir[".."] \in Live
       /\ \A m \in Name : inode'[inode'[d].dir[".."]].dir[m] = d <=> m = n
    <3> TAKE d \in Live \ {ROOTINO}
    <3>1. PICK n \in Name : /\ inode[d].dir[".."] \in Live
                            /\ \A m \in Name : inode[inode[d].dir[".."]].dir[m] = d <=> m = n
      BY <1>0 DEF DirInv
    <3>2. inode'[d] = inode[d] /\ inode'[inode[d].dir[".."]] = inode[inode[d].dir[".."]]
      BY <1>7, <3>1
    <3> QED
      BY <3>1, <3>2
  <2>5. \A j \in Inum : inode'[j].type = "dir" /\ (inode'[j].nlink = 0 \/ j \in Dying) => IsDirEmpty(inode'[j])
    <3>1. ASSUME NEW j \in Inum, j # i, inode'[j].type = "dir" /\ (inode'[j].nlink = 0 \/ j \in Dying)
          PROVE  IsDirEmpty(inode'[j])
      <4>1. inode'[j] = inode[j]
        BY <3>1
      <4> QED
        BY <1>0, <3>1, <4>1 DEF DirInv
    <3>2. IsDirEmpty(inode'[i])
      BY DEF IsDirEmpty, Entries, NoEntries
    <3> QED
      BY <3>1, <3>2
  <2>6. \A j \in Inum : inode'[j].type # "dir" => Entries(inode'[j]) = {}
    <3>1. ASSUME NEW j \in Inum, j # i, inode'[j].type # "dir"
          PROVE  Entries(inode'[j]) = {}
      <4>1. inode'[j] = inode[j]
        BY <3>1
      <4> QED
        BY <1>0, <3>1, <4>1 DEF DirInv
    <3>2. Entries(inode'[i]) = {}
      BY DEF Entries, NoEntries
    <3> QED
      BY <3>1, <3>2
  <2> QED
    BY <1>3, <1>6, <2>1, <2>2, <2>3, <2>4, <2>5, <2>6 DEF DirInv, IsDirEmpty, Entries
<1>12. BlockInv'
  <2> DEFINE O == [j \in Inum |-> Owned(inode[j])]
             N == [j \in Inum |-> Owned(inode'[j])]
  <2>1. /\ used = UNION {O[j] : j \in Inum} /\ \A j, k \in Inum : j # k => O[j] \cap O[k] = {}
        /\ \A j \in Inum : inode[j].type = "free" => O[j] = {}
    BY <1>0 DEF BlockInv, BlocksRight
  <2>2. N[i] = {} /\ \A j \in Inum \ {i} : N[j] = O[j]
    OBVIOUS
  <2>3. used' = used \ O[i]
    OBVIOUS
  <2>4. \A j \in Inum : inode'[j].type = "free" => inode[j].type = "free" \/ j = i
    OBVIOUS
  <2>5. \A j \in Inum : N[j] = Owned(inode'[j])
    OBVIOUS
  <2> HIDE DEF O, N
  <2>6. used' = UNION {N[j] : j \in Inum}
    BY <2>1, <2>2, <2>3
  <2>7. \A j, k \in Inum : j # k => N[j] \cap N[k] = {}
    BY <2>1, <2>2
  <2>8. \A j \in Inum : inode'[j].type = "free" => N[j] = {}
    BY <2>1, <2>2, <2>4
  <2> QED
    BY <2>5, <2>6, <2>7, <2>8 DEF BlockInv, BlocksRight, Owned
<1> QED
  BY <1>1, <1>9, <1>10, <1>11, <1>12

(* itrunc() of the inode that is put for the last time. *)
LEMMA PutTruncStep ==
  ASSUME IInv, NEW p \in Proc, PutTrunc(p)
  PROVE  IInv'
<1>2. ThreadInv /\ TypeOK /\ RefInv /\ TableInv /\ PutInv /\ OrphanInv /\ HeldInv /\ t[p].put = "trunc" /\ t[p].puts # <<>>
  BY DEF IInv, PutTrunc, Putting
<1>1. PICK s \in Slot : s = PutSlot(p)
  BY <1>2, Putter
<1>0. /\ Trunc(inum[s]) /\ valid' = valid \ {s} /\ lock' = [lock EXCEPT ![s] = None] /\ Go(p, [put |-> "drop"])
      /\ UNCHANGED <<saved, ref, inum, user, active, crashes>> /\ lock[s] = p
  <2>1. LockOf(p)
    BY <1>2, Putter
  <2> QED
    BY <1>1, <1>2, <2>1 DEF PutTrunc, LockOf
<1>3. /\ Others(p) /\ \A q \in Proc \ {p} : t'[q] = t[q] /\ PutSlot(q)' = PutSlot(q)
  BY <1>0, <1>2, GoFields DEF Others, user, PutSlot
<1>4. /\ \A f \in {"pc", "call", "path", "cur", "ip", "name"} : t'[p][f] = t[p][f]
      /\ t'[p].pc = t[p].pc /\ t'[p].puts = t[p].puts /\ t'[p].put = "drop" /\ t'[p].inum = t[p].inum
      /\ t'[p].ip = t[p].ip /\ t'[p].cur = t[p].cur /\ PutSlot(p)' = s
  <2>1. \A f \in Fields : t'[p][f] = IF f = "put" THEN "drop" ELSE t[p][f]
    BY <1>0, <1>2, GoFields
  <2> QED
    BY <1>1, <2>1 DEF Fields, PutSlot
<1>5. PICK i \in Inum : i = inum[s] /\ i = t[p].inum /\ ref[s] = 1 /\ Gone(i)
  BY <1>1, <1>2 DEF PutInv
<1>6. /\ \A q \in Proc \ {p} : t[q].pc \notin {"reclaim", "reclaimed"}
      /\ ThreadType(t[p]) /\ ThreadShape(t[p]) /\ LockOf(p) /\ Knows(p) /\ HeldNow(p, FirstPut(p)) = s
      /\ \A q \in Proc, k \in Kinds : HeldNow(q, k) = s => q = p /\ k = FirstPut(p)
  BY <1>1, <1>2, <1>5, Putter
<1> DEFINE n == [inode[i] EXCEPT !.data = {}, !.ind = {}, !.dir = NoEntries]
<1>7. /\ n \in Inode /\ n.type = inode[i].type /\ n.nlink = inode[i].nlink /\ n.dir = NoEntries /\ Owned(n) = {}
  <2>1. inode[i] \in [type : {"free", "file", "dir", "device"}, nlink : 0..NLINK_MAX,
          data : SUBSET Block, ind : SUBSET Block, dir : [Entry -> 0..NINODES]]
    BY <1>2, <1>5, InodeTypes DEF Inode
  <2>2. NoEntries \in [Entry -> 0..NINODES]
    BY Numbers DEF NoEntries
  <2> QED
    BY <2>1, <2>2 DEF Inode, Owned
<1>8. inode' \in [Inum -> Inode] /\ inode'[i] = n /\ \A j \in Inum \ {i} : inode'[j] = inode[j]
  <2>1. inode \in [Inum -> Inode]
    BY <1>2, InodeTypes
  <2>2. inode' = [inode EXCEPT ![i].data = {}, ![i].ind = {}, ![i].dir = NoEntries]
    BY <1>0, <1>5 DEF Trunc
  <2>3. inode' = [inode EXCEPT ![i] = n]
    BY <2>2
  <2> HIDE DEF n
  <2> QED
    BY <1>5, <1>7, <2>1, <2>3
<1>9. used' = used \ Owned(inode[i])
  BY <1>0, <1>5 DEF Trunc
<1> HIDE DEF n
<1>10. \A j \in Inum : inode'[j].type = inode[j].type /\ inode'[j].nlink = inode[j].nlink
  BY <1>7, <1>8
<1>11. ThreadInv'
  <2>1. t'[p].put \in Phases /\ t'[p].inum \in 0..NINODES+1 /\ (t[p].pc = "reclaimed" => t'[p].inum \in Inum)
    BY <1>4, <1>6 DEF Phases, ThreadType, ThreadShape
  <2> QED
    BY <1>0, <1>2, <1>3, <1>4, <2>1, PutThreads
<1>12. LockInv' /\ lock' \in [Slot -> Proc \union {None}]
  <2>1. lock' \in [Slot -> Proc \union {None}] /\ lock'[s] = None /\ \A x \in Slot \ {s} : lock'[x] = lock[x]
    BY <1>0, <1>2 DEF TypeOK
  <2> QED
    BY <1>0, <1>1, <1>2, <1>3, <1>4, <2>1, Sizes, PutLocks
<1>13. /\ [inode |-> inode', used |-> used'] \in Image /\ LinkInv' /\ EntryInv' /\ DirInv' /\ BlockInv'
  <2>1. \A q \in Proc : Counted(q)' = Counted(q) /\ (t'[q].pc = "unlinked" <=> t[q].pc = "unlinked")
    BY <1>3, <1>4 DEF Counted
  <2>2. inode[i].nlink = 0
    BY <1>5 DEF Gone
  <2> QED
    BY <1>0, <1>5, <1>7, <1>8, <1>9, <1>11, <2>1, <2>2, GoneDisk
<1>14. TypeOK'
  <2>1. [inode |-> inode, used |-> used]' \in Image
    BY <1>13
  <2> QED
    BY <1>0, <1>2, <1>12, <2>1 DEF TypeOK, user
<1>15. SavedConsistent' /\ TableInv'
  BY <1>0 DEF IInv, SavedConsistent, TableInv
<1>16. RefInv'
  <2>1. FALSE \in BOOLEAN
    OBVIOUS
  <2>2. /\ \A k \in Kinds \ {FirstPut(p)} : HeldNext(p, k) = HeldNow(p, k)
        /\ HeldNext(p, FirstPut(p)) = IF FALSE \/ t'[p].put = "free" THEN 0 ELSE PutSlot(p)
    BY <1>0, <1>2, <1>4, <2>1, PutTokens
  <2>4. \A k \in Kinds : HeldNext(p, k) = HeldNow(p, Swap("cur", "cur")[k])
    BY <1>1, <1>4, <1>6, <2>2 DEF Swap
  <2>5. Swap("cur", "cur") \in [Kinds -> Kinds] /\ \A k \in Kinds : Swap("cur", "cur")[Swap("cur", "cur")[k]] = k
    BY Swapping DEF Kinds
  <2> QED
    BY <1>0, <1>2, <1>3, <2>4, <2>5, RefsMoved
<1>17. HeldInv'
  <2>1. \A q \in Proc \ {p}, k \in Kinds : HeldNow(q, k) \in Slot =>
          inum[HeldNow(q, k)] \in Inum /\ inum[HeldNow(q, k)] # i /\ HeldNow(q, k) # s
    <3> SUFFICES ASSUME NEW q \in Proc \ {p}, NEW k \in Kinds, HeldNow(q, k) \in Slot
                 PROVE  inum[HeldNow(q, k)] \in Inum /\ inum[HeldNow(q, k)] # i /\ HeldNow(q, k) # s
      OBVIOUS
    <3>1. inum[HeldNow(q, k)] \in Inum
      BY <1>2, HolderRef
    <3>2. /\ inum[HeldNow(q, k)] # t[p].inum
          /\ t[p].put \in {"trunc", "drop"} => HeldNow(q, k) # PutSlot(p)
      BY <1>2, PutAlone
    <3> QED
      BY <1>1, <1>2, <1>5, <3>1, <3>2
  <2>2. \A q \in Proc \ {p}, k \in Kinds : HeldNow(q, k) \in Slot =>
           /\ inum'[HeldNow(q, k)] = inum[HeldNow(q, k)]
           /\ HeldNow(q, k) \in valid => HeldNow(q, k) \in valid'
           /\ inode'[inum[HeldNow(q, k)]].type = inode[inum[HeldNow(q, k)]].type
    BY <1>0, <1>10, <2>1
  <2>3. \A q \in Proc \ {p} : t[q].pc = "unlink_child" =>
           inode'[inum[t[q].cur]].dir = inode[inum[t[q].cur]].dir
    <3> SUFFICES ASSUME NEW q \in Proc \ {p}, t[q].pc = "unlink_child"
                 PROVE  inode'[inum[t[q].cur]] = inode[inum[t[q].cur]]
      OBVIOUS
    <3>1. t[q].cur \in Slot /\ "cur" \in Kinds /\ HeldNow(q, "cur") = t[q].cur
      BY <1>2, CurHeld DEF WithCur, Finds
    <3> QED
      BY <1>8, <2>1, <3>1
  <2>4. \A q \in Proc \ {p} : Knows(q)'
    BY <1>2, <1>3, <2>2, <2>3, KnowsFrame
  <2>5. t[p].pc \notin {"create", "unlink", "unlink_child", "link_new"}
    BY <1>2, Putter DEF WithPuts
  <2>6. t[p].pc \in Second \/ (t[p].pc = "walk" /\ t[p].ip # 0) => t[p].ip # s /\ inum[t[p].ip] \in Inum
    BY <1>2, <1>6, IpHeld, HolderRef DEF FirstPut
  <2>7. Knows(p)'
    BY <1>0, <1>4, <1>6, <1>10, <2>5, <2>6 DEF Knows, Ip, Second
  <2>8. \A x \in Slot : ref'[x] > 0 => inode'[inum'[x]].type # "free"
    <3>1. \A x \in Slot : ref[x] > 0 => inum[x] \in Inum
      BY <1>2, Numbers DEF TableInv, TypeOK
    <3> QED
      BY <1>0, <1>2, <1>10, <3>1 DEF HeldInv, Ip
  <2> QED
    BY <2>4, <2>7, <2>8 DEF HeldInv, Ip
<1>18. \A q \in Proc \ {p} : t[q].put # "test" => t[q].inum \in Inum /\ t[q].inum # i
  BY <1>1, <1>2, <1>5, PutApart DEF PutInv
<1>19. PutInv'
  <2>1. PutOf(p)'
    <3>1. Gone(i)' /\ Owned(inode'[i]) = {} /\ inode'[i].dir = NoEntries
      BY <1>5, <1>7, <1>8, <1>10 DEF Gone
    <3>2. ref'[s] = 1 /\ inum'[s] = i
      BY <1>0, <1>5
    <3> QED
      BY <1>4, <1>5, <3>1, <3>2 DEF PutOf, Gone, Owned
  <2>2. \A q \in Proc \ {p} : t[q].put # "test" => inode'[t[q].inum] = inode[t[q].inum]
    BY <1>8, <1>18
  <2> QED
    BY <1>0, <1>2, <1>3, <1>4, <1>6, <2>1, <2>2, PutsFrame
<1>20. OrphanInv'
  <2>1. ASSUME NEW x \in Slot, ref'[x] > 0, inode'[inum'[x]].nlink = 0
        PROVE  x \in valid' \/ \E q \in Proc : t'[q].put = "drop" /\ PutSlot(q)' = x
    <3>1. CASE x = s
      BY <1>4, <3>1
    <3>2. CASE x # s
      <4>1. inum[x] \in Inum /\ inum'[x] = inum[x] /\ ref[x] > 0
        BY <1>0, <1>2, <2>1, Numbers DEF TableInv, TypeOK
      <4>2. inode[inum[x]].nlink = 0
        BY <1>10, <2>1, <4>1
      <4>3. x \in valid \/ \E q \in Proc : t[q].put = "drop" /\ PutSlot(q) = x
        BY <1>2, <4>1, <4>2 DEF OrphanInv, Ip
      <4> QED
        BY <1>0, <1>2, <1>3, <3>2, <4>3
    <3> QED
      BY <3>1, <3>2
  <2>2. \A q \in Proc : t'[q].pc = t[q].pc /\ t'[q].inum = t[q].inum /\ (t[q].put = "free" => t'[q].put = "free")
    BY <1>2, <1>3, <1>4
  <2>3. \A j \in Inum : Orphan(j)' <=> Orphan(j)
    BY <1>10 DEF Orphan
  <2>4. \A j \in Inum : Orphan(j)' =>
               \/ \E x \in Slot : inum'[x] = j
               \/ \E q \in Proc : t'[q].put = "free" /\ t'[q].inum = j
               \/ \E q \in Proc : t'[q].pc = "reclaim" /\ t'[q].inum <= j
               \/ \E q \in Proc : t'[q].pc = "reclaimed" /\ t'[q].inum < j
    BY <1>0, <1>2, <2>2, <2>3 DEF OrphanInv
  <2> QED
    BY <2>1, <2>4 DEF OrphanInv, Ip
<1> QED
  BY <1>11, <1>12, <1>13, <1>14, <1>15, <1>16, <1>17, <1>19, <1>20 DEF IInv

(* ifree() *)
LEMMA PutFreeStep ==
  ASSUME IInv, NEW p \in Proc, PutFree(p)
  PROVE  IInv'
<1>2. ThreadInv /\ TypeOK /\ RefInv /\ TableInv /\ PutInv /\ OrphanInv /\ HeldInv /\ t[p].put = "free" /\ t[p].puts # <<>>
  BY DEF IInv, PutFree, Putting
<1>1. PICK s \in Slot : s = PutSlot(p)
  BY <1>2, Putter
<1>5. PICK i \in Inum : i = t[p].inum /\ Gone(i) /\ Owned(inode[i]) = {} /\ \A x \in Slot : inum[x] # i
  BY <1>2 DEF PutInv
<1>0. /\ inode' = [inode EXCEPT ![i] = Free] /\ lock[s] # p /\ Go(p, [put |-> "test", puts |-> Tail(t[p].puts)])
      /\ UNCHANGED <<used, saved, ref, inum, valid, lock, user, active, crashes>>
  <2>1. LockOf(p)
    BY <1>2, Putter
  <2> QED
    BY <1>1, <1>2, <1>5, <2>1 DEF PutFree, LockOf
<1>3. /\ Others(p) /\ \A q \in Proc \ {p} : t'[q] = t[q] /\ PutSlot(q)' = PutSlot(q)
  BY <1>0, <1>2, GoFields DEF Others, user, PutSlot
<1>4. /\ \A f \in {"pc", "call", "path", "cur", "ip", "name"} : t'[p][f] = t[p][f]
      /\ t'[p].pc = t[p].pc /\ t'[p].puts = Tail(t[p].puts) /\ t'[p].put = "test" /\ t'[p].inum = t[p].inum
      /\ t'[p].ip = t[p].ip /\ t'[p].cur = t[p].cur
  <2>1. PICK w : w = Tail(t[p].puts)
    OBVIOUS
  <2>2. Go(p, [put |-> "test", puts |-> w])
    BY <1>0, <2>1
  <2>3. \A f \in Fields : t'[p][f] = IF f = "puts" THEN w ELSE IF f = "put" THEN "test" ELSE t[p][f]
    BY <1>2, <2>2, GoFields
  <2> QED
    BY <2>1, <2>3 DEF Fields
<1>6. /\ \A q \in Proc \ {p} : t[q].pc \notin {"reclaim", "reclaimed"}
      /\ ThreadType(t[p]) /\ ThreadShape(t[p]) /\ LockOf(p) /\ Knows(p)
  BY <1>2, Putter
<1>7. /\ Free \in Inode /\ Free.type = "free" /\ Free.nlink = 0 /\ Free.dir = NoEntries /\ Owned(Free) = {}
  BY Numbers, Sizes DEF Free, Inode, NoEntries, Owned
<1>8. inode' \in [Inum -> Inode] /\ inode'[i] = Free /\ \A j \in Inum \ {i} : inode'[j] = inode[j]
  <2>1. inode \in [Inum -> Inode]
    BY <1>2, InodeTypes
  <2> QED
    BY <1>0, <1>5, <1>7, <2>1
<1>11. ThreadInv'
  <2>1. t'[p].put \in Phases /\ t'[p].inum \in 0..NINODES+1 /\ (t[p].pc = "reclaimed" => t'[p].inum \in Inum)
    BY <1>4, <1>6 DEF Phases, ThreadType, ThreadShape
  <2> QED
    BY <1>0, <1>2, <1>3, <1>4, <2>1, PutThreads
<1>12. LockInv'
  BY <1>0, <1>1, <1>2, <1>3, <1>4, PutLocks
<1>9. \A q \in Proc : t[q].pc = "unlinked" => t[q].ip \in Slot
  BY <1>2, IpHeld DEF Second
<1>13. /\ [inode |-> inode', used |-> used'] \in Image /\ LinkInv' /\ EntryInv' /\ DirInv' /\ BlockInv'
  <2>1. \A q \in Proc : Counted(q)' = Counted(q) /\ (t'[q].pc = "unlinked" <=> t[q].pc = "unlinked")
    BY <1>3, <1>4 DEF Counted
  <2>2. inode[i].nlink = 0 /\ used' = used \ Owned(inode[i])
    BY <1>0, <1>5 DEF Gone
  <2>3. i \notin Dying
    BY <1>5, <1>9 DEF Dying
  <2> QED
    BY <1>0, <1>7, <1>8, <1>11, <2>1, <2>2, <2>3, GoneDisk
<1>14. TypeOK'
  <2>1. [inode |-> inode, used |-> used]' \in Image
    BY <1>13
  <2> QED
    BY <1>0, <1>2, <2>1 DEF TypeOK, user
<1>15. SavedConsistent' /\ TableInv'
  BY <1>0 DEF IInv, SavedConsistent, TableInv
<1>16. RefInv'
  <2>1. TRUE \in BOOLEAN
    OBVIOUS
  <2>2. /\ \A k \in Kinds \ {FirstPut(p)} : HeldNext(p, k) = HeldNow(p, k)
        /\ HeldNext(p, FirstPut(p)) = IF TRUE \/ t'[p].put = "free" THEN 0 ELSE PutSlot(p)
    BY <1>0, <1>2, <1>4, <2>1, PutTokens
  <2>3. HeldNow(p, FirstPut(p)) = 0
    BY <1>2, PutHeld
  <2>4. \A k \in Kinds : HeldNext(p, k) = HeldNow(p, Swap("cur", "cur")[k])
    BY <2>2, <2>3 DEF Swap
  <2>5. Swap("cur", "cur") \in [Kinds -> Kinds] /\ \A k \in Kinds : Swap("cur", "cur")[Swap("cur", "cur")[k]] = k
    BY Swapping DEF Kinds
  <2> QED
    BY <1>0, <1>2, <1>3, <2>4, <2>5, RefsMoved
<1>17. \A x \in Slot : ref[x] > 0 => inum[x] \in Inum /\ inode'[inum[x]] = inode[inum[x]]
  BY <1>2, <1>5, <1>8, Numbers DEF TableInv, TypeOK
<1>18. HeldInv'
  <2>1. \A q \in Proc, k \in Kinds : HeldNow(q, k) \in Slot => ref[HeldNow(q, k)] > 0
    BY <1>2, HolderRef
  <2>2. \A q \in Proc \ {p}, k \in Kinds : HeldNow(q, k) \in Slot =>
           /\ inum'[HeldNow(q, k)] = inum[HeldNow(q, k)]
           /\ HeldNow(q, k) \in valid => HeldNow(q, k) \in valid'
           /\ inode'[inum[HeldNow(q, k)]].type = inode[inum[HeldNow(q, k)]].type
    BY <1>0, <1>17, <2>1
  <2>3. \A q \in Proc \ {p} : t[q].pc = "unlink_child" =>
           inode'[inum[t[q].cur]].dir = inode[inum[t[q].cur]].dir
    <3> SUFFICES ASSUME NEW q \in Proc \ {p}, t[q].pc = "unlink_child"
                 PROVE  inode'[inum[t[q].cur]] = inode[inum[t[q].cur]]
      OBVIOUS
    <3>1. t[q].cur \in Slot /\ "cur" \in Kinds /\ HeldNow(q, "cur") = t[q].cur
      BY <1>2, CurHeld DEF WithCur, Finds
    <3> QED
      BY <1>17, <2>1, <3>1
  <2>4. \A q \in Proc \ {p} : Knows(q)'
    BY <1>2, <1>3, <2>2, <2>3, KnowsFrame
  <2>5. t[p].pc \notin {"create", "unlink", "unlink_child", "link_new"}
    BY <1>2, Putter DEF WithPuts
  <2>6. t[p].pc \in Second \/ (t[p].pc = "walk" /\ t[p].ip # 0) => inode'[inum[t[p].ip]] = inode[inum[t[p].ip]]
    BY <1>2, <1>17, <2>1, IpHeld
  <2>7. Knows(p)'
    BY <1>0, <1>4, <1>6, <2>5, <2>6 DEF Knows, Ip, Second
  <2>8. \A x \in Slot : ref'[x] > 0 => inode'[inum'[x]].type # "free"
    BY <1>0, <1>2, <1>17 DEF HeldInv, Ip
  <2> QED
    BY <2>4, <2>7, <2>8 DEF HeldInv, Ip
<1>19. \A q \in Proc \ {p} : t[q].put # "test" => t[q].inum \in Inum /\ t[q].inum # i
  <2> SUFFICES ASSUME NEW q \in Proc \ {p}, t[q].put # "test"
               PROVE  t[q].inum \in Inum /\ t[q].inum # i
    OBVIOUS
  <2>1. t[q].inum \in Inum
    BY <1>2 DEF PutInv
  <2>2. CASE t[q].put = "free"
    BY <1>2, <1>5, <2>1, <2>2 DEF PutInv
  <2>3. CASE t[q].put \in {"trunc", "drop"}
    <3>1. inum[PutSlot(q)] = t[q].inum
      BY <1>2, <2>3 DEF PutInv
    <3>2. PutSlot(q) \in Slot
      <4>1. t[q].puts # <<>>
        BY <1>2, <2>3 DEF ThreadInv, ThreadShape
      <4> QED
        BY <1>2, <4>1, PutsAre
    <3> QED
      BY <1>5, <2>1, <3>1, <3>2
  <2>4. t[q].put \in Phases
    BY <1>2 DEF ThreadInv, ThreadType
  <2> QED
    BY <2>2, <2>3, <2>4 DEF Phases
<1>20. PutInv'
  <2>1. PutOf(p)'
    <3>1. t[p].pc = "reclaimed" => Len(t[p].puts) # 2
      BY <1>6 DEF ThreadShape
    <3>2. t'[p].pc = "reclaimed" => t'[p].puts = <<>>
      BY <1>2, <1>4, <3>1, PutsAre
    <3> QED
      BY <1>4, <3>2 DEF PutOf
  <2>2. \A q \in Proc \ {p} : t[q].put # "test" => inode'[t[q].inum] = inode[t[q].inum]
    BY <1>8, <1>19
  <2> QED
    BY <1>0, <1>2, <1>3, <1>4, <1>6, <2>1, <2>2, PutsFrame
<1>21. OrphanInv'
  <2>1. ASSUME NEW x \in Slot, ref'[x] > 0, inode'[inum'[x]].nlink = 0
        PROVE  x \in valid' \/ \E q \in Proc : t'[q].put = "drop" /\ PutSlot(q)' = x
    <3>1. inum'[x] = inum[x] /\ ref[x] > 0 /\ inode[inum[x]].nlink = 0
      BY <1>0, <1>17, <2>1
    <3>2. x \in valid \/ \E q \in Proc : t[q].put = "drop" /\ PutSlot(q) = x
      BY <1>2, <3>1 DEF OrphanInv, Ip
    <3> QED
      BY <1>0, <1>2, <1>3, <3>2
  <2>2. \A q \in Proc : t'[q].pc = t[q].pc /\ t'[q].inum = t[q].inum /\ (q # p => t'[q].put = t[q].put)
    BY <1>2, <1>3, <1>4
  <2>3. \A j \in Inum : Orphan(j)' => Orphan(j) /\ j # i
    BY <1>7, <1>8 DEF Orphan
  <2>4. ASSUME NEW j \in Inum, Orphan(j)'
        PROVE  \/ \E x \in Slot : inum'[x] = j
               \/ \E q \in Proc : t'[q].put = "free" /\ t'[q].inum = j
               \/ \E q \in Proc : t'[q].pc = "reclaim" /\ t'[q].inum <= j
               \/ \E q \in Proc : t'[q].pc = "reclaimed" /\ t'[q].inum < j
    <3>1. \/ \E x \in Slot : inum[x] = j
          \/ \E q \in Proc : t[q].put = "free" /\ t[q].inum = j
          \/ \E q \in Proc : t[q].pc = "reclaim" /\ t[q].inum <= j
          \/ \E q \in Proc : t[q].pc = "reclaimed" /\ t[q].inum < j
      BY <1>2, <2>3, <2>4 DEF OrphanInv
    <3>2. \A q \in Proc : t[q].put = "free" /\ t[q].inum = j => q # p
      BY <1>5, <2>3, <2>4
    <3> QED
      BY <1>0, <2>2, <3>1, <3>2
  <2> QED
    BY <2>1, <2>4 DEF OrphanInv, Ip
<1> QED
  BY <1>11, <1>12, <1>13, <1>14, <1>15, <1>16, <1>18, <1>20, <1>21 DEF IInv

-----------------------------------------------------------------------------
(* The steps of a call that change the disk.                               *)

(* A step of a call in p that may write to the disk. *)
Busy(p) ==
  /\ Others(p) /\ saved' = saved /\ crashes' = crashes
  /\ t[p].pc \notin Boots /\ t'[p].pc \notin Boots
  /\ t[p].put = "test" /\ t'[p].put = "test"
  /\ ThreadType(t'[p]) /\ ThreadShape(t'[p])
  /\ cwd' \in [Proc -> 0..NINODE] /\ file' \in [Proc -> 0..NINODE] /\ cwd'[p] # 0
  /\ active \ {p} \subseteq active' /\ active' \subseteq Proc /\ (t'[p].pc = "idle" \/ p \in active')
  /\ ops' \in 0..MaxOps /\ valid \subseteq valid'
  /\ lock' \in [Slot -> Proc \union {None}]
  /\ \A s \in Slot : lock'[s] # lock[s] => lock[s] \in {None, p} /\ lock'[s] \in {None, p}
  /\ LockOf(p)' /\ Knows(p)'

(* The disk it leaves. *)
Written == /\ [inode |-> inode', used |-> used'] \in Image
           /\ LinkInv' /\ EntryInv' /\ DirInv' /\ BlockInv'

(* A step of a call, given what it does to the table and the disk. *)
LEMMA BusyFrame ==
  ASSUME IInv, NEW p \in Proc, Busy(p), Written, RefInv', TableInv',
         ref' \in [Slot -> Nat], inum' \in [Slot -> 0..NINODES], valid' \subseteq Slot,
         \A s \in Slot : ref[s] > 0 => inum'[s] = inum[s],
         \A s \in Slot : ref'[s] > 0 => inode'[inum'[s]].type # "free",
         \A s \in Slot : ref'[s] > 0 /\ inode'[inum'[s]].nlink = 0 =>
           s \in valid' \/ (ref[s] > 0 /\ inode[inum[s]].nlink = 0),
         \A i \in Inum : inode[i].type # "free" => inode'[i].type = inode[i].type,
         \A i \in Inum : inode'[i].type # "free" /\ inode'[i].nlink = 0 => Orphan(i) \/ \E s \in Slot : inum'[s] = i,
         \A s \in Slot : ref[s] > 0 /\ lock[s] \notin {None, p} => inode'[inum[s]].dir = inode[inum[s]].dir,
         \A q \in Proc \ {p} : t[q].put # "test" => inode'[t[q].inum] = inode[t[q].inum],
         \A q \in Proc \ {p} : t[q].put \in {"trunc", "drop"} =>
           ref'[PutSlot(q)] = ref[PutSlot(q)] /\ inum'[PutSlot(q)] = inum[PutSlot(q)],
         \A q \in Proc \ {p} : t[q].put = "free" =>
           \A s \in Slot : inum[s] # t[q].inum => inum'[s] # t[q].inum
  PROVE  IInv'
<1>0. /\ TypeOK /\ ThreadInv /\ RefInv /\ TableInv /\ LockInv /\ HeldInv /\ PutInv /\ OrphanInv /\ Others(p)
      /\ saved' = saved
  BY DEF IInv, Busy
<1>1. TypeOK'
  <2>1. [inode |-> inode, used |-> used]' \in Image /\ saved' \in Image
    BY <1>0 DEF TypeOK, Written
  <2>2. \A s, r \in Slot : ref'[s] > 0 /\ ref'[r] > 0 /\ inum'[s] = inum'[r] => s = r
    BY DEF TableInv
  <2>3. crashes' \in 0..MaxCrashes
    BY <1>0 DEF TypeOK, Busy
  <2> QED
    BY <2>1, <2>2, <2>3 DEF Busy, TypeOK
<1>2. SavedConsistent'
  BY <1>0 DEF IInv, SavedConsistent
<1>3. ThreadInv' /\ \A q \in Proc : t[q].pc \notin Boots /\ cwd[q] # 0
  BY <1>0, ThreadFrame DEF Busy
<1>4. LockInv'
  BY <1>0, LockFrame DEF Busy
<1>6. \A q \in Proc \ {p} : Knows(q)'
  <2>1. \A q \in Proc, k \in Kinds : HeldNow(q, k) \in Slot => ref[HeldNow(q, k)] > 0 /\ inum[HeldNow(q, k)] \in Inum
    BY <1>0, HolderRef
  <2>2. \A s \in Slot : ref[s] > 0 => inode[inum[s]].type # "free"
    BY <1>0 DEF HeldInv, Ip
  <2>3. \A q \in Proc \ {p}, k \in Kinds : HeldNow(q, k) \in Slot =>
           /\ inum'[HeldNow(q, k)] = inum[HeldNow(q, k)]
           /\ HeldNow(q, k) \in valid => HeldNow(q, k) \in valid'
           /\ inode'[inum[HeldNow(q, k)]].type = inode[inum[HeldNow(q, k)]].type
    BY <2>1, <2>2 DEF Busy
  <2>4. \A q \in Proc \ {p} : t[q].pc = "unlink_child" =>
           inode'[inum[t[q].cur]].dir = inode[inum[t[q].cur]].dir
    <3> SUFFICES ASSUME NEW q \in Proc \ {p}, t[q].pc = "unlink_child"
                 PROVE  inode'[inum[t[q].cur]].dir = inode[inum[t[q].cur]].dir
      OBVIOUS
    <3>1. t[q].cur \in Slot /\ HeldNow(q, "cur") = t[q].cur /\ "cur" \in Kinds
      BY <1>0, CurHeld DEF WithCur, Finds
    <3>2. lock[t[q].cur] = q /\ q # None
      BY <1>0, Sizes DEF LockInv, LockOf
    <3> QED
      BY <2>1, <3>1, <3>2
  <2> QED
    BY <1>0, <2>3, <2>4, KnowsFrame
<1>7. HeldInv'
  BY <1>6 DEF Busy, HeldInv, Ip
<1>8. PutInv'
  BY <1>0, <1>3, PutFrame DEF Busy
<1>9. OrphanInv'
  BY <1>0, OrphanFrame DEF Busy
<1> QED
  BY <1>1, <1>2, <1>3, <1>4, <1>7, <1>8, <1>9 DEF IInv, Written

(* The step writes to one inode, which p holds, and lets other inodes be. *)
Writes(p, s) ==
  /\ s \in Slot /\ \E k \in Kinds : HeldNow(p, k) = s
  /\ \A j \in Inum \ {inum[s]} : inode'[j] = inode[j]
  /\ inode'[inum[s]].type = inode[inum[s]].type
  /\ lock[s] \in {None, p} \/ inode'[inum[s]].dir = inode[inum[s]].dir
  /\ inode'[inum[s]].nlink # 0 \/ inode[inum[s]].nlink = 0 \/ s \in valid'

(* What that leaves of the other inodes. *)
LEMMA WritesOne ==
  ASSUME IInv, NEW p \in Proc, NEW x, Writes(p, x)
  PROVE  /\ ref[x] > 0 /\ inum[x] \in Inum
         /\ \A i \in Inum : inode'[i].type = inode[i].type
         /\ \A s \in Slot : ref[s] > 0 /\ lock[s] \notin {None, p} => inode'[inum[s]].dir = inode[inum[s]].dir
         /\ \A q \in Proc \ {p} : t[q].put # "test" => inode'[t[q].inum] = inode[t[q].inum] /\ t[q].inum \in Inum
         /\ \A s \in Slot : ref[s] > 0 /\ inode'[inum[s]].nlink = 0 => s \in valid' \/ inode[inum[s]].nlink = 0
         /\ \A i \in Inum : inode'[i].type # "free" /\ inode'[i].nlink = 0 => Orphan(i) \/ i = inum[x]
<1>0. TypeOK /\ ThreadInv /\ RefInv /\ TableInv /\ PutInv /\ HeldInv
  BY DEF IInv
<1>1. PICK k \in Kinds : HeldNow(p, k) = x
  BY DEF Writes
<1>2. x \in Slot /\ ref[x] > 0 /\ inum[x] \in Inum
  BY <1>0, <1>1, HolderRef DEF Writes
<1>3. \A i \in Inum : inode'[i].type = inode[i].type
  BY DEF Writes
<1>4. \A s \in Slot : ref[s] > 0 /\ s # x => inum[s] # inum[x] /\ inum[s] \in Inum
  BY <1>0, <1>2, Numbers DEF TableInv, TypeOK
<1>5. \A s \in Slot : ref[s] > 0 /\ lock[s] \notin {None, p} => inode'[inum[s]].dir = inode[inum[s]].dir
  BY <1>4 DEF Writes
<1>6. \A q \in Proc \ {p} : t[q].put # "test" => inode'[t[q].inum] = inode[t[q].inum] /\ t[q].inum \in Inum
  <2> SUFFICES ASSUME NEW q \in Proc \ {p}, t[q].put # "test"
               PROVE  inode'[t[q].inum] = inode[t[q].inum] /\ t[q].inum \in Inum
    OBVIOUS
  <2>1. t[q].inum \in Inum
    BY <1>0 DEF PutInv
  <2>2. inum[x] # t[q].inum
    BY <1>0, <1>1, <1>2, PutAlone
  <2> QED
    BY <2>1, <2>2 DEF Writes
<1>7. \A s \in Slot : ref[s] > 0 /\ inode'[inum[s]].nlink = 0 => s \in valid' \/ inode[inum[s]].nlink = 0
  BY <1>4 DEF Writes
<1>8. \A i \in Inum : inode'[i].type # "free" /\ inode'[i].nlink = 0 => Orphan(i) \/ i = inum[x]
  BY DEF Writes, Orphan
<1> QED
  BY <1>2, <1>3, <1>5, <1>6, <1>7, <1>8

(* The references of p change places, and the table stays. *)
LEMMA BusyMove ==
  ASSUME IInv, NEW p \in Proc, Busy(p), Written, NEW x, Writes(p, x), ref' = ref, inum' = inum,
         valid' \subseteq valid \union {s \in Slot : ref[s] > 0},
         NEW f \in [Kinds -> Kinds], \A k \in Kinds : f[f[k]] = k,
         \A k \in Kinds : HeldNext(p, k) = HeldNow(p, f[k])
  PROVE  IInv'
<1>1. RefInv'
  BY RefsMoved DEF IInv, Busy
<1>2. TableInv'
  BY DEF IInv, TableInv, TypeOK
<1>3. ref' \in [Slot -> Nat] /\ inum' \in [Slot -> 0..NINODES] /\ valid' \subseteq Slot
  BY DEF IInv, TypeOK
<1>4. \A s \in Slot : ref'[s] > 0 => inode'[inum'[s]].type # "free"
  <2>1. \A s \in Slot : ref[s] > 0 => inum[s] \in Inum /\ inode[inum[s]].type # "free"
    BY Numbers DEF IInv, TableInv, TypeOK, HeldInv, Ip
  <2> QED
    BY <2>1, WritesOne
<1>5. x \in Slot
  BY DEF Writes
<1>6. /\ \A i \in Inum : inode'[i].type = inode[i].type
      /\ \A s \in Slot : ref[s] > 0 /\ lock[s] \notin {None, p} => inode'[inum[s]].dir = inode[inum[s]].dir
      /\ \A q \in Proc \ {p} : t[q].put # "test" => inode'[t[q].inum] = inode[t[q].inum] /\ t[q].inum \in Inum
      /\ \A s \in Slot : ref[s] > 0 /\ inode'[inum[s]].nlink = 0 => s \in valid' \/ inode[inum[s]].nlink = 0
      /\ \A i \in Inum : inode'[i].type # "free" /\ inode'[i].nlink = 0 => Orphan(i) \/ i = inum[x]
  BY WritesOne
<1> QED
  BY <1>1, <1>2, <1>3, <1>4, <1>5, <1>6, BusyFrame

-----------------------------------------------------------------------------
(* Links: what is counted before and after a step.                         *)

(* The records that may be links are finitely many. *)
LEMMA LinksFinite == IsFiniteSet(Links0)
<1>1. IsFiniteSet(Entry \ {"."}) /\ IsFiniteSet(Inum) /\ IsFiniteSet(Proc)
  BY EntryNames, Numbers, Sizes, FS_Subset
<1>2. IsFiniteSet(Inum \X (Entry \ {"."}))
  BY <1>1, FS_Product
<1>3. IsFiniteSet({"entry"}) /\ IsFiniteSet({"call"})
  BY FS_Singleton
<1>4. IsFiniteSet({"entry"} \X (Inum \X (Entry \ {"."})))
  BY <1>2, <1>3, FS_Product
<1>5. IsFiniteSet({"call"} \X Proc)
  BY <1>1, <1>3, FS_Product
<1> QED
  BY <1>4, <1>5, FS_Union DEF Links0

(* The record of an entry, and that of a call. *)
Rec(d, n) == <<"entry", <<d, n>>>>
CallRec(p) == <<"call", p>>

(* What they are, now and next. *)
LEMMA LinkingIs ==
  /\ \A d \in Inum, n \in Entry \ {"."} :
       /\ Rec(d, n) \in Links0
       /\ Linking[Rec(d, n)] = IF d \in Live THEN inode[d].dir[n] ELSE 0
       /\ Linking'[Rec(d, n)] = IF d \in Live' THEN inode'[d].dir[n] ELSE 0
  /\ \A p \in Proc :
       /\ CallRec(p) \in Links0
       /\ Linking[CallRec(p)] = IF Counted(p) = 0 THEN 0 ELSE inum[Counted(p)]
       /\ Linking'[CallRec(p)] = IF Counted(p)' = 0 THEN 0 ELSE inum'[Counted(p)']
  /\ \A k \in Links0 : \/ \E d \in Inum, n \in Entry \ {"."} : k = Rec(d, n)
                       \/ \E p \in Proc : k = CallRec(p)
  /\ \A d, e \in Inum, n, m \in Entry \ {"."} : Rec(d, n) = Rec(e, m) => d = e /\ n = m
  /\ \A p, q \in Proc : CallRec(p) = CallRec(q) => p = q
  /\ \A d \in Inum, n \in Entry \ {"."}, p \in Proc : Rec(d, n) # CallRec(p)
<1>1. \A d \in Inum, n \in Entry \ {"."} : Rec(d, n) \in Links0
  BY DEF Rec, Links0
<1>2. \A p \in Proc : CallRec(p) \in Links0
  BY DEF CallRec, Links0
<1>3. \A d \in Inum, n \in Entry \ {"."} : Linking[Rec(d, n)] = IF d \in Live THEN inode[d].dir[n] ELSE 0
  BY <1>1 DEF Linking, Rec
<1>4. \A d \in Inum, n \in Entry \ {"."} : Linking'[Rec(d, n)] = IF d \in Live' THEN inode'[d].dir[n] ELSE 0
  BY <1>1 DEF Linking, Rec
<1>5. \A p \in Proc : Linking[CallRec(p)] = IF Counted(p) = 0 THEN 0 ELSE inum[Counted(p)]
  BY <1>2 DEF Linking, CallRec
<1>6. \A p \in Proc : Linking'[CallRec(p)] = IF Counted(p)' = 0 THEN 0 ELSE inum'[Counted(p)']
  <2> TAKE p \in Proc
  <2>1. CallRec(p) \in Links0 /\ CallRec(p)[1] # "entry" /\ CallRec(p)[2] = p
    BY <1>2 DEF CallRec
  <2> QED
    BY <2>1 DEF Linking
<1>7. \A k \in Links0 : \/ \E d \in Inum, n \in Entry \ {"."} : k = Rec(d, n)
                        \/ \E p \in Proc : k = CallRec(p)
  BY DEF Links0, Rec, CallRec
<1>8. \A d, e \in Inum, n, m \in Entry \ {"."} : Rec(d, n) = Rec(e, m) => d = e /\ n = m
  BY DEF Rec
<1>9. \A p, q \in Proc : CallRec(p) = CallRec(q) => p = q
  BY DEF CallRec
<1>10. \A d \in Inum, n \in Entry \ {"."}, p \in Proc : Rec(d, n) # CallRec(p)
  BY DEF Rec, CallRec
<1> QED
  BY <1>1, <1>2, <1>3, <1>4, <1>5, <1>6, <1>7, <1>8, <1>9, <1>10

(* The count of an inode's links, in the terms of the lemmas on counting. *)
LEMMA LinkInvIs ==
  /\ LinkInv => \A i \in Inum : inode[i].nlink = Count(Linking, Links0, i)
  /\ (\A i \in Inum : inode'[i].nlink = Count(Linking', Links0, i)) => LinkInv'
<1>1. LinkInv => \A i \in Inum : inode[i].nlink = Count(Linking, Links0, i)
  BY DEF LinkInv, Count
<1>2. (\A i \in Inum : inode'[i].nlink = Count(Linking', Links0, i)) => LinkInv'
  <2>1. \A i \in Inum : Count(Linking', Links0, i) = Cardinality({k \in Links0 : Linking'[k] = i})
    BY DEF Count
  <2> QED
    BY <2>1 DEF LinkInv
<1> QED
  BY <1>1, <1>2

(* An inode with a link in the records has a count, and one without has none. *)
LEMMA LinkedBy ==
  ASSUME LinkInv, NEW i \in Inum
  PROVE  (\E k \in Links0 : Linking[k] = i) <=> inode[i].nlink # 0
<1>1. inode[i].nlink = Cardinality({k \in Links0 : Linking[k] = i})
  BY DEF LinkInv
<1>2. IsFiniteSet({k \in Links0 : Linking[k] = i})
  BY LinksFinite, FS_Subset
<1> QED
  BY <1>1, <1>2, FS_EmptySet

(* Two tokens are given other numbers. *)
LEMMA TwoChange ==
  ASSUME NEW K, IsFiniteSet(K), NEW H, NEW G, NEW k \in K, NEW m \in K, k # m, NEW s,
         \A j \in K \ {k, m} : G[j] = H[j]
  PROVE  /\ Count(H, K, s) \in Nat /\ Count(G, K, s) \in Nat
         /\ Count(G, K, s) = After(After(Count(H, K, s), H[k], G[k], s), H[m], G[m], s)
<1> DEFINE M == [j \in K |-> IF j = m THEN H[j] ELSE G[j]]
<1>1. (\A j \in K \ {k} : M[j] = H[j]) /\ M[k] = G[k]
  OBVIOUS
<1>2. (\A j \in K \ {m} : G[j] = M[j]) /\ M[m] = H[m]
  OBVIOUS
<1> HIDE DEF M
<1>3. Count(H, K, s) \in Nat /\ Count(M, K, s) = After(Count(H, K, s), H[k], G[k], s)
  BY <1>1, OneChange
<1>4. Count(G, K, s) \in Nat /\ Count(G, K, s) = After(Count(M, K, s), H[m], G[m], s)
  BY <1>2, OneChange
<1> QED
  BY <1>3, <1>4

(* Three are. *)
LEMMA ThreeChange ==
  ASSUME NEW K, IsFiniteSet(K), NEW H, NEW G, NEW k \in K, NEW m \in K, NEW l \in K, k # m, l \notin {k, m}, NEW s,
         \A j \in K \ {k, m, l} : G[j] = H[j]
  PROVE  /\ Count(H, K, s) \in Nat /\ Count(G, K, s) \in Nat
         /\ Count(G, K, s) = After(After(After(Count(H, K, s), H[k], G[k], s), H[m], G[m], s), H[l], G[l], s)
<1> DEFINE M == [j \in K |-> IF j = k THEN G[j] ELSE H[j]]
           N == [j \in K |-> IF j = l THEN H[j] ELSE G[j]]
<1>1. (\A j \in K \ {k} : M[j] = H[j]) /\ M[k] = G[k] /\ M[m] = H[m] /\ M[l] = H[l]
  OBVIOUS
<1>2. \A j \in K \ {m} : N[j] = M[j]
  OBVIOUS
<1>7. N[m] = G[m] /\ N[l] = H[l]
  OBVIOUS
<1>3. \A j \in K \ {l} : G[j] = N[j]
  OBVIOUS
<1> HIDE DEF M, N
<1>4. Count(H, K, s) \in Nat /\ Count(M, K, s) = After(Count(H, K, s), H[k], G[k], s)
  BY <1>1, OneChange
<1>5. Count(N, K, s) \in Nat /\ Count(N, K, s) = After(Count(M, K, s), M[m], N[m], s)
  BY <1>2, OneChange
<1>6. Count(G, K, s) \in Nat /\ Count(G, K, s) = After(Count(N, K, s), N[l], G[l], s)
  BY <1>3, OneChange
<1> QED
  BY <1>1, <1>7, <1>4, <1>5, <1>6

(* The links counted, when entries, counts and types are the same. *)
LEMMA LinkingSame ==
  ASSUME ThreadInv,
         \A i \in Inum : inode'[i].type = inode[i].type /\ inode'[i].nlink = inode[i].nlink
                         /\ inode'[i].dir = inode[i].dir,
         \A q \in Proc : /\ Counted(q)' = Counted(q)
                         /\ t'[q].pc = "unlinked" <=> t[q].pc = "unlinked"
                         /\ Counted(q) # 0 => inum'[Counted(q)] = inum[Counted(q)]
  PROVE  Linking' = Linking /\ Dying' = Dying /\ Live' = Live /\ Dirs(inode)' = Dirs(inode)
<1>1. \A q \in Proc : t[q].pc = "unlinked" => Counted(q) = t[q].ip /\ Counted(q) # 0
  BY IpHeld, Numbers DEF Second, Counted
<1>2. \A q \in Proc : t'[q].pc = "unlinked" => Counted(q)' = t'[q].ip
  BY DEF Counted
<1>3. Dying' = Dying
  <2>1. \A i \in Inum : (\E q \in Proc : t'[q].pc = "unlinked" /\ inum'[t'[q].ip] = i)
                        <=> (\E q \in Proc : t[q].pc = "unlinked" /\ inum[t[q].ip] = i)
    BY <1>1, <1>2
  <2> QED
    BY <2>1 DEF Dying
<1>4. Dirs(inode)' = Dirs(inode)
  BY DEF Dirs, Linked
<1>5. Live' = Live /\ Live \subseteq Inum
  BY <1>3, <1>4 DEF Live, Dirs
<1>6. ASSUME NEW k \in Links0
      PROVE  Linking'[k] = Linking[k]
  <2>1. CASE \E d \in Inum, n \in Entry \ {"."} : k = Rec(d, n)
    BY <1>5, <2>1, LinkingIs
  <2>2. CASE \E p \in Proc : k = CallRec(p)
    BY <2>2, LinkingIs
  <2> QED
    BY <2>1, <2>2, LinkingIs
<1>7. Linking = [k \in Links0 |-> Linking[k]] /\ Linking' = [k \in Links0 |-> Linking'[k]]
  BY DEF Linking
<1> QED
  BY <1>3, <1>4, <1>5, <1>6, <1>7

(* The links are as right as they were. *)
LEMMA LinksKept ==
  ASSUME IInv,
         \A i \in Inum : inode'[i].type = inode[i].type /\ inode'[i].nlink = inode[i].nlink
                         /\ inode'[i].dir = inode[i].dir,
         \A q \in Proc : /\ Counted(q)' = Counted(q)
                         /\ t'[q].pc = "unlinked" <=> t[q].pc = "unlinked"
                         /\ Counted(q) # 0 => inum'[Counted(q)] = inum[Counted(q)]
  PROVE  LinkInv' /\ EntryInv' /\ DirInv'
<1>0. TypeOK /\ ThreadInv /\ LinkInv /\ EntryInv /\ DirInv
  BY DEF IInv
<1>1. Linking' = Linking /\ Dying' = Dying /\ Live' = Live /\ Dirs(inode)' = Dirs(inode)
  BY <1>0, LinkingSame
<1>2. Live \subseteq Inum /\ \A d \in Inum, n \in Entry : inode[d].dir[n] = 0 \/ inode[d].dir[n] \in Inum
  BY <1>0, InodeTypes DEF Live, Dirs
<1>3. LinkInv'
  BY <1>0, <1>1 DEF LinkInv
<1>4. EntryInv'
  BY <1>0, <1>1, <1>2 DEF EntryInv, Linked
<1>5. DirInv'
  <2>1. \A d \in Live : \A n \in Name : inode'[d].dir[n] \in Dirs(inode) =>
       inode'[d].dir[n] # ROOTINO /\ inode'[inode'[d].dir[n]].dir[".."] = d
    <3> SUFFICES ASSUME NEW d \in Live, NEW n \in Name, inode[d].dir[n] \in Dirs(inode)
                 PROVE  inode[d].dir[n] # ROOTINO /\ inode'[inode[d].dir[n]].dir[".."] = d
      BY <1>2
    <3>1. inode'[inode[d].dir[n]].dir = inode[inode[d].dir[n]].dir
      BY DEF Dirs
    <3> QED
      BY <1>0, <3>1 DEF DirInv
  <2>2. \A d \in Live \ {ROOTINO} : \E n \in Name :
       /\ inode'[d].dir[".."] \in Live
       /\ \A m \in Name : inode'[inode'[d].dir[".."]].dir[m] = d <=> m = n
    <3> TAKE d \in Live \ {ROOTINO}
    <3>1. PICK n \in Name : /\ inode[d].dir[".."] \in Live
                            /\ \A m \in Name : inode[inode[d].dir[".."]].dir[m] = d <=> m = n
      BY <1>0 DEF DirInv
    <3>2. inode'[d].dir = inode[d].dir /\ inode'[inode[d].dir[".."]].dir = inode[inode[d].dir[".."]].dir
      BY <1>2, <3>1
    <3> QED
      BY <3>1, <3>2
  <2>3. \A i \in Inum : inode'[i].type = "dir" /\ (inode'[i].nlink = 0 \/ i \in Dying) => IsDirEmpty(inode'[i])
    BY <1>0 DEF DirInv, IsDirEmpty, Entries
  <2>4. \A i \in Inum : inode'[i].type # "dir" => Entries(inode'[i]) = {}
    BY <1>0 DEF DirInv, Entries
  <2>5. ROOTINO \in Live /\ inode'[ROOTINO].dir[".."] = ROOTINO /\ \A d \in Live : inode'[d].dir["."] = d
    BY <1>0, <1>2 DEF DirInv
  <2> QED
    BY <1>1, <2>1, <2>2, <2>3, <2>4, <2>5 DEF DirInv, IsDirEmpty, Entries
<1> QED
  BY <1>3, <1>4, <1>5

-----------------------------------------------------------------------------
(* Blocks: what balloc(), bmap() and dirlink() return.                     *)

(* A block that balloc() returns was free. *)
LEMMA BallocFree ==
  ASSUME NEW u \in SUBSET Block
  PROVE  Balloc(u) \in SUBSET Block /\ Balloc(u) \cap u = {}
<1>1. CASE u = Block
  BY <1>1 DEF Balloc
<1>2. CASE u # Block
  <2>1. Block \ u # {} /\ Block \ u \subseteq Nat
    BY <1>2, Numbers
  <2>2. Min(Block \ u) \in Block \ u
    BY <2>1, MinIn
  <2> QED
    BY <1>2, <2>2 DEF Balloc
<1> QED
  BY <1>1, <1>2

(* The inode has got blocks that were free, and is otherwise the same. *)
Grown(ip, u, g) ==
  /\ g = [ip |-> g.ip, used |-> g.used, ok |-> g.ok]
  /\ g.ip \in Inode /\ g.used \in SUBSET Block /\ g.ok \in BOOLEAN
  /\ u \subseteq g.used /\ Owned(g.ip) = Owned(ip) \union (g.used \ u)
  /\ g.ip.type = ip.type /\ g.ip.nlink = ip.nlink

(* Blocks added to an inode, and an indirect block if need be. *)
LEMMA Added ==
  ASSUME NEW ip, NEW n \in Inode, NEW u \in SUBSET Block, NEW c \in SUBSET Block, NEW g, Owned(ip) \subseteq u,
         n.type = ip.type, n.nlink = ip.nlink, n.dir = ip.dir, n.data = ip.data \union c,
         n.ind \subseteq Block, n.ind \cap u \subseteq ip.ind, ip.ind \subseteq n.ind, c \cap u = {},
         g.ok \in BOOLEAN, g.ip = n, g.used = u \union n.ind \union c,
         g = [ip |-> g.ip, used |-> g.used, ok |-> g.ok]
  PROVE  Grown(ip, u, g) /\ g.ip.dir = ip.dir
<1>2. Owned(n) = Owned(ip) \union ((u \union n.ind \union c) \ u)
  <2>1. ip.ind \subseteq u /\ Owned(n) = ip.data \union c \union n.ind /\ Owned(ip) = ip.data \union ip.ind
    BY DEF Owned
  <2>2. (u \union n.ind \union c) \ u = (n.ind \ u) \union c
    OBVIOUS
  <2> QED
    BY <2>1, <2>2
<1>3. u \union n.ind \union c \in SUBSET Block
  OBVIOUS
<1> QED
  BY <1>2, <1>3 DEF Grown

(* The fields of an inode. *)
LEMMA InodeFields ==
  ASSUME NEW ip \in Inode
  PROVE  /\ ip.type \in {"free", "file", "dir", "device"} /\ ip.nlink \in 0..NLINK_MAX
         /\ ip.data \in SUBSET Block /\ ip.ind \in SUBSET Block /\ ip.dir \in [Entry -> 0..NINODES]
BY DEF Inode

(* bmap() *)
LEMMA GrowSound ==
  ASSUME NEW ip \in Inode, NEW u \in SUBSET Block, Owned(ip) \subseteq u
  PROVE  Grown(ip, u, Grow(ip, u)) /\ Grow(ip, u).ip.dir = ip.dir
<1>0. ip \in [type : {"free", "file", "dir", "device"}, nlink : 0..NLINK_MAX,
          data : SUBSET Block, ind : SUBSET Block, dir : [Entry -> 0..NINODES]]
  BY DEF Inode
<1> DEFINE b  == Balloc(u)
           ib == IF ip.ind # {} THEN ip.ind ELSE b
           c  == IF ib \subseteq u THEN b ELSE Balloc(u \union ib)
           same == [ip |-> ip, used |-> u, ok |-> FALSE]
<1>1. b \in SUBSET Block /\ b \cap u = {}
  BY BallocFree
<1>2. ib \in SUBSET Block /\ ip.ind \in SUBSET Block /\ ip.ind \subseteq u
  BY <1>1, InodeFields DEF Owned
<1>3. c \in SUBSET Block /\ c \cap u = {}
  <2>1. u \union ib \in SUBSET Block
    BY <1>2
  <2>2. Balloc(u \union ib) \in SUBSET Block /\ Balloc(u \union ib) \cap (u \union ib) = {}
    BY <2>1, BallocFree
  <2> QED
    BY <1>1, <2>2
<1>4. Grown(ip, u, same) /\ same.ip.dir = ip.dir
  BY DEF Grown
<1>5. CASE Cardinality(ip.data) < NDIRECT
  <2> DEFINE n == [ip EXCEPT !.ind = ip.ind, !.data = ip.data \union b]
  <2>1. /\ n \in Inode /\ n.type = ip.type /\ n.nlink = ip.nlink /\ n.dir = ip.dir
        /\ n.data = ip.data \union b /\ n.ind = ip.ind
    <3>1. PICK e \in SUBSET Block : e = ip.data \union b
      BY <1>1, InodeFields
    <3> HIDE DEF b
    <3>2. PICK m : m = [ip EXCEPT !.ind = ip.ind, !.data = e]
      OBVIOUS
    <3>3. /\ m \in Inode /\ m.type = ip.type /\ m.nlink = ip.nlink /\ m.dir = ip.dir
          /\ m.data = e /\ m.ind = ip.ind
      BY <1>0, <1>2, <3>1, <3>2 DEF Inode
    <3> QED
      BY <3>1, <3>2, <3>3
  <2>2. n = [ip EXCEPT !.data = @ \union b] /\ u \union n.ind \union b = u \union b
    BY <1>2, <2>1 DEF Inode
  <2>3. PICK g : g = Grow(ip, u)
    OBVIOUS
  <2>4. g = [ip |-> n, used |-> u \union n.ind \union b, ok |-> b # {}]
    BY <1>5, <2>2, <2>3 DEF Grow
  <2>5. (b # {}) \in BOOLEAN
    OBVIOUS
  <2> HIDE DEF n, b
  <2>6. g.ok = (b # {})
    BY <2>4
  <2>7. g.ok \in BOOLEAN /\ g.ip = n /\ g.used = u \union n.ind \union b /\ g = [ip |-> g.ip, used |-> g.used, ok |-> g.ok]
    BY <2>4, <2>5, <2>6
  <2>8. n.ind \subseteq Block /\ n.ind \cap u \subseteq ip.ind /\ ip.ind \subseteq n.ind
    BY <1>2, <2>1
  <2>9. Grown(ip, u, g) /\ g.ip.dir = ip.dir
    BY <1>1, <2>1, <2>7, <2>8, Added
  <2> QED
    BY <2>3, <2>9
<1>6. CASE ~(Cardinality(ip.data) < NDIRECT) /\ (Cardinality(ip.data) = NDIRECT + NINDIRECT \/ ib = {})
  <2>1. Grow(ip, u) = same
    BY <1>6 DEF Grow
  <2> QED
    BY <1>4, <2>1
<1>7. CASE ~(Cardinality(ip.data) < NDIRECT) /\ Cardinality(ip.data) # NDIRECT + NINDIRECT /\ ib # {}
  <2> DEFINE n == [ip EXCEPT !.ind = ib, !.data = ip.data \union c]
  <2>1. /\ n \in Inode /\ n.type = ip.type /\ n.nlink = ip.nlink /\ n.dir = ip.dir
        /\ n.data = ip.data \union c /\ n.ind = ib
    <3>1. PICK e \in SUBSET Block : e = ip.data \union c
      BY <1>3, InodeFields
    <3> HIDE DEF b, c, ib
    <3>2. PICK m : m = [ip EXCEPT !.ind = ib, !.data = e]
      OBVIOUS
    <3>3. /\ m \in Inode /\ m.type = ip.type /\ m.nlink = ip.nlink /\ m.dir = ip.dir
          /\ m.data = e /\ m.ind = ib
      BY <1>0, <1>2, <3>1, <3>2 DEF Inode
    <3> QED
      BY <3>1, <3>2, <3>3
  <2>2. n = [ip EXCEPT !.ind = ib, !.data = @ \union c]
    BY DEF Inode
  <2>3. PICK g : g = Grow(ip, u)
    OBVIOUS
  <2>4. g = [ip |-> n, used |-> u \union n.ind \union c, ok |-> c # {}]
    BY <1>7, <2>1, <2>2, <2>3 DEF Grow
  <2>5. (c # {}) \in BOOLEAN /\ ib \cap u \subseteq ip.ind /\ ip.ind \subseteq ib
    BY <1>1
  <2> HIDE DEF n, b, ib, c
  <2>6. g.ok = (c # {})
    BY <2>4
  <2>7. g.ok \in BOOLEAN /\ g.ip = n /\ g.used = u \union n.ind \union c /\ g = [ip |-> g.ip, used |-> g.used, ok |-> g.ok]
    BY <2>4, <2>5, <2>6
  <2>8. n.ind \subseteq Block /\ n.ind \cap u \subseteq ip.ind /\ ip.ind \subseteq n.ind
    BY <1>2, <2>1, <2>5
  <2>9. Grown(ip, u, g) /\ g.ip.dir = ip.dir
    BY <1>3, <2>1, <2>7, <2>8, Added
  <2> QED
    BY <2>3, <2>9
<1> QED
  BY <1>5, <1>6, <1>7

(* dirlink() *)
LEMMA DirLinkSound ==
  ASSUME NEW ip \in Inode, NEW u \in SUBSET Block, Owned(ip) \subseteq u, NEW n \in Entry, NEW i \in Inum,
         NEW g, g = DirLink(ip, u, n, i)
  PROVE  /\ Grown(ip, u, g)
         /\ g.ok => ip.dir[n] = 0 /\ g.ip.dir = [ip.dir EXCEPT ![n] = i]
         /\ ~g.ok => g.ip.dir = ip.dir
<1>0. ip \in [type : {"free", "file", "dir", "device"}, nlink : 0..NLINK_MAX,
          data : SUBSET Block, ind : SUBSET Block, dir : [Entry -> 0..NINODES]]
  BY DEF Inode
<1>1. ASSUME NEW ok \in BOOLEAN
      PROVE  Grown(ip, u, [ip |-> ip, used |-> u, ok |-> ok])
  BY DEF Grown
<1>2. CASE ip.dir[n] # 0
  <2>1. g = [ip |-> ip, used |-> u, ok |-> FALSE]
    BY <1>2 DEF DirLink
  <2>2. Grown(ip, u, g)
    BY <1>1, <2>1
  <2>3. g.ip = ip /\ ~g.ok
    BY <2>1
  <2> QED
    BY <2>2, <2>3
<1>3. CASE ip.dir[n] = 0
  <2>1. PICK h : h = IF Cardinality(Entries(ip)) < EPB * Cardinality(ip.data)
                     THEN [ip |-> ip, used |-> u, ok |-> TRUE] ELSE Grow(ip, u)
    OBVIOUS
  <2>2. Grown(ip, u, h) /\ h.ip.dir = ip.dir
    <3>1. CASE Cardinality(Entries(ip)) < EPB * Cardinality(ip.data)
      <4>1. h = [ip |-> ip, used |-> u, ok |-> TRUE]
        BY <2>1, <3>1
      <4> QED
        BY <1>1, <4>1
    <3>2. CASE ~(Cardinality(Entries(ip)) < EPB * Cardinality(ip.data))
      BY <2>1, <3>2, GrowSound
    <3> QED
      BY <3>1, <3>2
  <2>3. g = IF h.ok THEN [h EXCEPT !.ip.dir[n] = i] ELSE h
    BY <1>3, <2>1 DEF DirLink
  <2>4. CASE ~h.ok
    <3>1. g = h
      BY <2>3, <2>4
    <3> QED
      BY <2>2, <2>4, <3>1
  <2>5. CASE h.ok
    <3> DEFINE m == [h.ip EXCEPT !.dir = [h.ip.dir EXCEPT ![n] = i]]
    <3>1. h.ip \in [type : {"free", "file", "dir", "device"}, nlink : 0..NLINK_MAX,
            data : SUBSET Block, ind : SUBSET Block, dir : [Entry -> 0..NINODES]]
      BY <2>2 DEF Grown, Inode
    <3>2. m.type = h.ip.type /\ m.nlink = h.ip.nlink /\ m.data = h.ip.data /\ m.ind = h.ip.ind
          /\ m.dir = [h.ip.dir EXCEPT ![n] = i]
      BY <3>1
    <3>3. m \in Inode
      <4>1. [h.ip.dir EXCEPT ![n] = i] \in [Entry -> 0..NINODES]
        BY <3>1, Numbers
      <4> QED
        BY <3>1, <4>1 DEF Inode
    <3>4. Owned(m) = Owned(h.ip)
      BY <3>2 DEF Owned
    <3> HIDE DEF m
    <3>5. h = [ip |-> h.ip, used |-> h.used, ok |-> h.ok]
      BY <2>2 DEF Grown
    <3>6. g = [ip |-> m, used |-> h.used, ok |-> h.ok]
      BY <2>3, <2>5, <3>5 DEF m
    <3>7. g.ip = m /\ g.used = h.used /\ g.ok = h.ok
      BY <3>6
    <3> QED
      BY <1>3, <2>2, <2>5, <3>2, <3>3, <3>4, <3>6, <3>7 DEF Grown
  <2> QED
    BY <2>4, <2>5
<1> QED
  BY <1>2, <1>3

(* The blocks stay right when an inode gets free ones. *)
LEMMA BlocksAdded ==
  ASSUME NEW ino, NEW u, BlocksRight(ino, u), NEW i \in Inum, NEW new, NEW v,
         \A j \in Inum \ {i} : new[j] = ino[j],
         u \subseteq v, Owned(new[i]) = Owned(ino[i]) \union (v \ u), new[i].type # "free"
  PROVE  BlocksRight(new, v)
<1> DEFINE O == [j \in Inum |-> Owned(ino[j])]
           N == [j \in Inum |-> Owned(new[j])]
<1>1. /\ u = UNION {O[j] : j \in Inum} /\ \A j, k \in Inum : j # k => O[j] \cap O[k] = {}
      /\ \A j \in Inum : ino[j].type = "free" => O[j] = {}
  BY DEF BlocksRight
<1>2. N[i] = O[i] \union (v \ u) /\ \A j \in Inum \ {i} : N[j] = O[j] /\ new[j] = ino[j]
  OBVIOUS
<1>3. \A j \in Inum : N[j] = Owned(new[j])
  OBVIOUS
<1> HIDE DEF O, N
<1>4. v = UNION {N[j] : j \in Inum}
  BY <1>1, <1>2
<1>5. \A j, k \in Inum : j # k => N[j] \cap N[k] = {}
  BY <1>1, <1>2
<1>6. \A j \in Inum : new[j].type = "free" => N[j] = {}
  BY <1>1, <1>2
<1> QED
  BY <1>3, <1>4, <1>5, <1>6 DEF BlocksRight

(* And when one gives its blocks back. *)
LEMMA BlocksGiven ==
  ASSUME NEW ino, NEW u, BlocksRight(ino, u), NEW i \in Inum, NEW new,
         \A j \in Inum \ {i} : new[j] = ino[j], Owned(new[i]) = {}
  PROVE  BlocksRight(new, u \ Owned(ino[i]))
<1> DEFINE O == [j \in Inum |-> Owned(ino[j])]
           N == [j \in Inum |-> Owned(new[j])]
<1>1. /\ u = UNION {O[j] : j \in Inum} /\ \A j, k \in Inum : j # k => O[j] \cap O[k] = {}
      /\ \A j \in Inum : ino[j].type = "free" => O[j] = {}
  BY DEF BlocksRight
<1>2. N[i] = {} /\ O[i] = Owned(ino[i]) /\ \A j \in Inum \ {i} : N[j] = O[j] /\ new[j] = ino[j]
  OBVIOUS
<1>3. \A j \in Inum : N[j] = Owned(new[j])
  OBVIOUS
<1> HIDE DEF O, N
<1>4. u \ O[i] = UNION {N[j] : j \in Inum}
  BY <1>1, <1>2
<1>5. \A j, k \in Inum : j # k => N[j] \cap N[k] = {}
  BY <1>1, <1>2
<1>6. \A j \in Inum : new[j].type = "free" => N[j] = {}
  BY <1>1, <1>2
<1> QED
  BY <1>2, <1>3, <1>4, <1>5, <1>6 DEF BlocksRight

(* A step of a call that keeps its files and its directory. *)
LEMMA BusyCall ==
  ASSUME IInv, NEW p \in Proc, t[p].puts = <<>>, t[p].pc \in InCall, NEW r, Go(p, r),
         saved' = saved, crashes' = crashes, UNCHANGED <<user, active>>,
         t'[p].pc \in InCall \union {"end"}, t'[p].put = t[p].put, ThreadType(t'[p]), ThreadShape(t'[p]),
         valid \subseteq valid',
         lock' \in [Slot -> Proc \union {None}],
         \A s \in Slot : lock'[s] # lock[s] => lock[s] \in {None, p} /\ lock'[s] \in {None, p},
         LockOf(p)', Knows(p)'
  PROVE  /\ Busy(p)
         /\ HeldNext(p, "file") = HeldNow(p, "file")
         /\ t[p].pc # "moved" /\ t'[p].pc # "moved" => HeldNext(p, "cwd") = HeldNow(p, "cwd")
<1>1. Others(p)
  BY GoFields DEF IInv, Others, user
<1>2. t[p].pc \notin Boots /\ t[p].pc \notin {"idle", "down", "reclaim"} /\ t'[p].pc \notin Boots
  BY DEF InCall, Finds, Second, Boots
<1>3. t[p].put = "test" /\ cwd[p] # 0 /\ p \in active
  BY <1>2, Ready
<1>4. file' \in [Proc -> 0..NINODE] /\ cwd' \in [Proc -> 0..NINODE] /\ ops' \in 0..MaxOps /\ active' \subseteq Proc
  BY DEF IInv, TypeOK, user
<1>5. Busy(p)
  BY <1>1, <1>2, <1>3, <1>4 DEF Busy, user
<1> QED
  BY <1>5 DEF HeldNext, HeldNow, Holding, user

(* One inode is changed, in nothing but its blocks. *)
LEMMA BlocksWritten ==
  ASSUME IInv, NEW s \in Slot, ref[s] > 0, inum[s] \in Inum, NEW n \in Inode, NEW v \in SUBSET Block,
         inode' = [inode EXCEPT ![inum[s]] = n], used' = v, inum' = inum,
         n.type = Ip(s).type, n.nlink = Ip(s).nlink, n.dir = Ip(s).dir,
         \/ Owned(n) = {} /\ v = used \ Owned(Ip(s))
         \/ used \subseteq v /\ Owned(n) = Owned(Ip(s)) \union (v \ used),
         \A q \in Proc : Counted(q)' = Counted(q) /\ (t'[q].pc = "unlinked" <=> t[q].pc = "unlinked")
  PROVE  Written
<1>0. TypeOK /\ BlockInv /\ HeldInv
  BY DEF IInv
<1>1. PICK i \in Inum : i = inum[s]
  OBVIOUS
<1>2. inode \in [Inum -> Inode] /\ inode' = [inode EXCEPT ![i] = n]
  BY <1>0, <1>1, InodeTypes
<1>3. inode' \in [Inum -> Inode] /\ inode'[i] = n /\ \A j \in Inum \ {i} : inode'[j] = inode[j]
  BY <1>2
<1>4. \A j \in Inum : inode'[j].type = inode[j].type /\ inode'[j].nlink = inode[j].nlink
                      /\ inode'[j].dir = inode[j].dir
  BY <1>1, <1>3 DEF Ip
<1>5. LinkInv' /\ EntryInv' /\ DirInv'
  BY <1>4, LinksKept
<1>6. [inode |-> inode', used |-> used'] \in Image
  BY <1>3 DEF Image
<1>7. BlocksRight(inode', used')
  <2>1. BlocksRight(inode, used) /\ n.type # "free" /\ Ip(s) = inode[i]
    BY <1>0, <1>1 DEF BlockInv, HeldInv, Ip
  <2>4. PICK new : new = inode'
    OBVIOUS
  <2>5. i \in Inum /\ new[i] = n /\ \A j \in Inum \ {i} : new[j] = inode[j]
    BY <1>1, <1>3, <2>4
  <2>2. CASE Owned(n) = {} /\ v = used \ Owned(Ip(s))
    <3>1. Owned(new[i]) = {}
      BY <2>2, <2>5
    <3>2. BlocksRight(new, used \ Owned(inode[i]))
      BY <2>1, <2>5, <3>1, BlocksGiven
    <3> QED
      BY <2>1, <2>2, <2>4, <3>2
  <2>3. CASE used \subseteq v /\ Owned(n) = Owned(Ip(s)) \union (v \ used)
    <3>1. used \subseteq v /\ Owned(new[i]) = Owned(inode[i]) \union (v \ used) /\ new[i].type # "free"
      BY <2>1, <2>3, <2>5
    <3>2. BlocksRight(new, v)
      BY <2>1, <2>5, <3>1, BlocksAdded
    <3> QED
      BY <2>4, <3>2
  <2> QED
    BY <2>2, <2>3
<1>8. BlockInv'
  BY <1>7 DEF BlockInv, BlocksRight, Owned
<1> QED
  BY <1>5, <1>6, <1>8 DEF Written

(* open() with O_TRUNC gives up what the file had. *)
LEMMA OpenedTrunc ==
  ASSUME IInv, NEW p \in Proc, Opened(p), ~UNCHANGED disk
  PROVE  IInv'
<1> DEFINE s == t[p].ip
<1>0. /\ t[p].pc = "opened" /\ t[p].puts = <<>> /\ saved' = saved /\ crashes' = crashes /\ ref' = ref /\ inum' = inum
      /\ cwd' = cwd /\ ops' = ops /\ active' = active /\ valid' = valid
      /\ file[p] = 0 /\ file' = [file EXCEPT ![p] = s] /\ lock' = [lock EXCEPT ![s] = None]
      /\ Go(p, [pc |-> "end", puts |-> <<>>]) /\ Ip(s).type = "file" /\ Trunc(inum[s])
  BY DEF Opened, At, Quit
<1>1. /\ TypeOK /\ RefInv /\ TableInv /\ ThreadInv /\ ThreadType(t[p]) /\ ThreadShape(t[p])
      /\ t[p].put = "test" /\ HeldNow(p, "first") = 0 /\ HeldNow(p, "last") = 0 /\ LockOf(p)
      /\ cwd[p] # 0 /\ p \in active
      /\ file \in [Proc -> 0..NINODE] /\ cwd \in [Proc -> 0..NINODE] /\ ops \in 0..MaxOps /\ active \subseteq Proc
      /\ lock \in [Slot -> Proc \union {None}]
  BY <1>0, Ready DEF IInv, Boots
<1>2. s \in Slot /\ HeldNow(p, "ip") = s
  BY <1>0, <1>1, IpHeld DEF Second
<1>3. lock[s] = p /\ \A x \in Slot : lock[x] = p => x = s
  <2>1. MayLock(p) = {x \in {s} : t[p].pc \in Locking}
    BY <1>0, Ready
  <2> QED
    BY <1>0, <1>1, <2>1 DEF LockOf, Locking
<1> HIDE DEF s
<1>4. t' = [q \in Proc |-> t'[q]] /\ \A q \in Proc \ {p} : t'[q] = t[q]
  BY <1>0, <1>1, GoFields
<1>5. /\ t'[p].pc = "end" /\ t'[p].puts = <<>> /\ t'[p].call = t[p].call /\ t'[p].path = t[p].path
      /\ t'[p].cur = t[p].cur /\ t'[p].ip = t[p].ip /\ t'[p].name = t[p].name /\ t'[p].put = t[p].put
      /\ t'[p].inum = t[p].inum
  <2>1. Go(p, [pc |-> "end", puts |-> <<>>]) /\ ThreadInv
    BY <1>0, <1>1
  <2>2. \A f \in Fields : t'[p][f] = IF f \in {"pc", "puts"} THEN [pc |-> "end", puts |-> <<>>][f] ELSE t[p][f]
    BY <2>1, GoFields
  <2> QED
    BY <2>2 DEF Fields
<1>6. <<>> \in Seq(Slot) /\ Len(<<>>) <= 2 /\ Len(<<>>) # 2
  OBVIOUS
<1>7. ThreadType(t'[p])
  BY <1>1, <1>5, <1>6 DEF ThreadType, Pcs
<1>8. ThreadShape(t'[p])
  BY <1>1, <1>5, <1>6 DEF ThreadShape, InCall, Finds, Second, WithCur, WithPuts
<1>9. \A x \in Slot : lock'[x] # p /\ (lock'[x] # lock[x] => lock[x] \in {None, p} /\ lock'[x] \in {None, p})
  BY <1>0, <1>1, <1>2, <1>3, Sizes
<1>10. LockOf(p)'
  BY <1>1, <1>5, <1>9, NoLocksNext
<1>11. Counted(p)' = Counted(p) /\ Knows(p)'
  BY <1>0, <1>5 DEF Counted, Knows
<1>12. Busy(p)
  <2>1. file' \in [Proc -> 0..NINODE] /\ \A q \in Proc \ {p} : file'[q] = file[q]
    BY <1>0, <1>1, <1>2, Numbers
  <2>2. Others(p)
    BY <1>0, <1>4, <2>1 DEF Others
  <2>3. t[p].pc \notin Boots /\ t'[p].pc \notin Boots
    BY <1>0, <1>5 DEF Boots
  <2>4. lock' \in [Slot -> Proc \union {None}]
    BY <1>0, <1>1
  <2> QED
    BY <1>0, <1>1, <1>5, <1>7, <1>8, <1>9, <1>10, <1>11, <2>1, <2>2, <2>3, <2>4 DEF Busy
<1>13. \A k \in Kinds : HeldNext(p, k) = HeldNow(p, Swap("ip", "file")[k])
  <2>1. HeldNext(p, "last") = 0 /\ HeldNext(p, "first") = 0
    BY <1>5, NoPuts DEF HeldNext
  <2>2. HeldNext(p, "cur") = 0 /\ HeldNext(p, "ip") = 0
    BY <1>5 DEF HeldNext, Holding, WithCur, Finds, WithIp, Second
  <2>3. HeldNow(p, "cur") = 0 /\ HeldNow(p, "file") = 0
    BY <1>0 DEF HeldNow, Holding, WithCur, Finds
  <2>4. HeldNext(p, "cwd") = HeldNow(p, "cwd") /\ HeldNext(p, "file") = s
    BY <1>0, <1>1, <1>5 DEF HeldNext, HeldNow, Holding
  <2> QED
    BY <1>1, <1>2, <2>1, <2>2, <2>3, <2>4 DEF Swap, Kinds
<1>14. Swap("ip", "file") \in [Kinds -> Kinds] /\ \A k \in Kinds : Swap("ip", "file")[Swap("ip", "file")[k]] = k
  BY Swapping DEF Kinds
<1>15. ref[s] > 0 /\ inum[s] \in Inum /\ "ip" \in Kinds
  BY <1>1, <1>2, HolderRef DEF Kinds
<1> DEFINE n == [Ip(s) EXCEPT !.data = {}, !.ind = {}, !.dir = NoEntries]
<1>16. n \in Inode /\ n.type = Ip(s).type /\ n.nlink = Ip(s).nlink /\ n.dir = Ip(s).dir /\ Owned(n) = {}
  <2>1. Ip(s) \in [type : {"free", "file", "dir", "device"}, nlink : 0..NLINK_MAX,
          data : SUBSET Block, ind : SUBSET Block, dir : [Entry -> 0..NINODES]]
    BY <1>1, <1>15, InodeTypes DEF Inode, Ip
  <2>2. NoEntries \in [Entry -> 0..NINODES]
    BY Numbers DEF NoEntries
  <2>3. Entries(Ip(s)) = {}
    BY <1>0, <1>15 DEF IInv, DirInv, Ip
  <2>4. Ip(s).dir = NoEntries
    BY <2>1, <2>3 DEF Entries, NoEntries
  <2>5. n.type = Ip(s).type /\ n.nlink = Ip(s).nlink /\ n.dir = NoEntries /\ n.data = {} /\ n.ind = {}
    BY <2>1
  <2>6. n \in Inode
    BY <2>1, <2>2 DEF Inode
  <2> QED
    BY <2>4, <2>5, <2>6 DEF Owned
<1>17. inode' = [inode EXCEPT ![inum[s]] = n] /\ used' = used \ Owned(Ip(s)) /\ inode \in [Inum -> Inode]
  BY <1>0, <1>1, InodeTypes DEF Trunc, Ip
<1> HIDE DEF n
<1>18. \A q \in Proc : Counted(q)' = Counted(q) /\ (t'[q].pc = "unlinked" <=> t[q].pc = "unlinked")
  <2>1. t'[p].pc # "unlinked" /\ t[p].pc # "unlinked"
    BY <1>0, <1>5
  <2> QED
    BY <1>4, <1>11, <2>1 DEF Counted
<1>19. Written
  <2>1. used \ Owned(Ip(s)) \in SUBSET Block
    BY <1>1, InodeTypes
  <2> QED
    BY <1>0, <1>2, <1>15, <1>16, <1>17, <1>18, <2>1, BlocksWritten
<1>20. Writes(p, s)
  <2>1. \A j \in Inum \ {inum[s]} : inode'[j] = inode[j]
    BY <1>17
  <2>2. inode'[inum[s]] = n /\ Ip(s) = inode[inum[s]]
    BY <1>15, <1>17 DEF Ip
  <2> QED
    BY <1>2, <1>15, <1>16, <2>1, <2>2 DEF Writes
<1>21. valid' \subseteq valid \union {x \in Slot : ref[x] > 0}
  BY <1>0
<1> QED
  BY <1>0, <1>12, <1>13, <1>14, <1>19, <1>20, <1>21, BusyMove

(* open(), after the inode has been found. *)
LEMMA OpenedStep ==
  ASSUME IInv, NEW p \in Proc, Opened(p)
  PROVE  IInv'
BY OpenedKept, OpenedTrunc

(* write() *)
LEMMA WriteStep ==
  ASSUME IInv, NEW p \in Proc, Write(p)
  PROVE  IInv'
<1> DEFINE s == file[p]
<1>0. /\ t[p].pc = "idle" /\ t[p].puts = <<>> /\ s # 0 /\ Ip(s).type = "file" /\ ops < MaxOps /\ Unlocked(s)
      /\ ops' = ops + 1 /\ active' = active \union {p}
      /\ inode' = [inode EXCEPT ![inum[s]] = Grow(Ip(s), used).ip] /\ used' = Grow(Ip(s), used).used
      /\ valid' = valid \union {s} /\ Go(p, [pc |-> "end", puts |-> <<>>])
      /\ saved' = saved /\ ref' = ref /\ inum' = inum /\ lock' = lock /\ file' = file /\ cwd' = cwd /\ crashes' = crashes
  BY DEF Write, At, Quit, ReadIn
<1>1. /\ TypeOK /\ RefInv /\ TableInv /\ ThreadInv /\ ThreadType(t[p]) /\ ThreadShape(t[p])
      /\ t[p].put = "test" /\ HeldNow(p, "first") = 0 /\ HeldNow(p, "last") = 0 /\ LockOf(p)
      /\ cwd[p] # 0
      /\ file \in [Proc -> 0..NINODE] /\ cwd \in [Proc -> 0..NINODE] /\ ops \in 0..MaxOps /\ active \subseteq Proc
      /\ lock \in [Slot -> Proc \union {None}]
  BY <1>0, Ready DEF IInv, Boots
<1>2. s \in Slot /\ HeldNow(p, "file") = s /\ "file" \in Kinds
  BY <1>0, <1>1, UserHeld
<1>3. ref[s] > 0 /\ inum[s] \in Inum
  BY <1>1, <1>2, HolderRef
<1> HIDE DEF s
<1>4. t' = [q \in Proc |-> t'[q]] /\ \A q \in Proc \ {p} : t'[q] = t[q]
  BY <1>0, <1>1, GoFields
<1>5. /\ t'[p].pc = "end" /\ t'[p].puts = <<>> /\ t'[p].call = t[p].call /\ t'[p].path = t[p].path
      /\ t'[p].cur = t[p].cur /\ t'[p].ip = t[p].ip /\ t'[p].name = t[p].name /\ t'[p].put = t[p].put
      /\ t'[p].inum = t[p].inum
  <2>1. Go(p, [pc |-> "end", puts |-> <<>>]) /\ ThreadInv
    BY <1>0, <1>1
  <2>2. \A f \in Fields : t'[p][f] = IF f \in {"pc", "puts"} THEN [pc |-> "end", puts |-> <<>>][f] ELSE t[p][f]
    BY <2>1, GoFields
  <2> QED
    BY <2>2 DEF Fields
<1>6. <<>> \in Seq(Slot) /\ Len(<<>>) <= 2 /\ Len(<<>>) # 2
  OBVIOUS
<1>7. ThreadType(t'[p])
  BY <1>1, <1>5, <1>6 DEF ThreadType, Pcs
<1>8. ThreadShape(t'[p])
  BY <1>1, <1>5, <1>6 DEF ThreadShape, InCall, Finds, Second, WithCur, WithPuts
<1>9. \A x \in Slot : lock'[x] # p
  BY <1>0, NoLocks
<1>10. LockOf(p)'
  BY <1>1, <1>5, <1>9, NoLocksNext
<1>11. Counted(p)' = Counted(p) /\ Knows(p)'
  BY <1>0, <1>5 DEF Counted, Knows
<1>12. Busy(p)
  <2>1. Others(p)
    BY <1>0, <1>4 DEF Others
  <2>2. t[p].pc \notin Boots /\ t'[p].pc \notin Boots
    BY <1>0, <1>5 DEF Boots
  <2>3. ops' \in 0..MaxOps
    BY <1>0, <1>1, Sizes
  <2> QED
    BY <1>0, <1>1, <1>5, <1>7, <1>8, <1>10, <1>11, <2>1, <2>2, <2>3 DEF Busy
<1>13. \A k \in Kinds : HeldNext(p, k) = HeldNow(p, Swap("ip", "ip")[k])
  <2>1. HeldNext(p, "last") = 0 /\ HeldNext(p, "first") = 0
    BY <1>5, NoPuts DEF HeldNext
  <2>2. HeldNext(p, "cur") = 0 /\ HeldNext(p, "ip") = 0
    BY <1>5 DEF HeldNext, Holding, WithCur, Finds, WithIp, Second
  <2>3. HeldNow(p, "cur") = 0 /\ HeldNow(p, "ip") = 0
    BY <1>0 DEF HeldNow, Holding, WithCur, Finds, WithIp, Second
  <2>4. HeldNext(p, "cwd") = HeldNow(p, "cwd") /\ HeldNext(p, "file") = HeldNow(p, "file")
    BY <1>0, <1>1, <1>5 DEF HeldNext, HeldNow, Holding
  <2> QED
    BY <1>1, <2>1, <2>2, <2>3, <2>4 DEF Swap, Kinds
<1>14. Swap("ip", "ip") \in [Kinds -> Kinds] /\ \A k \in Kinds : Swap("ip", "ip")[Swap("ip", "ip")[k]] = k
  BY Swapping DEF Kinds
<1>15. PICK g : g = Grow(Ip(s), used)
  OBVIOUS
<1>16. Grown(Ip(s), used, g) /\ g.ip.dir = Ip(s).dir
  <2>1. Ip(s) \in Inode /\ used \in SUBSET Block
    BY <1>1, <1>3, InodeTypes DEF Ip
  <2>2. Owned(Ip(s)) \subseteq used
    BY <1>3 DEF IInv, BlockInv, BlocksRight, Ip
  <2> QED
    BY <1>15, <2>1, <2>2, GrowSound
<1>17. inode' = [inode EXCEPT ![inum[s]] = g.ip] /\ used' = g.used /\ inode \in [Inum -> Inode]
  BY <1>0, <1>1, <1>15, InodeTypes DEF s
<1>18. \A q \in Proc : Counted(q)' = Counted(q) /\ (t'[q].pc = "unlinked" <=> t[q].pc = "unlinked")
  <2>1. t'[p].pc # "unlinked" /\ t[p].pc # "unlinked"
    BY <1>0, <1>5
  <2> QED
    BY <1>4, <1>11, <2>1 DEF Counted
<1>19. Written
  BY <1>0, <1>2, <1>3, <1>16, <1>17, <1>18, BlocksWritten DEF Grown
<1>20. Writes(p, s)
  <2>1. \A j \in Inum \ {inum[s]} : inode'[j] = inode[j]
    BY <1>17
  <2>2. inode'[inum[s]] = g.ip /\ Ip(s) = inode[inum[s]]
    BY <1>3, <1>17 DEF Ip
  <2> QED
    BY <1>2, <1>16, <2>1, <2>2 DEF Writes, Grown
<1>21. valid' \subseteq valid \union {x \in Slot : ref[x] > 0}
  BY <1>0, <1>2, <1>3 DEF s
<1> QED
  BY <1>0, <1>12, <1>13, <1>14, <1>19, <1>20, <1>21, BusyMove

-----------------------------------------------------------------------------
(* Counts of links that change with a call.                                *)

(* And p gets an inode. *)
LEMMA BusyGet ==
  ASSUME IInv, NEW p \in Proc, Busy(p), Written, NEW x, Writes(p, x), NEW i, Alive(p, i), Iget(i),
         valid' \subseteq valid \union {SlotOf(i)} \union {s \in Slot : ref[s] > 0},
         NEW f \in [Kinds -> Kinds], \A k \in Kinds : f[f[k]] = k, NEW j \in Kinds,
         \A k \in Kinds \ {j} : HeldNext(p, k) = HeldNow(p, f[k]),
         HeldNow(p, f[j]) = 0, HeldNext(p, j) = SlotOf(i)
  PROVE  IInv'
<1>0. i \in Inum /\ TypeOK /\ TableInv /\ RefInv /\ ThreadInv /\ PutInv /\ HeldInv
  BY DEF Alive, IInv
<1>1. /\ TableInv' /\ ref' \in [Slot -> Nat] /\ inum' \in [Slot -> 0..NINODES]
      /\ SlotOf(i) \in Slot /\ ref'[SlotOf(i)] > 0 /\ inum'[SlotOf(i)] = i
      /\ \A s \in Slot : ref[s] > 0 => ref'[s] > 0 /\ inum'[s] = inum[s]
      /\ \A s \in Slot : s # SlotOf(i) => ref'[s] = ref[s] /\ inum'[s] = inum[s]
      /\ ref' = [ref EXCEPT ![SlotOf(i)] = @ + 1]
  BY <1>0, IgetTable
<1>2. RefInv'
  <2>1. PICK y \in Slot : y = SlotOf(i)
    BY <1>1
  <2>2. ref' = [ref EXCEPT ![y] = @ + 1] /\ HeldNext(p, j) = y /\ Others(p)
    BY <1>1, <2>1 DEF Busy
  <2> QED
    BY <1>0, <2>2, RefsGained
<1>3. valid' \subseteq Slot
  BY <1>0, <1>1 DEF TypeOK
<1>4. \A q \in Proc \ {p} : t[q].put # "test" => i # t[q].inum
  BY <1>0, AliveAlone
<1>5. \A q \in Proc \ {p} : t[q].put \in {"trunc", "drop"} =>
        ref'[PutSlot(q)] = ref[PutSlot(q)] /\ inum'[PutSlot(q)] = inum[PutSlot(q)]
  <2> SUFFICES ASSUME NEW q \in Proc \ {p}, t[q].put \in {"trunc", "drop"}
               PROVE  PutSlot(q) # SlotOf(i) /\ PutSlot(q) \in Slot
    BY <1>1
  <2>1. ref[PutSlot(q)] = 1 /\ inum[PutSlot(q)] = t[q].inum
    BY <1>0 DEF PutInv
  <2>2. PutSlot(q) \in Slot
    BY <1>0, PutsAre DEF ThreadInv, ThreadShape
  <2>3. inum'[PutSlot(q)] = t[q].inum
    BY <1>1, <2>1, <2>2
  <2> QED
    BY <1>1, <1>4, <2>2, <2>3
<1>6. \A q \in Proc \ {p} : t[q].put = "free" =>
        \A s \in Slot : inum[s] # t[q].inum => inum'[s] # t[q].inum
  BY <1>1, <1>4
<1>7. /\ ref[x] > 0 /\ inum[x] \in Inum /\ x \in Slot
      /\ \A k \in Inum : inode'[k].type = inode[k].type
      /\ \A s \in Slot : ref[s] > 0 /\ lock[s] \notin {None, p} => inode'[inum[s]].dir = inode[inum[s]].dir
      /\ \A q \in Proc \ {p} : t[q].put # "test" => inode'[t[q].inum] = inode[t[q].inum] /\ t[q].inum \in Inum
      /\ \A s \in Slot : ref[s] > 0 /\ inode'[inum[s]].nlink = 0 => s \in valid' \/ inode[inum[s]].nlink = 0
      /\ \A k \in Inum : inode'[k].type # "free" /\ inode'[k].nlink = 0 => Orphan(k) \/ k = inum[x]
  BY WritesOne DEF Writes
<1>8. \A s \in Slot : ref[s] > 0 => inum[s] \in Inum /\ inode[inum[s]].type # "free"
  BY <1>0, Numbers DEF TableInv, TypeOK, HeldInv, Ip
<1>9. ASSUME NEW s \in Slot, ref'[s] > 0, ~(ref[s] > 0)
      PROVE  inode'[inum'[s]].type # "free" /\ inode'[inum'[s]].nlink # 0
  <2>1. s = SlotOf(i) /\ inum'[s] = i
    BY <1>1, <1>9
  <2>2. ~ \E k \in Kinds : HeldNow(p, k) \in Slot /\ inum[HeldNow(p, k)] = i
    <3> SUFFICES ASSUME NEW k \in Kinds, HeldNow(p, k) \in Slot, inum[HeldNow(p, k)] = i
                 PROVE  FALSE
      OBVIOUS
    <3>1. ref[HeldNow(p, k)] > 0
      BY <1>0, HolderRef
    <3>2. HeldNow(p, k) = SlotOf(i)
      BY <1>0, <3>1, Igotten
    <3> QED
      BY <1>9, <2>1, <3>1, <3>2
  <2>3. inode[i].type # "free" /\ inode[i].nlink # 0
    BY <2>2 DEF Alive
  <2>4. i # inum[x]
    BY <1>0, <1>7, <1>9, <2>1, Igotten
  <2>5. inode'[i] = inode[i]
    BY <1>0, <2>4 DEF Writes
  <2> QED
    BY <2>1, <2>3, <2>5
<1>10. \A s \in Slot : ref'[s] > 0 => inode'[inum'[s]].type # "free"
  BY <1>1, <1>7, <1>8, <1>9
<1>11. \A s \in Slot : ref'[s] > 0 /\ inode'[inum'[s]].nlink = 0 =>
         s \in valid' \/ (ref[s] > 0 /\ inode[inum[s]].nlink = 0)
  BY <1>1, <1>7, <1>9
<1>12. \A k \in Inum : inode'[k].type # "free" /\ inode'[k].nlink = 0 => Orphan(k) \/ \E s \in Slot : inum'[s] = k
  BY <1>1, <1>7
<1> QED
  BY <1>1, <1>2, <1>3, <1>5, <1>6, <1>7, <1>10, <1>11, <1>12, BusyFrame

(* A count is zero when nothing is counted. *)
LEMMA NoCount ==
  ASSUME NEW K, IsFiniteSet(K), NEW H, NEW s
  PROVE  (\E k \in K : H[k] = s) => Count(H, K, s) # 0
<1>1. IsFiniteSet({k \in K : H[k] = s})
  BY FS_Subset
<1> QED
  BY <1>1, FS_EmptySet DEF Count

(* One link more or less. *)
LEMMA OneLink ==
  ASSUME LinkInv, NEW k \in Links0, \A m \in Links0 \ {k} : Linking'[m] = Linking[m],
         \A j \in Inum : inode'[j].nlink = After(inode[j].nlink, Linking[k], Linking'[k], j)
  PROVE  LinkInv'
<1>1. PICK H, G : H = Linking /\ G = Linking'
  OBVIOUS
<1>2. \A j \in Inum : Count(G, Links0, j) = After(Count(H, Links0, j), H[k], G[k], j)
  <2>1. \A m \in Links0 \ {k} : G[m] = H[m]
    BY <1>1
  <2> QED
    BY <2>1, OneChange, LinksFinite
<1>3. \A j \in Inum : inode'[j].nlink = Count(Linking', Links0, j)
  BY <1>1, <1>2, LinkInvIs
<1> QED
  BY <1>3, LinkInvIs

(* The directories that are going, but for what p does to them. *)
Doomed(p) == {i \in Inum : inode[i].type = "dir" /\ \E q \in Proc \ {p} : t[q].pc = "unlinked" /\ inum[t[q].ip] = i}

(* What of them a step of p leaves. *)
LEMMA DyingIs ==
  ASSUME IInv, NEW p \in Proc, Others(p), \A i \in Inum : inode'[i].type = inode[i].type,
         \A s \in Slot : ref[s] > 0 => inum'[s] = inum[s]
  PROVE  /\ \A i \in Inum : i \in Dying <=> i \in Doomed(p) \/ (inode[i].type = "dir" /\ t[p].pc = "unlinked" /\ inum[t[p].ip] = i)
         /\ \A i \in Inum : i \in Dying' <=> i \in Doomed(p) \/ (inode[i].type = "dir" /\ t'[p].pc = "unlinked" /\ inum'[t'[p].ip] = i)
         /\ Dying \subseteq Inum /\ Dying' \subseteq Inum
<1>1. \A q \in Proc : t[q].pc = "unlinked" => t[q].ip \in Slot /\ ref[t[q].ip] > 0
  BY IpHeld, HolderRef DEF IInv, Second
<1>2. \A q \in Proc \ {p} : t'[q] = t[q]
  BY DEF Others
<1>3. \A i \in Inum : i \in Dying <=> i \in Doomed(p) \/ (inode[i].type = "dir" /\ t[p].pc = "unlinked" /\ inum[t[p].ip] = i)
  BY DEF Dying, Doomed
<1>4. \A q \in Proc \ {p} : t'[q].pc = "unlinked" => inum'[t'[q].ip] = inum[t[q].ip]
  BY <1>1, <1>2
<1>5. ASSUME NEW i \in Inum
      PROVE  i \in Dying' <=> i \in Doomed(p) \/ (inode[i].type = "dir" /\ t'[p].pc = "unlinked" /\ inum'[t'[p].ip] = i)
  <2>1. i \in Dying' <=> inode'[i].type = "dir" /\ \E q \in Proc : t'[q].pc = "unlinked" /\ inum'[t'[q].ip] = i
    BY DEF Dying
  <2>2. i \in Doomed(p) <=> inode[i].type = "dir" /\ \E q \in Proc \ {p} : t[q].pc = "unlinked" /\ inum[t[q].ip] = i
    BY DEF Doomed
  <2>3. (\E q \in Proc : t'[q].pc = "unlinked" /\ inum'[t'[q].ip] = i)
        <=> (\E q \in Proc \ {p} : t'[q].pc = "unlinked" /\ inum'[t'[q].ip] = i) \/ (t'[p].pc = "unlinked" /\ inum'[t'[p].ip] = i)
    OBVIOUS
  <2>4. (\E q \in Proc \ {p} : t'[q].pc = "unlinked" /\ inum'[t'[q].ip] = i)
        <=> (\E q \in Proc \ {p} : t[q].pc = "unlinked" /\ inum[t[q].ip] = i)
    BY <1>2, <1>4
  <2> QED
    BY <2>1, <2>2, <2>3, <2>4
<1>6. Dying \subseteq Inum /\ Dying' \subseteq Inum
  BY DEF Dying
<1> QED
  BY <1>3, <1>5, <1>6

(* The links that other calls count. *)
LEMMA OtherCalls ==
  ASSUME IInv, NEW p \in Proc, Others(p), \A s \in Slot : ref[s] > 0 => inum'[s] = inum[s]
  PROVE  \A q \in Proc \ {p} : Linking'[CallRec(q)] = Linking[CallRec(q)]
<1> TAKE q \in Proc \ {p}
<1>1. Counted(q)' = Counted(q)
  BY DEF Others, Counted
<1>2. Counted(q) # 0 => inum'[Counted(q)] = inum[Counted(q)]
  BY CountedHeld DEF IInv
<1> QED
  BY <1>1, <1>2, LinkingIs

(* The count of one inode changes, with a call's. *)
LEMMA NlinkWritten ==
  ASSUME IInv, NEW p \in Proc, Others(p), \A s \in Slot : ref[s] > 0 => inum'[s] = inum[s],
         NEW i \in Inum, NEW l \in 0..NLINK_MAX, inode' = [inode EXCEPT ![i].nlink = l], used' = used,
         inode[i].type = "dir" => l = 0 /\ i \in Dying,
         Live' = Live, Dying' \subseteq Dying,
         \A j \in Inum : inode'[j].nlink = After(inode[j].nlink, Linking[CallRec(p)], Linking'[CallRec(p)], j)
  PROVE  Written
<1>0. TypeOK /\ LinkInv /\ EntryInv /\ DirInv /\ BlockInv
  BY DEF IInv
<1>1. /\ inode \in [Inum -> Inode] /\ used \in SUBSET Block
      /\ \A d \in Inum, n \in Entry : inode[d].dir[n] = 0 \/ inode[d].dir[n] \in Inum
  BY <1>0, InodeTypes
<1>2. PICK m : m = [inode[i] EXCEPT !.nlink = l]
  OBVIOUS
<1>3. m \in Inode /\ m.type = inode[i].type /\ m.nlink = l /\ m.dir = inode[i].dir /\ Owned(m) = Owned(inode[i])
  <2>1. inode[i] \in [type : {"free", "file", "dir", "device"}, nlink : 0..NLINK_MAX,
          data : SUBSET Block, ind : SUBSET Block, dir : [Entry -> 0..NINODES]]
    BY <1>1 DEF Inode
  <2> QED
    BY <1>2, <2>1 DEF Inode, Owned
<1>4. inode' \in [Inum -> Inode] /\ inode'[i] = m /\ \A j \in Inum \ {i} : inode'[j] = inode[j]
  <2>1. inode' = [inode EXCEPT ![i] = m]
    BY <1>1, <1>2
  <2> QED
    BY <1>1, <1>3, <2>1
<1>5. \A j \in Inum : inode'[j].type = inode[j].type /\ inode'[j].dir = inode[j].dir
                      /\ Owned(inode'[j]) = Owned(inode[j])
  BY <1>3, <1>4
<1>6. Live \subseteq Inum /\ Live \subseteq Dirs(inode) /\ Live \cap Dying = {}
  BY DEF Live, Dirs
<1>7. \A k \in Links0 \ {CallRec(p)} : Linking'[k] = Linking[k]
  <2> SUFFICES ASSUME NEW k \in Links0 \ {CallRec(p)}
               PROVE  Linking'[k] = Linking[k]
    OBVIOUS
  <2>1. CASE \E d \in Inum, n \in Entry \ {"."} : k = Rec(d, n)
    BY <1>5, <2>1, LinkingIs
  <2>2. CASE \E q \in Proc : k = CallRec(q)
    BY <2>2, OtherCalls
  <2> QED
    BY <2>1, <2>2, LinkingIs
<1>8. LinkInv'
  BY <1>0, <1>7, OneLink, LinkingIs
<1>9. EntryInv'
  <2> SUFFICES ASSUME NEW d \in Live, NEW n \in Entry, inode'[d].dir[n] # 0
               PROVE  /\ inode'[inode'[d].dir[n]].type # "free" /\ inode'[inode'[d].dir[n]].nlink > 0
                      /\ inode'[d].dir[n] \notin Dying'
    BY DEF EntryInv, Linked
  <2>1. PICK j \in Inum : j = inode[d].dir[n] /\ j = inode'[d].dir[n]
    BY <1>1, <1>5, <1>6
  <2>2. Linked(inode, j) /\ j \notin Dying
    BY <1>0, <2>1, Numbers DEF EntryInv
  <2>3. CASE j # i
    BY <1>4, <2>1, <2>2, <2>3 DEF Linked
  <2>4. CASE j = i
    <3>1. inode[i].type # "dir"
      BY <2>2, <2>4
    <3>2. n # "."
      BY <1>0, <1>6, <2>1, <2>4, <3>1 DEF DirInv, Dirs
    <3>3. Linking'[Rec(d, n)] = i /\ Rec(d, n) \in Links0
      BY <1>6, <2>1, <2>4, <3>2, LinkingIs
    <3>4. PICK G : G = Linking'
      OBVIOUS
    <3>5. Count(G, Links0, i) # 0
      BY <3>3, <3>4, NoCount, LinksFinite
    <3>6. inode'[i].nlink = Cardinality({k \in Links0 : Linking'[k] = i})
      BY <1>8 DEF LinkInv
    <3>7. l # 0 /\ inode'[i].nlink = l
      BY <1>3, <1>4, <3>4, <3>5, <3>6 DEF Count
    <3> QED
      BY <1>5, <2>1, <2>2, <2>4, <3>7, Sizes DEF Linked
  <2> QED
    BY <2>3, <2>4
<1>10. DirInv'
  <2>1. Dirs(inode)' \subseteq Dirs(inode)
    <3> SUFFICES ASSUME NEW j \in Inum, Linked(inode, j)', inode'[j].type = "dir"
                 PROVE  j \in Dirs(inode)
      BY DEF Dirs
    <3>1. j # i
      BY <1>3, <1>4 DEF Linked
    <3> QED
      BY <1>4, <3>1 DEF Dirs, Linked
  <2>2. \A d \in Live : \A n \in Name : inode'[d].dir[n] \in Dirs(inode)' =>
       inode'[d].dir[n] # ROOTINO /\ inode'[inode'[d].dir[n]].dir[".."] = d
    <3> SUFFICES ASSUME NEW d \in Live, NEW n \in Name, inode[d].dir[n] \in Dirs(inode)
                 PROVE  inode[d].dir[n] # ROOTINO /\ inode'[inode[d].dir[n]].dir[".."] = d
      BY <1>5, <1>6, <2>1
    <3>1. inode'[inode[d].dir[n]].dir = inode[inode[d].dir[n]].dir
      BY <1>5 DEF Dirs
    <3> QED
      BY <1>0, <3>1 DEF DirInv
  <2>3. \A d \in Live \ {ROOTINO} : \E n \in Name :
       /\ inode'[d].dir[".."] \in Live
       /\ \A k \in Name : inode'[inode'[d].dir[".."]].dir[k] = d <=> k = n
    <3> TAKE d \in Live \ {ROOTINO}
    <3>1. PICK n \in Name : /\ inode[d].dir[".."] \in Live
                            /\ \A k \in Name : inode[inode[d].dir[".."]].dir[k] = d <=> k = n
      BY <1>0 DEF DirInv
    <3>2. inode'[d].dir = inode[d].dir /\ inode'[inode[d].dir[".."]].dir = inode[inode[d].dir[".."]].dir
      BY <1>5, <1>6, <3>1
    <3> QED
      BY <3>1, <3>2
  <2>4. \A j \in Inum : inode'[j].type = "dir" /\ (inode'[j].nlink = 0 \/ j \in Dying') => IsDirEmpty(inode'[j])
    <3> SUFFICES ASSUME NEW j \in Inum, inode[j].type = "dir", inode'[j].nlink = 0 \/ j \in Dying'
                 PROVE  IsDirEmpty(inode[j])
      BY <1>5 DEF IsDirEmpty, Entries
    <3>1. inode[j].nlink = 0 \/ j \in Dying
      BY <1>4
    <3> QED
      BY <1>0, <3>1 DEF DirInv
  <2>5. \A j \in Inum : inode'[j].type # "dir" => Entries(inode'[j]) = {}
    BY <1>0, <1>5 DEF DirInv, Entries
  <2>6. ROOTINO \in Live /\ inode'[ROOTINO].dir[".."] = ROOTINO /\ \A d \in Live : inode'[d].dir["."] = d
    BY <1>0, <1>5, <1>6 DEF DirInv
  <2>7. \A j \in Inum : inode'[j].type = "dir" /\ (inode'[j].nlink = 0 \/ j \in Dying') => IsDirEmpty(inode[j])'
    BY <2>4 DEF IsDirEmpty, Entries
  <2>8. \A j \in Inum : inode'[j].type # "dir" => Entries(inode[j])' = {}
    BY <2>5 DEF Entries
  <2>9. (ROOTINO \in Live /\ inode[ROOTINO].dir[".."] = ROOTINO /\ \A d \in Live : inode[d].dir["."] = d)'
    BY <2>6
  <2>10. (\A d \in Live : \A n \in Name : inode[d].dir[n] \in Dirs(inode) =>
          inode[d].dir[n] # ROOTINO /\ inode[inode[d].dir[n]].dir[".."] = d)'
    BY <2>2
  <2>11. (\A d \in Live \ {ROOTINO} : \E n \in Name :
           /\ inode[d].dir[".."] \in Live
           /\ \A k \in Name : inode[inode[d].dir[".."]].dir[k] = d <=> k = n)'
    BY <2>3
  <2> QED
    BY <2>7, <2>8, <2>9, <2>10, <2>11 DEF DirInv
<1>11. BlockInv'
  <2>1. PICK new : new = inode'
    OBVIOUS
  <2>3. \A j \in Inum : new[j].type = inode[j].type /\ Owned(new[j]) = Owned(inode[j])
    BY <1>5, <2>1
  <2>4. UNION {Owned(new[j]) : j \in Inum} = UNION {Owned(inode[j]) : j \in Inum}
    BY <2>3
  <2>2. BlocksRight(new, used)
    BY <1>0, <2>3, <2>4 DEF BlockInv, BlocksRight
  <2> QED
    BY <2>1, <2>2 DEF BlockInv, BlocksRight, Owned
<1>12. [inode |-> inode', used |-> used'] \in Image
  BY <1>1, <1>4 DEF Image
<1> QED
  BY <1>8, <1>9, <1>10, <1>11, <1>12 DEF Written

(* The call gives up the inode whose count it has put right. *)
LEMMA BusyQuitIp ==
  ASSUME IInv, NEW p \in Proc, t[p].puts = <<>>, t[p].pc \in {"link_bad", "unlinked"},
         Quit(p, <<t[p].ip>>), saved' = saved, crashes' = crashes, Table, UNCHANGED <<user, active>>,
         valid' = valid, Written, Writes(p, t[p].ip)
  PROVE  IInv'
<1> DEFINE c == t[p].ip
<1>0. ThreadInv /\ TypeOK /\ RefInv /\ TableInv
  BY DEF IInv
<1>1. /\ t'[p].pc = "end" /\ t'[p].puts = <<c>> /\ t'[p].call = t[p].call /\ t'[p].path = t[p].path
      /\ t'[p].cur = t[p].cur /\ t'[p].ip = c /\ t'[p].name = t[p].name /\ t'[p].put = t[p].put
      /\ t'[p].inum = t[p].inum
  BY <1>0, GoFields DEF Fields, Quit
<1>2. /\ t[p].put = "test" /\ ThreadType(t[p]) /\ ThreadShape(t[p])
      /\ HeldNow(p, "first") = 0 /\ HeldNow(p, "last") = 0
  BY Ready
<1>3. c \in Slot /\ HeldNow(p, "ip") = c /\ ref[c] > 0
  <2>1. t[p].pc \in Second
    BY DEF Second
  <2> QED
    BY <1>0, <2>1, IpHeld, HolderRef
<1>5. Writes(p, c)
  OBVIOUS
<1> HIDE DEF c
<1>4. <<c>> \in Seq(Slot) /\ Len(<<c>>) <= 2 /\ Len(<<c>>) # 2 /\ <<c>> # <<>> /\ Range(<<c>>) = {c}
  BY <1>3, OneSeq
<1>6. ThreadType(t'[p])
  BY <1>1, <1>2, <1>4, Numbers DEF ThreadType, Pcs, c
<1>7. ThreadShape(t'[p])
  BY <1>1, <1>2, <1>4 DEF ThreadShape, InCall, Finds, Second, WithCur, WithPuts
<1>9. LockOf(p)'
  <2>1. \A s \in Slot : lock[s] = p => s = c
    BY Ready DEF LockOf, c
  <2> QED
    BY <1>1, <1>2, <1>4, <2>1 DEF LockOf, Locking, Table, MayLock
<1>10. Knows(p)'
  BY <1>1 DEF Knows
<1>12. Busy(p) /\ HeldNext(p, "file") = HeldNow(p, "file") /\ HeldNext(p, "cwd") = HeldNow(p, "cwd")
  <2>1. t[p].pc \in InCall /\ t[p].pc # "moved"
    BY DEF InCall, Second
  <2>2. lock' \in [Slot -> Proc \union {None}]
    BY Ready DEF Table
  <2>3. t'[p].pc \in InCall \union {"end"} /\ t'[p].pc # "moved"
    BY <1>1
  <2> QED
    BY <1>1, <1>6, <1>7, <1>9, <1>10, <2>1, <2>2, <2>3, BusyCall DEF Table, Quit
<1>13. \A k \in Kinds : HeldNext(p, k) = HeldNow(p, Swap("ip", "last")[k])
  <2>1. HeldNext(p, "last") = c /\ HeldNext(p, "first") = 0
    BY <1>1, <1>2, OnePut DEF HeldNext
  <2>2. HeldNext(p, "cur") = 0 /\ HeldNext(p, "ip") = 0
    BY <1>1 DEF HeldNext, Holding, WithCur, Finds, WithIp, Second
  <2>3. HeldNow(p, "cur") = 0
    BY DEF HeldNow, Holding, WithCur, Finds
  <2> QED
    BY <1>2, <1>3, <1>12, <2>1, <2>2, <2>3 DEF Swap, Kinds
<1>14. Swap("ip", "last") \in [Kinds -> Kinds] /\ \A k \in Kinds : Swap("ip", "last")[Swap("ip", "last")[k]] = k
  BY Swapping DEF Kinds
<1> QED
  BY <1>3, <1>5, <1>12, <1>13, <1>14, BusyMove DEF Table

(* A call that has counted a link to an inode finds the count there. *)
LEMMA CountedOne ==
  ASSUME IInv, NEW p \in Proc, Counted(p) # 0, NEW i, i = inum[Counted(p)]
  PROVE  /\ i \in Inum /\ Linking[CallRec(p)] = i /\ inode[i].type # "free"
         /\ inode[i].nlink \in 0..NLINK_MAX /\ inode[i].nlink - 1 \in 0..NLINK_MAX
<1>0. TypeOK /\ ThreadInv /\ RefInv /\ TableInv /\ LinkInv /\ HeldInv
  BY DEF IInv
<1>1. Counted(p) \in Slot /\ ref[Counted(p)] > 0
  BY <1>0, CountedHeld
<1>2. i \in Inum
  BY <1>0, <1>1, Numbers DEF TypeOK, TableInv
<1>3. Linking[CallRec(p)] = i /\ CallRec(p) \in Links0
  BY LinkingIs
<1>4. inode[i].nlink # 0
  BY <1>0, <1>2, <1>3, LinkedBy
<1>5. inode[i].nlink \in 0..NLINK_MAX
  BY <1>0, <1>2, InodeTypes
<1>6. inode[i].type # "free"
  BY <1>0, <1>1 DEF HeldInv, Ip
<1>7. inode[i].nlink - 1 \in 0..NLINK_MAX
  BY <1>4, <1>5, Sizes
<1> QED
  BY <1>2, <1>3, <1>5, <1>6, <1>7

(* link() takes its count back. *)
LEMMA LinkBadStep ==
  ASSUME IInv, NEW p \in Proc, LinkBad(p)
  PROVE  IInv'
<1>0. /\ t[p].pc = "link_bad" /\ t[p].puts = <<>> /\ saved' = saved /\ crashes' = crashes /\ Table
      /\ UNCHANGED <<user, active>> /\ valid' = valid /\ used' = used /\ Quit(p, <<t[p].ip>>)
      /\ AddLink(inum[t[p].ip], -1)
  BY DEF LinkBad, At, Table
<1>1. TypeOK /\ ThreadInv /\ RefInv /\ TableInv /\ Knows(p)
  BY DEF IInv, HeldInv
<1>2. PICK s \in Slot : s = t[p].ip /\ HeldNow(p, "ip") = s /\ "ip" \in Kinds
  BY <1>0, <1>1, IpHeld DEF Second
<1>3. Counted(p) = s /\ s # 0
  BY <1>0, <1>2, Numbers DEF Counted
<1>4. PICK i \in Inum : i = inum[s]
  BY <1>3, CountedOne
<1>5. /\ Linking[CallRec(p)] = i /\ inode[i].type # "free" /\ inode[i].nlink \in 0..NLINK_MAX
      /\ inode[i].nlink - 1 \in 0..NLINK_MAX
  BY <1>3, <1>4, CountedOne
<1>6. inode[i].type # "dir" /\ s \in valid
  BY <1>0, <1>1, <1>2, <1>3, <1>4 DEF Knows, Ip
<1>7. PICK l \in 0..NLINK_MAX : l = inode[i].nlink - 1
  BY <1>5
<1>8. inode' = [inode EXCEPT ![i].nlink = l] /\ inode \in [Inum -> Inode]
  <2>1. inode' = [inode EXCEPT ![i].nlink = @ + (-1)]
    BY <1>0, <1>2, <1>4 DEF AddLink
  <2>2. inode[i].nlink + (-1) = l
    BY <1>5, <1>7
  <2> QED
    BY <1>1, <2>1, <2>2, InodeTypes
<1>9. /\ \A j \in Inum \ {i} : inode'[j] = inode[j]
      /\ inode'[i].type = inode[i].type /\ inode'[i].dir = inode[i].dir /\ inode'[i].nlink = l
  <2>1. inode[i] \in [type : {"free", "file", "dir", "device"}, nlink : 0..NLINK_MAX,
          data : SUBSET Block, ind : SUBSET Block, dir : [Entry -> 0..NINODES]]
    BY <1>8 DEF Inode
  <2> QED
    BY <1>8, <2>1
<1>10. t'[p].pc = "end" /\ Others(p)
  <2>1. \A f \in Fields : t'[p][f] = IF f \in {"pc", "puts"} THEN [pc |-> "end", puts |-> <<t[p].ip>>][f] ELSE t[p][f]
    BY <1>0, <1>1, GoFields DEF Quit
  <2> QED
    BY <1>0, <1>1, <2>1, GoFields DEF Fields, Others, Quit, user
<1>11. \A j \in Inum : inode'[j].type = inode[j].type
  BY <1>9
<1>12. Dying' = Dying
  <2>1. \A j \in Inum : j \in Dying' <=> j \in Dying
    BY <1>0, <1>10, <1>11, DyingIs DEF Table
  <2> QED
    BY <2>1 DEF Dying
<1>13. Live' = Live
  <2>1. Dirs(inode)' = Dirs(inode)
    BY <1>6, <1>9 DEF Dirs, Linked
  <2> QED
    BY <1>12, <2>1 DEF Live
<1>14. \A j \in Inum : inode'[j].nlink = After(inode[j].nlink, Linking[CallRec(p)], Linking'[CallRec(p)], j)
  <2>1. Linking'[CallRec(p)] = 0
    BY <1>10, LinkingIs DEF Counted
  <2>2. \A j \in Inum : j # 0 /\ inode[j].nlink \in Nat
    BY <1>1, InodeTypes, Numbers
  <2> QED
    BY <1>5, <1>7, <1>9, <2>1, <2>2 DEF After, One
<1>15. Written
  <2>1. \A x \in Slot : ref[x] > 0 => inum'[x] = inum[x]
    BY <1>0 DEF Table
  <2> QED
    BY <1>0, <1>6, <1>8, <1>10, <1>12, <1>13, <1>14, <2>1, NlinkWritten
<1>16. Writes(p, s)
  BY <1>0, <1>2, <1>4, <1>6, <1>9 DEF Writes
<1> QED
  BY <1>0, <1>2, <1>15, <1>16, BusyQuitIp

(* unlink() gives up the link of the inode. *)
LEMMA UnlinkedStep ==
  ASSUME IInv, NEW p \in Proc, Unlinked(p)
  PROVE  IInv'
<1>0. /\ t[p].pc = "unlinked" /\ t[p].puts = <<>> /\ saved' = saved /\ crashes' = crashes /\ Table
      /\ UNCHANGED <<user, active>> /\ valid' = valid /\ used' = used /\ Quit(p, <<t[p].ip>>)
      /\ AddLink(inum[t[p].ip], -1)
  BY DEF Unlinked, At, Table
<1>1. TypeOK /\ ThreadInv /\ RefInv /\ TableInv /\ Knows(p) /\ LinkInv /\ EntryInv /\ LockInv
  BY DEF IInv, HeldInv
<1>2. PICK s \in Slot : s = t[p].ip /\ HeldNow(p, "ip") = s /\ "ip" \in Kinds
  BY <1>0, <1>1, IpHeld DEF Second
<1>3. Counted(p) = s /\ s # 0 /\ ref[s] > 0 /\ s \in valid
  BY <1>0, <1>1, <1>2, Numbers, HolderRef DEF Counted, Knows
<1>4. PICK i \in Inum : i = inum[s]
  BY <1>3, CountedOne
<1>5. /\ Linking[CallRec(p)] = i /\ inode[i].type # "free" /\ inode[i].nlink \in 0..NLINK_MAX
      /\ inode[i].nlink - 1 \in 0..NLINK_MAX
  BY <1>3, <1>4, CountedOne
<1>6. \A q \in Proc \ {p} : t[q].pc = "unlinked" => inum[t[q].ip] # i
  <2> SUFFICES ASSUME NEW q \in Proc \ {p}, t[q].pc = "unlinked", inum[t[q].ip] = i
               PROVE  FALSE
    OBVIOUS
  <2>1. t[q].ip \in Slot /\ ref[t[q].ip] > 0
    BY <1>1, IpHeld, HolderRef DEF Second
  <2>2. t[q].ip = s
    BY <1>1, <1>3, <1>4, <2>1 DEF TableInv
  <2>3. lock[t[q].ip] = q /\ lock[t[p].ip] = p
    BY <1>0, <1>1 DEF LockInv, LockOf, Locking
  <2> QED
    BY <1>2, <2>2, <2>3
<1>7. PICK l \in 0..NLINK_MAX : l = inode[i].nlink - 1
  BY <1>5
<1>8. inode' = [inode EXCEPT ![i].nlink = l] /\ inode \in [Inum -> Inode]
  <2>1. inode' = [inode EXCEPT ![i].nlink = @ + (-1)]
    BY <1>0, <1>2, <1>4 DEF AddLink
  <2>2. inode[i].nlink + (-1) = l
    BY <1>5, <1>7
  <2> QED
    BY <1>1, <2>1, <2>2, InodeTypes
<1>9. /\ \A j \in Inum \ {i} : inode'[j] = inode[j]
      /\ inode'[i].type = inode[i].type /\ inode'[i].dir = inode[i].dir /\ inode'[i].nlink = l
  <2>1. inode[i] \in [type : {"free", "file", "dir", "device"}, nlink : 0..NLINK_MAX,
          data : SUBSET Block, ind : SUBSET Block, dir : [Entry -> 0..NINODES]]
    BY <1>8 DEF Inode
  <2> QED
    BY <1>8, <2>1
<1>10. t'[p].pc = "end" /\ Others(p)
  <2>1. \A f \in Fields : t'[p][f] = IF f \in {"pc", "puts"} THEN [pc |-> "end", puts |-> <<t[p].ip>>][f] ELSE t[p][f]
    BY <1>0, <1>1, GoFields DEF Quit
  <2> QED
    BY <1>0, <1>1, <2>1, GoFields DEF Fields, Others, Quit, user
<1>11. \A j \in Inum : inode'[j].type = inode[j].type
  BY <1>9
<1>12. /\ \A j \in Inum : j \in Dying <=> j \in Doomed(p) \/ (inode[j].type = "dir" /\ j = i)
       /\ \A j \in Inum : j \in Dying' <=> j \in Doomed(p)
       /\ Dying \subseteq Inum /\ Dying' \subseteq Inum
  BY <1>0, <1>2, <1>4, <1>10, <1>11, DyingIs DEF Table
<1>13. i \notin Doomed(p)
  BY <1>6 DEF Doomed
<1>14. ASSUME inode[i].type = "dir"
       PROVE  l = 0 /\ i \in Dying
  <2>1. i \in Dying
    BY <1>12, <1>14
  <2>2. ASSUME NEW k \in Links0, Linking[k] = i
        PROVE  k = CallRec(p)
    <3>1. CASE \E d \in Inum, n \in Entry \ {"."} : k = Rec(d, n)
      <4>1. PICK d \in Inum, n \in Entry \ {"."} : k = Rec(d, n)
        BY <3>1
      <4>2. d \in Live /\ inode[d].dir[n] = i
        BY <2>2, <4>1, LinkingIs, Numbers
      <4> QED
        BY <1>1, <2>1, <4>2, Numbers DEF EntryInv
    <3>2. CASE \E q \in Proc : k = CallRec(q)
      <4>1. PICK q \in Proc : k = CallRec(q)
        BY <3>2
      <4>2. Counted(q) # 0 /\ inum[Counted(q)] = i
        BY <2>2, <4>1, LinkingIs, Numbers
      <4>3. t[q].pc \notin {"walk", "link_new", "link_bad"}
        <5>1. Counted(q) = t[q].ip
          BY <4>2 DEF Counted
        <5> QED
          BY <1>14, <4>2, <5>1 DEF IInv, HeldInv, Knows, Ip
      <4>4. t[q].pc = "unlinked" /\ Counted(q) = t[q].ip
        BY <4>2, <4>3 DEF Counted
      <4> QED
        BY <1>6, <4>1, <4>2, <4>4
    <3> QED
      BY <3>1, <3>2, LinkingIs
  <2>3. {k \in Links0 : Linking[k] = i} = {CallRec(p)}
    BY <1>5, <2>2, LinkingIs
  <2>4. Cardinality({CallRec(p)}) = 1
    BY FS_Singleton
  <2>5. inode[i].nlink = 1
    BY <1>1, <2>3, <2>4 DEF LinkInv
  <2> QED
    BY <1>7, <2>1, <2>5
<1>15. Live' = Live
  <2>1. CASE inode[i].type = "dir"
    <3>1. Dirs(inode)' = Dirs(inode) \ {i}
      BY <1>9, <1>14, <2>1 DEF Dirs, Linked
    <3>2. Dying' = Dying \ {i} /\ i \in Dying
      BY <1>12, <1>13, <2>1
    <3> QED
      BY <3>1, <3>2 DEF Live
  <2>2. CASE inode[i].type # "dir"
    <3>1. Dirs(inode)' = Dirs(inode)
      BY <1>9, <2>2 DEF Dirs, Linked
    <3>2. Dying' = Dying
      BY <1>12, <2>2
    <3> QED
      BY <3>1, <3>2 DEF Live
  <2> QED
    BY <2>1, <2>2
<1>16. Dying' \subseteq Dying
  BY <1>12
<1>17. \A j \in Inum : inode'[j].nlink = After(inode[j].nlink, Linking[CallRec(p)], Linking'[CallRec(p)], j)
  <2>1. Linking'[CallRec(p)] = 0
    BY <1>10, LinkingIs DEF Counted
  <2>2. \A j \in Inum : j # 0 /\ inode[j].nlink \in Nat
    BY <1>1, InodeTypes, Numbers
  <2> QED
    BY <1>5, <1>7, <1>9, <2>1, <2>2 DEF After, One
<1>18. Written
  <2>1. \A x \in Slot : ref[x] > 0 => inum'[x] = inum[x]
    BY <1>0 DEF Table
  <2> QED
    BY <1>0, <1>8, <1>10, <1>14, <1>15, <1>16, <1>17, <2>1, NlinkWritten
<1>19. Writes(p, s)
  BY <1>0, <1>2, <1>3, <1>4, <1>9 DEF Writes
<1> QED
  BY <1>0, <1>2, <1>18, <1>19, BusyQuitIp

(* Where namex() may start: the root, or the directory the process is in. *)
LEMMA FromAlive ==
  ASSUME IInv, NEW p \in Proc, t[p].pc \notin Boots, t[p].pc # "moved", NEW abs
  PROVE  Alive(p, From(p, abs)) /\ From(p, abs) \in Inum
<1>1. TypeOK /\ RefInv /\ TableInv /\ ThreadInv /\ DirInv /\ cwd[p] # 0
  BY DEF IInv, ThreadInv, BootInv, Boots
<1>2. CASE abs
  <2>1. From(p, abs) = ROOTINO /\ ROOTINO \in Dirs(inode)
    BY <1>1, <1>2 DEF From, DirInv, Live
  <2> QED
    BY <2>1, Numbers DEF Alive, Dirs, Linked
<1>3. CASE ~abs
  <2>1. From(p, abs) = inum[cwd[p]] /\ cwd[p] \in Slot /\ HeldNow(p, "cwd") = cwd[p] /\ "cwd" \in Kinds
    BY <1>1, <1>3, UserHeld DEF From
  <2>2. ref[cwd[p]] > 0 /\ inum[cwd[p]] \in Inum
    BY <1>1, <2>1, HolderRef
  <2>3. inode[inum[cwd[p]]].type # "free"
    BY <2>1, <2>2 DEF IInv, HeldInv, Ip
  <2> QED
    BY <2>1, <2>2, <2>3 DEF Alive
<1> QED
  BY <1>2, <1>3

(* link() counts the link it is about to make. *)
LEMMA LinkCounted ==
  ASSUME IInv, NEW p \in Proc, LinkInc(p), ~(Ip(t[p].cur).type = "dir" \/ Ip(t[p].cur).nlink >= NLINK_MAX)
  PROVE  IInv'
<1> DEFINE s == t[p].cur
           i == From(p, t[p].call.newabs)
           c == SlotOf(i)
<1>0. /\ t[p].pc = "link_inc" /\ t[p].puts = <<>> /\ saved' = saved /\ crashes' = crashes /\ lock' = lock
      /\ UNCHANGED <<user, active>> /\ valid' = valid \union {s} /\ used' = used
      /\ AddLink(inum[s], 1) /\ Iget(i) /\ Unlocked(s)
      /\ Go(p, [pc |-> "walk", ip |-> s, path |-> t[p].call.new, cur |-> c])
  BY DEF LinkInc, At, ReadIn
<1>1. /\ TypeOK /\ RefInv /\ TableInv /\ ThreadInv /\ ThreadType(t[p]) /\ ThreadShape(t[p])
      /\ t[p].put = "test" /\ HeldNow(p, "first") = 0 /\ HeldNow(p, "last") = 0 /\ LockOf(p)
      /\ t[p].call \in Calls /\ t[p].call.op = "link" /\ t[p].ip = 0
      /\ lock \in [Slot -> Proc \union {None}]
  <2>1. ThreadShape(t[p])
    BY <1>0, Ready
  <2>2. t[p].call \in Calls /\ t[p].call.op = "link" /\ t[p].ip = 0
    BY <1>0, <2>1 DEF ThreadShape, InCall, Finds
  <2> QED
    BY <1>0, <2>2, Ready DEF IInv
<1>2. Alive(p, i) /\ i \in Inum
  BY <1>0, FromAlive DEF Boots
<1>3. s \in Slot /\ HeldNow(p, "cur") = s /\ ref[s] > 0 /\ inum[s] \in Inum /\ s # 0
  BY <1>0, <1>1, CurHeld, HolderRef, Numbers DEF WithCur, Finds
<1>4. c \in Slot
  BY <1>1, <1>2, Igotten
<1>5. PICK d \in Inum : d = inum[s] /\ inode[d].type # "dir" /\ inode[d].nlink < NLINK_MAX /\ inode[d] = Ip(s)
  <2>1. inode[inum[s]].nlink \in 0..NLINK_MAX
    BY <1>1, <1>3, InodeTypes
  <2> QED
    BY <1>3, <2>1, Sizes DEF Ip
<1>6. AddLink(d, 1)
  BY <1>0, <1>5
<1> HIDE DEF s, c, i
<1>7. /\ t'[p].pc = "walk" /\ t'[p].puts = <<>> /\ t'[p].call = t[p].call /\ t'[p].path = t[p].call.new
      /\ t'[p].cur = c /\ t'[p].ip = s /\ t'[p].name = t[p].name /\ t'[p].put = t[p].put
      /\ t'[p].inum = t[p].inum /\ t' = [q \in Proc |-> t'[q]] /\ \A q \in Proc \ {p} : t'[q] = t[q]
  <2>1. Go(p, [pc |-> "walk", ip |-> s, path |-> t[p].call.new, cur |-> c])
    BY <1>0 DEF c, s
  <2> QED
    BY <1>0, <1>1, <2>1, GoFields DEF Fields
<1>8. ThreadType(t'[p])
  <2>1. t[p].call.new \in Seq(Entry)
    BY <1>1, CallTypes
  <2> QED
    BY <1>1, <1>3, <1>4, <1>7, <2>1, Numbers DEF ThreadType, Pcs, InCall
<1>9. ThreadShape(t'[p])
  BY <1>0, <1>1, <1>4, <1>7, Numbers DEF ThreadShape, InCall, Finds, Second, WithCur, WithPuts
<1>10. LockOf(p)'
  <2>1. \A x \in Slot : lock'[x] # p
    BY <1>0, NoLocks
  <2> QED
    BY <1>1, <1>7, <2>1, NoLocksNext
<1>11. /\ TableInv' /\ inum'[s] = inum[s] /\ \A x \in Slot : ref[x] > 0 => inum'[x] = inum[x]
  <2>1. Iget(i) /\ valid' \subseteq valid \union {SlotOf(i)} \union {x \in Slot : ref[x] > 0}
    BY <1>0, <1>3 DEF i, s
  <2> QED
    BY <1>1, <1>2, <1>3, <2>1, IgetTable
<1>12. PICK l \in 0..NLINK_MAX : l = inode[d].nlink + 1
  <2>1. inode[d].nlink \in 0..NLINK_MAX
    BY <1>1, InodeTypes
  <2> QED
    BY <1>5, <2>1, Sizes
<1>13. inode' = [inode EXCEPT ![d].nlink = l] /\ inode \in [Inum -> Inode]
  <2>1. inode' = [inode EXCEPT ![d].nlink = @ + 1]
    BY <1>6 DEF AddLink
  <2> QED
    BY <1>1, <1>12, <2>1, InodeTypes
<1>14. /\ \A j \in Inum \ {d} : inode'[j] = inode[j]
       /\ inode'[d].type = inode[d].type /\ inode'[d].dir = inode[d].dir /\ inode'[d].nlink = l
  <2>1. inode[d] \in [type : {"free", "file", "dir", "device"}, nlink : 0..NLINK_MAX,
          data : SUBSET Block, ind : SUBSET Block, dir : [Entry -> 0..NINODES]]
    BY <1>13 DEF Inode
  <2> QED
    BY <1>13, <2>1
<1>15. Knows(p)'
  <2>1. inode'[inum'[s]].type # "dir" /\ s \in valid'
    BY <1>0, <1>5, <1>11, <1>14 DEF s
  <2> QED
    BY <1>7, <2>1 DEF Knows, Ip
<1>16. Others(p) /\ Busy(p) /\ HeldNext(p, "file") = HeldNow(p, "file") /\ HeldNext(p, "cwd") = HeldNow(p, "cwd")
  <2>1. t[p].pc \in InCall /\ t[p].pc # "moved" /\ t'[p].pc \in InCall \union {"end"} /\ t'[p].pc # "moved"
    BY <1>0, <1>7 DEF InCall, Finds
  <2>2. PICK r : Go(p, r)
    BY <1>0
  <2>3. valid \subseteq valid'
    BY <1>0
  <2>4. Busy(p) /\ HeldNext(p, "file") = HeldNow(p, "file") /\ HeldNext(p, "cwd") = HeldNow(p, "cwd")
    BY <1>0, <1>1, <1>7, <1>8, <1>9, <1>10, <1>15, <2>1, <2>2, <2>3, BusyCall
  <2> QED
    BY <2>4 DEF Busy
<1>17. \A j \in Inum : inode'[j].type = inode[j].type
  BY <1>14
<1>18. Dying' = Dying
  <2>1. \A j \in Inum : j \in Dying' <=> j \in Dying
    BY <1>0, <1>7, <1>11, <1>16, <1>17, DyingIs
  <2> QED
    BY <2>1 DEF Dying
<1>19. Live' = Live
  <2>1. Dirs(inode)' = Dirs(inode)
    BY <1>5, <1>14 DEF Dirs, Linked
  <2> QED
    BY <1>18, <2>1 DEF Live
<1>20. \A j \in Inum : inode'[j].nlink = After(inode[j].nlink, Linking[CallRec(p)], Linking'[CallRec(p)], j)
  <2>1. Linking[CallRec(p)] = 0
    BY <1>0, LinkingIs DEF Counted
  <2>2. Linking'[CallRec(p)] = d
    <3>1. Counted(p)' = s
      BY <1>7 DEF Counted
    <3> QED
      BY <1>3, <1>5, <1>11, <3>1, LinkingIs
  <2>3. \A j \in Inum : j # 0 /\ inode[j].nlink \in Nat
    BY <1>1, InodeTypes, Numbers
  <2> QED
    BY <1>12, <1>14, <2>1, <2>2, <2>3 DEF After, One
<1>21. Written
  BY <1>0, <1>5, <1>11, <1>13, <1>16, <1>18, <1>19, <1>20, NlinkWritten
<1>22. Writes(p, s)
  <2>1. l # 0
    BY <1>1, <1>12, InodeTypes
  <2> QED
    BY <1>1, <1>3, <1>5, <1>14, <2>1 DEF Writes, Kinds
<1>23. \A k \in Kinds \ {"cur"} : HeldNext(p, k) = HeldNow(p, Swap("cur", "ip")[k])
  <2>1. HeldNext(p, "last") = 0 /\ HeldNext(p, "first") = 0
    BY <1>7, NoPuts DEF HeldNext
  <2>2. HeldNext(p, "ip") = s
    BY <1>7 DEF HeldNext, Holding, WithIp, Second
  <2> QED
    BY <1>1, <1>3, <1>16, <2>1, <2>2 DEF Swap, Kinds
<1>24. HeldNext(p, "cur") = c /\ HeldNow(p, Swap("cur", "ip")["cur"]) = 0
  <2>1. HeldNext(p, "cur") = c
    BY <1>7 DEF HeldNext, Holding, WithCur, Finds
  <2>2. HeldNow(p, "ip") = 0
    BY <1>0 DEF HeldNow, Holding, WithIp, Second
  <2> QED
    BY <2>1, <2>2 DEF Swap, Kinds
<1>25. Swap("cur", "ip") \in [Kinds -> Kinds] /\ \A k \in Kinds : Swap("cur", "ip")[Swap("cur", "ip")[k]] = k
  BY Swapping DEF Kinds
<1>26. valid' \subseteq valid \union {SlotOf(i)} \union {x \in Slot : ref[x] > 0}
  BY <1>0, <1>3 DEF s
<1>27. "cur" \in Kinds /\ Iget(i) /\ c = SlotOf(i)
  BY <1>0 DEF Kinds, i, c
<1> QED
  BY <1>2, <1>16, <1>21, <1>22, <1>23, <1>24, <1>25, <1>26, <1>27, BusyGet

(* The first step of link(). *)
LEMMA LinkIncStep ==
  ASSUME IInv, NEW p \in Proc, LinkInc(p)
  PROVE  IInv'
BY LinkRefused, LinkCounted

-----------------------------------------------------------------------------
(* Entries that change with a call.                                        *)

(* An entry of a live directory and the link that a call counts change     *)
(* places; the inode linked is no directory.                               *)
LEMMA EntryWritten ==
  ASSUME IInv, NEW p \in Proc, Others(p), \A s \in Slot : ref[s] > 0 => inum'[s] = inum[s],
         NEW d \in Live, NEW n \in Name, NEW i \in Inum, inode[i].type \notin {"dir", "free"}, inode[i].nlink # 0,
         inode' \in [Inum -> Inode], \A j \in Inum \ {d} : inode'[j] = inode[j],
         inode'[d].type = inode[d].type, inode'[d].nlink = inode[d].nlink,
         \A m \in Entry \ {n} : inode'[d].dir[m] = inode[d].dir[m],
         inode[d].dir[n] \in {0, i}, inode'[d].dir[n] \in {0, i},
         Linking[CallRec(p)] = inode'[d].dir[n], Linking'[CallRec(p)] = inode[d].dir[n],
         t[p].pc # "unlinked" \/ inode[inum[t[p].ip]].type # "dir",
         t'[p].pc # "unlinked" \/ inode[inum'[t'[p].ip]].type # "dir",
         used' \in SUBSET Block, BlocksRight(inode', used')
  PROVE  Written
<1>0. TypeOK /\ LinkInv /\ EntryInv /\ DirInv
  BY DEF IInv
<1>1. /\ inode \in [Inum -> Inode]
      /\ \A e \in Inum, m \in Entry : inode[e].dir[m] = 0 \/ inode[e].dir[m] \in Inum
  BY <1>0, InodeTypes
<1>2. Live \subseteq Dirs(inode) /\ Dirs(inode) \subseteq Inum /\ n \in Entry \ {"."} /\ n # ".."
  BY EntryNames, Sizes DEF Live, Dirs
<1>3. \A j \in Inum : inode'[j].type = inode[j].type /\ inode'[j].nlink = inode[j].nlink
  OBVIOUS
<1>4. Dying' = Dying
  <2>1. \A j \in Inum : j \in Dying' <=> j \in Dying
    <3>1. /\ \A j \in Inum : j \in Dying <=> j \in Doomed(p) \/ (inode[j].type = "dir" /\ t[p].pc = "unlinked" /\ inum[t[p].ip] = j)
          /\ \A j \in Inum : j \in Dying' <=> j \in Doomed(p) \/ (inode[j].type = "dir" /\ t'[p].pc = "unlinked" /\ inum'[t'[p].ip] = j)
      BY <1>3, DyingIs
    <3> QED
      BY <3>1
  <2> QED
    BY <2>1 DEF Dying
<1>5. Dirs(inode)' = Dirs(inode)
  BY <1>3 DEF Dirs, Linked
<1>6. Live' = Live
  BY <1>4, <1>5 DEF Live
<1>7. \A k \in Links0 \ {CallRec(p), Rec(d, n)} : Linking'[k] = Linking[k]
  <2> SUFFICES ASSUME NEW k \in Links0 \ {CallRec(p), Rec(d, n)}
               PROVE  Linking'[k] = Linking[k]
    OBVIOUS
  <2>1. CASE \E e \in Inum, m \in Entry \ {"."} : k = Rec(e, m)
    <3>1. PICK e \in Inum, m \in Entry \ {"."} : k = Rec(e, m)
      BY <2>1
    <3>2. inode'[e].dir[m] = inode[e].dir[m]
      BY <3>1
    <3> QED
      BY <1>6, <3>1, <3>2, LinkingIs
  <2>2. CASE \E q \in Proc : k = CallRec(q)
    BY <2>2, OtherCalls
  <2> QED
    BY <2>1, <2>2, LinkingIs
<1>8. /\ Rec(d, n) \in Links0 /\ CallRec(p) \in Links0 /\ Rec(d, n) # CallRec(p)
      /\ Linking[Rec(d, n)] = inode[d].dir[n] /\ Linking'[Rec(d, n)] = inode'[d].dir[n]
  BY <1>2, <1>6, LinkingIs
<1>9. LinkInv'
  <2>1. PICK H, G : H = Linking /\ G = Linking'
    OBVIOUS
  <2>2. PICK k \in Links0, m \in Links0 : k = Rec(d, n) /\ m = CallRec(p)
    BY <1>8
  <2>3. k # m /\ H[k] = G[m] /\ G[k] = H[m] /\ \A j \in Links0 \ {k, m} : G[j] = H[j]
    BY <1>7, <1>8, <2>1, <2>2
  <2>4. \A j \in Inum : /\ Count(H, Links0, j) \in Nat
                        /\ Count(G, Links0, j) = After(After(Count(H, Links0, j), H[k], G[k], j), H[m], G[m], j)
    BY <2>3, TwoChange, LinksFinite
  <2>5. \A j \in Inum : Count(G, Links0, j) = Count(H, Links0, j)
    BY <2>3, <2>4 DEF After, One
  <2>6. \A j \in Inum : inode'[j].nlink = Count(Linking', Links0, j)
    BY <1>0, <1>3, <2>1, <2>5, LinkInvIs
  <2> QED
    BY <2>6, LinkInvIs
<1>10. \A e \in Inum, m \in Entry : inode'[e].dir[m] = inode[e].dir[m] \/ (e = d /\ m = n)
  OBVIOUS
<1>11. EntryInv'
  <2> SUFFICES ASSUME NEW e \in Live, NEW m \in Entry, inode'[e].dir[m] # 0
               PROVE  /\ inode'[inode'[e].dir[m]].type # "free" /\ inode'[inode'[e].dir[m]].nlink > 0
                      /\ inode'[e].dir[m] \notin Dying
    BY <1>4, <1>6 DEF EntryInv, Linked
  <2>1. CASE inode'[e].dir[m] = inode[e].dir[m]
    <3>1. PICK j \in Inum : j = inode[e].dir[m] /\ j = inode'[e].dir[m]
      BY <1>1, <1>2, <2>1
    <3>2. Linked(inode, j) /\ j \notin Dying
      BY <1>0, <3>1, Numbers DEF EntryInv
    <3> QED
      BY <1>3, <3>1, <3>2 DEF Linked
  <2>2. CASE e = d /\ m = n
    <3>1. inode'[e].dir[m] = i /\ i \notin Dying
      BY <2>2 DEF Dying
    <3>2. inode[i].nlink > 0
      BY <1>0, InodeTypes, Sizes
    <3> QED
      BY <1>3, <3>1, <3>2
  <2> QED
    BY <1>2, <1>10, <2>1, <2>2
<1>12. DirInv'
  <2>1. (\A e \in Live : \A m \in Name : inode[e].dir[m] \in Dirs(inode) =>
          inode[e].dir[m] # ROOTINO /\ inode[inode[e].dir[m]].dir[".."] = e)'
    <3> SUFFICES ASSUME NEW e \in Live, NEW m \in Name, inode'[e].dir[m] \in Dirs(inode)
                 PROVE  inode'[e].dir[m] # ROOTINO /\ inode'[inode'[e].dir[m]].dir[".."] = e
      BY <1>5, <1>6
    <3>1. ~(e = d /\ m = n)
      BY Numbers DEF Dirs
    <3>2. PICK j \in Inum : j = inode[e].dir[m] /\ j = inode'[e].dir[m] /\ j \in Dirs(inode)
      BY <1>2, <1>10, <3>1, EntryNames
    <3>3. j # ROOTINO /\ inode[j].dir[".."] = e
      <4>1. inode[e].dir[m] \in Dirs(inode) => inode[e].dir[m] # ROOTINO /\ inode[inode[e].dir[m]].dir[".."] = e
        BY <1>0 DEF DirInv
      <4> QED
        BY <3>2, <4>1
    <3>4. inode'[j].dir[".."] = inode[j].dir[".."]
      BY <1>2, <1>10, EntryNames
    <3> QED
      BY <3>2, <3>3, <3>4
  <2>2. (\A e \in Live \ {ROOTINO} : \E x \in Name :
           /\ inode[e].dir[".."] \in Live
           /\ \A m \in Name : inode[inode[e].dir[".."]].dir[m] = e <=> m = x)'
    <3> SUFFICES ASSUME NEW e \in Live \ {ROOTINO}
                 PROVE  \E x \in Name : /\ inode'[e].dir[".."] \in Live
                                        /\ \A m \in Name : inode'[inode'[e].dir[".."]].dir[m] = e <=> m = x
      BY <1>6
    <3>1. PICK x \in Name : /\ inode[e].dir[".."] \in Live
                            /\ \A m \in Name : inode[inode[e].dir[".."]].dir[m] = e <=> m = x
      BY <1>0 DEF DirInv
    <3>2. PICK f \in Live : f = inode[e].dir[".."]
      BY <3>1
    <3>3. inode'[e].dir[".."] = f
      BY <1>2, <1>10, <3>2, EntryNames
    <3>4. e # i /\ e # 0 /\ e \in Inum
      BY <1>2, Numbers DEF Dirs
    <3>5. \A m \in Name : inode'[f].dir[m] = e <=> inode[f].dir[m] = e
      BY <1>2, <1>10, <3>4, EntryNames
    <3>6. \A m \in Name : inode'[f].dir[m] = e <=> m = x
      BY <3>1, <3>2, <3>5
    <3> QED
      BY <3>3, <3>6
  <2>3. (\A j \in Inum : inode[j].type = "dir" /\ (inode[j].nlink = 0 \/ j \in Dying) => IsDirEmpty(inode[j]))'
    <3> SUFFICES ASSUME NEW j \in Inum, inode'[j].type = "dir", inode'[j].nlink = 0 \/ j \in Dying
                 PROVE  IsDirEmpty(inode'[j])
      BY <1>4 DEF IsDirEmpty, Entries
    <3>1. j # d
      BY <1>3 DEF Live, Dirs, Linked
    <3> QED
      BY <1>0, <3>1 DEF DirInv
  <2>4. (\A j \in Inum : inode[j].type # "dir" => Entries(inode[j]) = {})'
    <3> SUFFICES ASSUME NEW j \in Inum, inode'[j].type # "dir"
                 PROVE  Entries(inode'[j]) = {}
      BY DEF Entries
    <3>1. j # d
      BY <1>2, <1>3 DEF Dirs
    <3> QED
      BY <1>0, <3>1 DEF DirInv
  <2>5. (ROOTINO \in Live /\ inode[ROOTINO].dir[".."] = ROOTINO /\ \A e \in Live : inode[e].dir["."] = e)'
    <3>1. \A e \in Live : inode'[e].dir["."] = inode[e].dir["."]
      BY <1>2, <1>10, EntryNames
    <3>2. inode'[ROOTINO].dir[".."] = inode[ROOTINO].dir[".."]
      BY <1>2, <1>10, EntryNames, Numbers
    <3> QED
      BY <1>0, <1>6, <3>1, <3>2 DEF DirInv
  <2> QED
    BY <2>1, <2>2, <2>3, <2>4, <2>5 DEF DirInv
<1>13. BlockInv'
  <2>1. PICK new : new = inode'
    OBVIOUS
  <2> QED
    BY <2>1 DEF BlockInv, BlocksRight, Owned
<1>14. [inode |-> inode', used |-> used'] \in Image
  BY DEF Image
<1> QED
  BY <1>9, <1>11, <1>12, <1>13, <1>14 DEF Written

(* A sequence of two. *)
LEMMA PairSeq ==
  ASSUME NEW S, NEW s \in S, NEW r \in S
  PROVE  /\ <<s, r>> \in Seq(S) /\ Len(<<s, r>>) = 2 /\ <<s, r>> # <<>>
         /\ Range(<<s, r>>) = {s, r} /\ Head(<<s, r>>) = s
BY OneSeq

(* A live directory's own entries are never empty. *)
LEMMA DotsThere ==
  ASSUME IInv, NEW d \in Live, NEW n \in Entry, inode[d].dir[n] = 0
  PROVE  n \in Name
<1>0. TypeOK /\ DirInv
  BY DEF IInv
<1>1. d \in Inum /\ d # 0
  BY Numbers DEF Live, Dirs
<1>2. inode[d].dir["."] # 0
  BY <1>0, <1>1 DEF DirInv
<1>3. inode[d].dir[".."] # 0
  <2>1. CASE d = ROOTINO
    BY <1>0, <1>1, <2>1 DEF DirInv
  <2>2. CASE d # ROOTINO
    <3>1. inode[d].dir[".."] \in Live
      BY <1>0, <2>2 DEF DirInv
    <3> QED
      BY <3>1, Numbers DEF Live, Dirs
  <2> QED
    BY <2>1, <2>2
<1> QED
  BY <1>2, <1>3, EntryNames

(* What link() writes to the directory. *)
LEMMA LinkNewDir ==
  ASSUME IInv, NEW p \in Proc, LinkNew(p), NEW s, s = t[p].cur,
         NEW g, g = DirLink(Ip(s), used, t[p].name, inum[t[p].ip])
  PROVE  /\ s \in Slot /\ HeldNow(p, "cur") = s /\ ref[s] > 0 /\ inum[s] \in Inum
         /\ t[p].ip \in Slot /\ HeldNow(p, "ip") = t[p].ip /\ ref[t[p].ip] > 0
         /\ Counted(p) = t[p].ip /\ t[p].ip # 0
         /\ t[p].pc = "link_new" /\ t[p].puts = <<>> /\ saved' = saved /\ crashes' = crashes /\ Table
         /\ UNCHANGED <<user, active>> /\ valid' = valid \union {s} /\ Unlocked(s)
         /\ Grown(Ip(s), used, g)
         /\ g.ok => /\ Ip(s).dir[t[p].name] = 0 /\ g.ip.dir[t[p].name] = inum[t[p].ip]
                    /\ \A m \in Entry \ {t[p].name} : g.ip.dir[m] = Ip(s).dir[m]
         /\ ~g.ok => g.ip.dir = Ip(s).dir
         /\ Owned(Ip(s)) \subseteq used
<1>0. /\ t[p].pc = "link_new" /\ t[p].puts = <<>> /\ saved' = saved /\ crashes' = crashes /\ Table
      /\ UNCHANGED <<user, active>> /\ valid' = valid \union {s} /\ Unlocked(s)
  BY DEF LinkNew, At, Table, ReadIn
<1>1. TypeOK /\ RefInv /\ TableInv /\ ThreadInv /\ ThreadType(t[p]) /\ ThreadShape(t[p])
  BY <1>0, Ready DEF IInv
<1>2. s \in Slot /\ HeldNow(p, "cur") = s /\ ref[s] > 0 /\ inum[s] \in Inum
  BY <1>0, <1>1, CurHeld, HolderRef DEF WithCur, Finds
<1>3. t[p].ip \in Slot /\ HeldNow(p, "ip") = t[p].ip /\ ref[t[p].ip] > 0 /\ inum[t[p].ip] \in Inum
  BY <1>0, <1>1, IpHeld, HolderRef DEF Second
<1>4. Counted(p) = t[p].ip /\ t[p].ip # 0
  BY <1>0, <1>3, Numbers DEF Counted
<1>5. Owned(Ip(s)) \subseteq used
  BY <1>2 DEF IInv, BlockInv, BlocksRight, Ip
<1>6. Ip(s) \in Inode /\ used \in SUBSET Block /\ t[p].name \in Entry
  BY <1>1, <1>2, InodeTypes DEF Ip, ThreadType
<1>7. Ip(s).dir \in [Entry -> 0..NINODES]
  BY <1>6, InodeFields
<1>8. /\ Grown(Ip(s), used, g)
      /\ g.ok => Ip(s).dir[t[p].name] = 0 /\ g.ip.dir = [Ip(s).dir EXCEPT ![t[p].name] = inum[t[p].ip]]
      /\ ~g.ok => g.ip.dir = Ip(s).dir
  <2>1. PICK ip \in Inode, u \in SUBSET Block, n \in Entry, i \in Inum :
          ip = Ip(s) /\ u = used /\ n = t[p].name /\ i = inum[t[p].ip]
    BY <1>3, <1>6
  <2>2. Owned(ip) \subseteq u /\ g = DirLink(ip, u, n, i)
    BY <1>5, <2>1
  <2>3. /\ Grown(ip, u, g)
        /\ g.ok => ip.dir[n] = 0 /\ g.ip.dir = [ip.dir EXCEPT ![n] = i]
        /\ ~g.ok => g.ip.dir = ip.dir
    BY <2>2, DirLinkSound
  <2> QED
    BY <2>1, <2>3
<1>9. g.ok => /\ Ip(s).dir[t[p].name] = 0 /\ g.ip.dir[t[p].name] = inum[t[p].ip]
              /\ \A m \in Entry \ {t[p].name} : g.ip.dir[m] = Ip(s).dir[m]
  BY <1>6, <1>7, <1>8
<1> QED
  BY <1>0, <1>2, <1>3, <1>4, <1>5, <1>8, <1>9

(* link() does not get the entry, and will take its count back. *)
LEMMA LinkNewFails ==
  ASSUME IInv, NEW p \in Proc, LinkNew(p),
         ~(Ip(t[p].cur).nlink # 0 /\ DirLink(Ip(t[p].cur), used, t[p].name, inum[t[p].ip]).ok)
  PROVE  IInv'
<1>1. PICK s : s = t[p].cur
  OBVIOUS
<1>2. PICK g : g = DirLink(Ip(s), used, t[p].name, inum[t[p].ip])
  OBVIOUS
<1>3. /\ s \in Slot /\ HeldNow(p, "cur") = s /\ ref[s] > 0 /\ inum[s] \in Inum
      /\ t[p].ip \in Slot /\ HeldNow(p, "ip") = t[p].ip /\ ref[t[p].ip] > 0
      /\ Counted(p) = t[p].ip /\ t[p].ip # 0
      /\ t[p].pc = "link_new" /\ t[p].puts = <<>> /\ saved' = saved /\ crashes' = crashes /\ Table
      /\ UNCHANGED <<user, active>> /\ valid' = valid \union {s} /\ Unlocked(s)
      /\ Grown(Ip(s), used, g)
      /\ ~g.ok => g.ip.dir = Ip(s).dir
      /\ Owned(Ip(s)) \subseteq used
  BY <1>1, <1>2, LinkNewDir
<1>4. /\ TypeOK /\ RefInv /\ TableInv /\ ThreadInv /\ ThreadType(t[p]) /\ ThreadShape(t[p])
      /\ t[p].put = "test" /\ HeldNow(p, "first") = 0 /\ HeldNow(p, "last") = 0 /\ LockOf(p) /\ Knows(p)
  BY <1>3, Ready DEF IInv
<1>5. PICK n, v : /\ n = IF Ip(s).nlink # 0 THEN g.ip ELSE Ip(s)
                  /\ v = IF Ip(s).nlink # 0 THEN g.used ELSE used
  OBVIOUS
<1>6. /\ n \in Inode /\ v \in SUBSET Block
      /\ n.type = Ip(s).type /\ n.nlink = Ip(s).nlink /\ n.dir = Ip(s).dir
      /\ used \subseteq v /\ Owned(n) = Owned(Ip(s)) \union (v \ used)
  <2>1. Ip(s) \in Inode /\ used \in SUBSET Block
    BY <1>3, <1>4, InodeTypes DEF Ip
  <2>2. CASE Ip(s).nlink # 0
    <3>1. n = g.ip /\ v = g.used /\ ~g.ok
      BY <1>1, <1>2, <1>5, <2>2
    <3> QED
      BY <1>3, <3>1 DEF Grown
  <2>3. CASE Ip(s).nlink = 0
    <3>1. n = Ip(s) /\ v = used
      BY <1>5, <2>3
    <3> QED
      BY <2>1, <3>1
  <2> QED
    BY <2>2, <2>3
<1>7. inode' = [inode EXCEPT ![inum[s]] = n] /\ used' = v /\ inode \in [Inum -> Inode]
  <2>0. inode \in [Inum -> Inode]
    BY <1>4, InodeTypes
  <2>1. CASE Ip(s).nlink # 0
    BY <1>1, <1>2, <1>5, <2>0, <2>1 DEF LinkNew
  <2>2. CASE Ip(s).nlink = 0
    <3>1. inode' = inode /\ used' = used /\ n = Ip(s) /\ v = used
      BY <1>1, <1>5, <2>2 DEF LinkNew, disk
    <3> QED
      BY <1>3, <2>0, <3>1 DEF Ip
  <2> QED
    BY <2>0, <2>1, <2>2
<1>8. Go(p, [pc |-> "link_bad", puts |-> <<s>>])
  BY <1>1 DEF LinkNew
<1>9. /\ t'[p].pc = "link_bad" /\ t'[p].puts = <<s>> /\ t'[p].call = t[p].call /\ t'[p].path = t[p].path
      /\ t'[p].cur = t[p].cur /\ t'[p].ip = t[p].ip /\ t'[p].name = t[p].name /\ t'[p].put = t[p].put
      /\ t'[p].inum = t[p].inum
  BY <1>4, <1>8, GoFields DEF Fields
<1>10. t' = [q \in Proc |-> t'[q]] /\ \A q \in Proc \ {p} : t'[q] = t[q]
  BY <1>4, <1>8, GoFields
<1>11. <<s>> \in Seq(Slot) /\ Len(<<s>>) <= 2 /\ Len(<<s>>) # 2 /\ <<s>> # <<>> /\ Range(<<s>>) = {s}
  BY <1>3, OneSeq
<1>12. ThreadType(t'[p])
  BY <1>4, <1>9, <1>11 DEF ThreadType, Pcs, InCall, Second
<1>13. ThreadShape(t'[p])
  BY <1>3, <1>4, <1>9, <1>11 DEF ThreadShape, InCall, Finds, Second, WithCur, WithPuts
<1>14. LockOf(p)'
  <2>1. \A x \in Slot : lock'[x] # p
    BY <1>3, NoLocks DEF Table
  <2> QED
    BY <1>4, <1>9, <2>1, NoLocksNext
<1>15. Counted(p)' = Counted(p)
  BY <1>3, <1>9 DEF Counted
<1>16. \A j \in Inum : inode'[j].type = inode[j].type
  BY <1>3, <1>6, <1>7 DEF Ip
<1>17. Knows(p)'
  <2>1. inum[t[p].ip] \in Inum /\ Ip(t[p].ip).type # "dir" /\ t[p].ip \in valid
    BY <1>3, <1>4, HolderRef DEF Knows, Kinds
  <2>2. inode'[inum'[t[p].ip]].type # "dir" /\ t[p].ip \in valid'
    BY <1>3, <1>16, <2>1 DEF Ip, Table
  <2> QED
    BY <1>9, <2>2 DEF Knows, Ip
<1>18. Busy(p) /\ HeldNext(p, "file") = HeldNow(p, "file") /\ HeldNext(p, "cwd") = HeldNow(p, "cwd")
  <2>1. t[p].pc \in InCall /\ t[p].pc # "moved"
    BY <1>3 DEF InCall, Second
  <2>2. t'[p].pc \in InCall \union {"end"} /\ t'[p].pc # "moved"
    BY <1>9 DEF InCall, Second
  <2>3. lock' \in [Slot -> Proc \union {None}] /\ valid \subseteq valid'
    BY <1>3, Ready DEF Table
  <2> QED
    BY <1>3, <1>8, <1>9, <1>12, <1>13, <1>14, <1>17, <2>1, <2>2, <2>3, BusyCall DEF Table
<1>19. \A k \in Kinds : HeldNext(p, k) = HeldNow(p, Swap("cur", "last")[k])
  <2>1. HeldNext(p, "last") = s /\ HeldNext(p, "first") = 0
    BY <1>4, <1>9, OnePut DEF HeldNext
  <2>2. HeldNext(p, "cur") = 0 /\ HeldNext(p, "ip") = t[p].ip
    BY <1>9 DEF HeldNext, Holding, WithCur, Finds, WithIp, Second
  <2> QED
    BY <1>3, <1>4, <1>18, <2>1, <2>2 DEF Swap, Kinds
<1>20. Swap("cur", "last") \in [Kinds -> Kinds] /\ \A k \in Kinds : Swap("cur", "last")[Swap("cur", "last")[k]] = k
  BY Swapping DEF Kinds
<1>21. \A q \in Proc : Counted(q)' = Counted(q) /\ (t'[q].pc = "unlinked" <=> t[q].pc = "unlinked")
  <2>1. t'[p].pc # "unlinked" /\ t[p].pc # "unlinked"
    BY <1>3, <1>9
  <2> QED
    BY <1>10, <1>15, <2>1 DEF Counted
<1>22. Written
  <2>1. inum' = inum
    BY <1>3 DEF Table
  <2> QED
    BY <1>3, <1>6, <1>7, <1>21, <2>1, BlocksWritten
<1>23. Writes(p, s)
  <2>1. \A j \in Inum \ {inum[s]} : inode'[j] = inode[j]
    BY <1>7
  <2>2. inode'[inum[s]] = n /\ Ip(s) = inode[inum[s]] /\ "cur" \in Kinds
    BY <1>3, <1>7 DEF Ip, Kinds
  <2> QED
    BY <1>3, <1>6, <2>1, <2>2 DEF Writes
<1>24. valid' \subseteq valid \union {x \in Slot : ref[x] > 0} /\ ref' = ref /\ inum' = inum
  BY <1>3 DEF Table
<1> QED
  BY <1>18, <1>19, <1>20, <1>22, <1>23, <1>24, BusyMove

(* link() makes the entry. *)
LEMMA LinkNewMade ==
  ASSUME IInv, NEW p \in Proc, LinkNew(p),
         Ip(t[p].cur).nlink # 0, DirLink(Ip(t[p].cur), used, t[p].name, inum[t[p].ip]).ok
  PROVE  IInv'
<1> DEFINE f == [k \in Kinds |-> IF k \in {"cur", "first"} THEN Swap("cur", "first")[k] ELSE Swap("ip", "last")[k]]
<1>1. PICK s : s = t[p].cur
  OBVIOUS
<1>2. PICK g : g = DirLink(Ip(s), used, t[p].name, inum[t[p].ip])
  OBVIOUS
<1>3. /\ s \in Slot /\ HeldNow(p, "cur") = s /\ ref[s] > 0 /\ inum[s] \in Inum
      /\ t[p].ip \in Slot /\ HeldNow(p, "ip") = t[p].ip /\ ref[t[p].ip] > 0
      /\ Counted(p) = t[p].ip /\ t[p].ip # 0
      /\ t[p].pc = "link_new" /\ t[p].puts = <<>> /\ saved' = saved /\ crashes' = crashes /\ Table
      /\ UNCHANGED <<user, active>> /\ valid' = valid \union {s} /\ Unlocked(s)
      /\ Grown(Ip(s), used, g)
      /\ g.ok => /\ Ip(s).dir[t[p].name] = 0 /\ g.ip.dir[t[p].name] = inum[t[p].ip]
                 /\ \A m \in Entry \ {t[p].name} : g.ip.dir[m] = Ip(s).dir[m]
      /\ Owned(Ip(s)) \subseteq used
  BY <1>1, <1>2, LinkNewDir
<1>4. /\ TypeOK /\ RefInv /\ TableInv /\ ThreadInv /\ ThreadType(t[p]) /\ ThreadShape(t[p])
      /\ t[p].put = "test" /\ HeldNow(p, "first") = 0 /\ HeldNow(p, "last") = 0 /\ LockOf(p) /\ Knows(p)
  BY <1>3, Ready DEF IInv
<1>5. PICK c \in Slot : c = t[p].ip
  BY <1>3
<1>6. PICK i \in Inum : i = inum[c]
  BY <1>3, <1>4, <1>5, HolderRef DEF Kinds
<1>7. /\ g.ok /\ Ip(s).nlink # 0 /\ Ip(s).dir[t[p].name] = 0 /\ g.ip.dir[t[p].name] = i
      /\ \A m \in Entry \ {t[p].name} : g.ip.dir[m] = Ip(s).dir[m]
  BY <1>1, <1>2, <1>3, <1>5, <1>6
<1>8. PICK d \in Live : d = inum[s] /\ inode[d] = Ip(s)
  <2>1. Ip(t[p].cur).type = "dir"
    BY <1>3, <1>4 DEF Knows
  <2> QED
    BY <1>1, <1>3, <1>7, <2>1, Entered DEF WithCur, Finds, Ip
<1>9. PICK n \in Name : n = t[p].name
  BY <1>4, <1>7, <1>8, DotsThere DEF ThreadType
<1>10. inode' = [inode EXCEPT ![d] = g.ip] /\ used' = g.used /\ inode \in [Inum -> Inode] /\ d \in Inum
  BY <1>1, <1>2, <1>3, <1>4, <1>7, <1>8, InodeTypes DEF LinkNew
<1>11. Go(p, [pc |-> "end", puts |-> <<s, c>>])
  BY <1>1, <1>2, <1>5, <1>7 DEF LinkNew, Quit
<1>12. /\ t'[p].pc = "end" /\ t'[p].puts = <<s, c>> /\ t'[p].call = t[p].call /\ t'[p].path = t[p].path
      /\ t'[p].cur = t[p].cur /\ t'[p].ip = t[p].ip /\ t'[p].name = t[p].name /\ t'[p].put = t[p].put
      /\ t'[p].inum = t[p].inum
  BY <1>4, <1>11, GoFields DEF Fields
<1>13. <<s, c>> \in Seq(Slot) /\ Len(<<s, c>>) <= 2 /\ <<s, c>> # <<>> /\ Range(<<s, c>>) = {s, c}
  <2>1. <<s, c>> \in Seq(Slot) /\ Len(<<s, c>>) = 2 /\ <<s, c>> # <<>> /\ Range(<<s, c>>) = {s, c}
    BY <1>3, PairSeq
  <2> QED
    BY <2>1
<1>14. ThreadType(t'[p])
  BY <1>4, <1>12, <1>13 DEF ThreadType, Pcs
<1>15. ThreadShape(t'[p])
  BY <1>4, <1>12, <1>13 DEF ThreadShape, InCall, Finds, Second, WithCur, WithPuts
<1>16. LockOf(p)'
  <2>1. \A x \in Slot : lock'[x] # p
    BY <1>3, NoLocks DEF Table
  <2> QED
    BY <1>4, <1>12, <2>1, NoLocksNext
<1>17. Knows(p)'
  BY <1>12 DEF Knows
<1>18. Busy(p) /\ HeldNext(p, "file") = HeldNow(p, "file") /\ HeldNext(p, "cwd") = HeldNow(p, "cwd")
  <2>1. t[p].pc \in InCall /\ t[p].pc # "moved"
    BY <1>3 DEF InCall, Second
  <2>2. t'[p].pc \in InCall \union {"end"} /\ t'[p].pc # "moved"
    BY <1>12 DEF InCall, Second
  <2>3. lock' \in [Slot -> Proc \union {None}] /\ valid \subseteq valid'
    BY <1>3, Ready DEF Table
  <2> QED
    BY <1>3, <1>11, <1>12, <1>14, <1>15, <1>16, <1>17, <2>1, <2>2, <2>3, BusyCall DEF Table
<1>19. \A k \in Kinds : HeldNext(p, k) = HeldNow(p, f[k])
  <2>1. HeldNext(p, "last") = c /\ HeldNext(p, "first") = s
    BY <1>4, <1>12, TwoPuts DEF HeldNext
  <2>2. HeldNext(p, "cur") = 0 /\ HeldNext(p, "ip") = 0
    BY <1>12 DEF HeldNext, Holding, WithCur, Finds, WithIp, Second
  <2> QED
    BY <1>3, <1>4, <1>5, <1>18, <2>1, <2>2 DEF Swap, Kinds
<1>20. f \in [Kinds -> Kinds] /\ \A k \in Kinds : f[f[k]] = k
  BY DEF Swap, Kinds
<1> HIDE DEF f
<1>21. /\ \A j \in Inum \ {d} : inode'[j] = inode[j]
       /\ inode'[d] = g.ip /\ inode'[d].type = inode[d].type /\ inode'[d].nlink = inode[d].nlink
       /\ inode' \in [Inum -> Inode] /\ used' \in SUBSET Block
  BY <1>3, <1>8, <1>10 DEF Grown
<1>22. /\ Linking[CallRec(p)] = i /\ inode[i].type # "free" /\ inode[i].nlink # 0
  <2>1. /\ Linking[CallRec(p)] = i /\ inode[i].type # "free"
        /\ inode[i].nlink \in 0..NLINK_MAX /\ inode[i].nlink - 1 \in 0..NLINK_MAX
    BY <1>3, <1>5, <1>6, CountedOne
  <2> QED
    BY <2>1, Sizes
<1>23. inode[i].type # "dir"
  BY <1>3, <1>4, <1>5, <1>6 DEF Knows, Ip
<1>24. Linking'[CallRec(p)] = 0
  BY <1>12, LinkingIs DEF Counted
<1>25. BlocksRight(inode', used')
  <2>1. PICK new : new = inode'
    OBVIOUS
  <2>2. BlocksRight(inode, used) /\ d \in Inum /\ \A j \in Inum \ {d} : new[j] = inode[j]
    BY <1>10, <1>21, <2>1 DEF IInv, BlockInv
  <2>3. used \subseteq g.used /\ Owned(new[d]) = Owned(inode[d]) \union (g.used \ used)
    BY <1>3, <1>8, <1>21, <2>1 DEF Grown
  <2>4. new[d].type # "free"
    BY <1>21, <2>1 DEF Live, Dirs
  <2>5. BlocksRight(new, g.used)
    BY <2>2, <2>3, <2>4, BlocksAdded
  <2> QED
    BY <1>10, <2>1, <2>5
<1>26. Written
  <2>1. Others(p) /\ \A x \in Slot : ref[x] > 0 => inum'[x] = inum[x]
    BY <1>3, <1>18 DEF Busy, Table
  <2>2. \A m \in Entry \ {n} : inode'[d].dir[m] = inode[d].dir[m]
    BY <1>7, <1>8, <1>9, <1>21
  <2>3. inode[d].dir[n] = 0 /\ inode'[d].dir[n] = i
    BY <1>7, <1>8, <1>9, <1>21
  <2>4. t[p].pc # "unlinked" /\ t'[p].pc # "unlinked"
    BY <1>3, <1>12
  <2> QED
    BY <1>21, <1>22, <1>23, <1>24, <1>25, <2>1, <2>2, <2>3, <2>4, EntryWritten
<1>27. Writes(p, s)
  <2>1. "cur" \in Kinds /\ inode'[inum[s]].nlink # 0 /\ inode'[inum[s]].type = inode[inum[s]].type
    BY <1>7, <1>8, <1>21 DEF Kinds
  <2> QED
    BY <1>3, <1>8, <1>21, <2>1 DEF Writes, Unlocked
<1>28. valid' \subseteq valid \union {x \in Slot : ref[x] > 0} /\ ref' = ref /\ inum' = inum
  BY <1>3 DEF Table
<1> QED
  BY <1>18, <1>19, <1>20, <1>26, <1>27, <1>28, BusyMove

(* The last step of link(). *)
LEMMA LinkNewStep ==
  ASSUME IInv, NEW p \in Proc, LinkNew(p)
  PROVE  IInv'
BY LinkNewFails, LinkNewMade

(* A directory that has one under it has two links. *)
LEMMA TwoLinks ==
  ASSUME IInv, NEW d \in Live, NEW i \in Live, i # d, i # ROOTINO, inode[i].dir[".."] = d
  PROVE  inode[d].nlink - 1 \in 0..NLINK_MAX /\ inode[d].nlink - 1 # 0 /\ inode[d].nlink \in 0..NLINK_MAX
<1>0. TypeOK /\ LinkInv /\ DirInv
  BY DEF IInv
<1>1. Live \subseteq Inum /\ d \in Inum /\ i \in Inum
  BY DEF Live, Dirs
<1>2. PICK e \in Live, m \in Entry \ {"."} : inode[e].dir[m] = d /\ (m # ".." \/ e # i)
  <2>1. CASE d = ROOTINO
    <3>1. inode[d].dir[".."] = d /\ ".." \in Entry \ {"."}
      BY <1>0, <2>1, EntryNames DEF DirInv
    <3> QED
      BY <3>1
  <2>2. CASE d # ROOTINO
    <3>1. PICK n \in Name : /\ inode[d].dir[".."] \in Live
                            /\ \A k \in Name : inode[inode[d].dir[".."]].dir[k] = d <=> k = n
      BY <1>0, <2>2 DEF DirInv
    <3>2. inode[inode[d].dir[".."]].dir[n] = d /\ n \in Entry \ {"."} /\ n # ".."
      BY <3>1, EntryNames, Sizes
    <3> QED
      BY <3>1, <3>2
  <2> QED
    BY <2>1, <2>2
<1>3. PICK k \in Links0 : k = Rec(e, m) /\ Linking[k] = d
  BY <1>1, <1>2, LinkingIs
<1>4. PICK l \in Links0 : l = Rec(i, "..") /\ Linking[l] = d
  BY <1>1, EntryNames, LinkingIs
<1>5. k # l
  BY <1>1, <1>2, <1>3, <1>4, EntryNames, LinkingIs
<1>6. IsFiniteSet({x \in Links0 : Linking[x] = d})
  BY LinksFinite, FS_Subset
<1>7. {k, l} \subseteq {x \in Links0 : Linking[x] = d}
  BY <1>3, <1>4
<1>8. Cardinality({k, l}) <= Cardinality({x \in Links0 : Linking[x] = d})
  BY <1>6, <1>7, FS_Subset
<1>9. Cardinality({k, l}) = 2
  <2>1. IsFiniteSet({k}) /\ Cardinality({k}) = 1
    BY FS_Singleton
  <2>2. Cardinality({k} \union {l}) = Cardinality({k}) + 1
    BY <1>5, <2>1, FS_AddElement
  <2>3. {k, l} = {k} \union {l}
    OBVIOUS
  <2> QED
    BY <2>1, <2>2, <2>3
<1>10. inode[d].nlink >= 2
  BY <1>0, <1>1, <1>8, <1>9 DEF LinkInv
<1>11. inode[d].nlink \in 0..NLINK_MAX
  BY <1>0, <1>1, InodeTypes
<1> QED
  BY <1>10, <1>11, Sizes

(* A directory loses its entry, and is going. *)
LEMMA DirUnlinked ==
  ASSUME IInv, NEW p \in Proc, Others(p), \A s \in Slot : ref[s] > 0 => inum'[s] = inum[s],
         NEW d \in Live, NEW n \in Name, NEW i \in Inum, inode[d].dir[n] = i, inode[i].type = "dir",
         IsDirEmpty(inode[i]),
         inode' \in [Inum -> Inode], \A j \in Inum \ {d} : inode'[j] = inode[j],
         inode'[d].type = inode[d].type, inode'[d].nlink = inode[d].nlink - 1,
         Owned(inode'[d]) = Owned(inode[d]), used' = used,
         \A m \in Entry \ {n} : inode'[d].dir[m] = inode[d].dir[m], inode'[d].dir[n] = 0,
         t[p].pc # "unlinked", t'[p].pc = "unlinked", Counted(p) = 0,
         t'[p].ip # 0, inum'[t'[p].ip] = i
  PROVE  Written /\ inode'[d].nlink # 0
<1>0. TypeOK /\ LinkInv /\ EntryInv /\ DirInv
  BY DEF IInv
<1>1. /\ inode \in [Inum -> Inode]
      /\ \A e \in Inum, m \in Entry : inode[e].dir[m] = 0 \/ inode[e].dir[m] \in Inum
  BY <1>0, InodeTypes
<1>2. /\ Live \subseteq Dirs(inode) /\ Dirs(inode) \subseteq Inum /\ n \in Entry \ {"."} /\ n # ".."
      /\ ".." \in Entry \ {"."} /\ Name \subseteq Entry
  BY EntryNames, Sizes DEF Live, Dirs
<1>3. i \in Live
  <2>1. inode[d].dir[n] # 0 => Linked(inode, inode[d].dir[n]) /\ inode[d].dir[n] \notin Dying
    BY <1>0, <1>2 DEF EntryInv
  <2> QED
    BY <2>1, Numbers DEF Live, Dirs
<1>4. i # ROOTINO /\ inode[i].dir[".."] = d
  <2>1. inode[d].dir[n] \in Dirs(inode) =>
          inode[d].dir[n] # ROOTINO /\ inode[inode[d].dir[n]].dir[".."] = d
    BY <1>0 DEF DirInv
  <2> QED
    BY <1>2, <1>3, <2>1
<1>5. \A m \in Name : inode[i].dir[m] = 0
  BY <1>2, Sizes DEF IsDirEmpty, Entries
<1>6. i # d
  BY <1>5, Numbers
<1>7. inode'[d].nlink \in 0..NLINK_MAX /\ inode'[d].nlink # 0 /\ inode[d].nlink \in 0..NLINK_MAX
  BY <1>3, <1>4, <1>6, TwoLinks
<1>8. \A j \in Inum : inode'[j].type = inode[j].type
  OBVIOUS
<1>9. \A j \in Inum : j \in Dying' <=> j \in Dying \/ j = i
  <2>1. /\ \A j \in Inum : j \in Dying <=> j \in Doomed(p) \/ (inode[j].type = "dir" /\ t[p].pc = "unlinked" /\ inum[t[p].ip] = j)
        /\ \A j \in Inum : j \in Dying' <=> j \in Doomed(p) \/ (inode[j].type = "dir" /\ t'[p].pc = "unlinked" /\ inum'[t'[p].ip] = j)
    BY <1>8, DyingIs
  <2> QED
    BY <2>1
<1>10. Dirs(inode)' = Dirs(inode)
  <2>1. \A j \in Inum : inode'[j].type = inode[j].type /\ (inode'[j].nlink > 0 <=> inode[j].nlink > 0)
    <3>1. inode'[d].nlink > 0 /\ inode[d].nlink > 0
      BY <1>7, Sizes
    <3> QED
      BY <3>1
  <2> QED
    BY <2>1 DEF Dirs, Linked
<1>11. Live' = Live \ {i}
  BY <1>2, <1>9, <1>10 DEF Live
<1>12. \A e \in Inum, m \in Entry : inode'[e].dir[m] = inode[e].dir[m] \/ (e = d /\ m = n)
  OBVIOUS
<1>13. \A k \in Links0 \ {Rec(d, n), CallRec(p), Rec(i, "..")} : Linking'[k] = Linking[k]
  <2> SUFFICES ASSUME NEW k \in Links0 \ {Rec(d, n), CallRec(p), Rec(i, "..")}
               PROVE  Linking'[k] = Linking[k]
    OBVIOUS
  <2>1. CASE \E e \in Inum, m \in Entry \ {"."} : k = Rec(e, m)
    <3>1. PICK e \in Inum, m \in Entry \ {"."} : k = Rec(e, m)
      BY <2>1
    <3>2. CASE e = i
      <4>1. m \in Name
        BY <3>1, <3>2, EntryNames
      <4>2. Linking[k] = 0
        BY <1>3, <1>5, <3>1, <3>2, <4>1, LinkingIs
      <4>3. Linking'[k] = 0
        BY <1>11, <3>1, <3>2, LinkingIs
      <4> QED
        BY <4>2, <4>3
    <3>3. CASE e # i
      <4>1. inode'[e].dir[m] = inode[e].dir[m]
        BY <1>12, <3>1
      <4>2. e \in Live' <=> e \in Live
        BY <1>11, <3>3
      <4> QED
        BY <3>1, <4>1, <4>2, LinkingIs
    <3> QED
      BY <3>2, <3>3
  <2>2. CASE \E q \in Proc : k = CallRec(q)
    BY <2>2, OtherCalls
  <2> QED
    BY <2>1, <2>2, LinkingIs
<1>14. /\ Rec(d, n) \in Links0 /\ CallRec(p) \in Links0 /\ Rec(i, "..") \in Links0
       /\ Rec(d, n) # CallRec(p) /\ Rec(i, "..") # CallRec(p)
  BY <1>2, <1>3, LinkingIs
<1>15. Rec(i, "..") # Rec(d, n)
  BY <1>2, <1>3, <1>6, LinkingIs
<1>16. Linking[Rec(d, n)] = i /\ Linking'[Rec(d, n)] = 0
  <2>1. d \in Live' /\ d \in Inum
    BY <1>2, <1>6, <1>11
  <2> QED
    BY <1>2, <2>1, LinkingIs
<1>17. Linking[Rec(i, "..")] = d /\ Linking'[Rec(i, "..")] = 0
  <2>1. i \in Live /\ i \notin Live'
    BY <1>3, <1>11
  <2> QED
    BY <1>2, <1>4, <2>1, LinkingIs
<1>18. Linking[CallRec(p)] = 0 /\ Linking'[CallRec(p)] = i
  <2>1. Counted(p)' = t'[p].ip
    BY DEF Counted
  <2> QED
    BY <2>1, LinkingIs
<1>19. LinkInv'
  <2>1. PICK H, G : H = Linking /\ G = Linking'
    OBVIOUS
  <2>2. PICK k \in Links0, m \in Links0, l \in Links0 : k = Rec(d, n) /\ m = CallRec(p) /\ l = Rec(i, "..")
    BY <1>14
  <2>3. /\ k # m /\ l \notin {k, m} /\ \A j \in Links0 \ {k, m, l} : G[j] = H[j]
        /\ H[k] = i /\ G[k] = 0 /\ H[m] = 0 /\ G[m] = i /\ H[l] = d /\ G[l] = 0
    BY <1>13, <1>14, <1>15, <1>16, <1>17, <1>18, <2>1, <2>2
  <2>4. \A j \in Inum : /\ Count(H, Links0, j) \in Nat
                        /\ Count(G, Links0, j) = After(After(After(Count(H, Links0, j), H[k], G[k], j), H[m], G[m], j), H[l], G[l], j)
    <3>1. k # m /\ l \notin {k, m}
      BY <2>3
    <3>2. \A j \in Links0 \ {k, m, l} : G[j] = H[j]
      BY <2>3
    <3> QED
      BY <3>1, <3>2, ThreeChange, LinksFinite
  <2>5. \A j \in Inum : j # 0 /\ Count(H, Links0, j) = inode[j].nlink
    BY <1>0, <2>1, LinkInvIs, Numbers
  <2>6. \A j \in Inum : Count(G, Links0, j) = IF j = d THEN inode[j].nlink - 1 ELSE inode[j].nlink
    BY <1>6, <2>3, <2>4, <2>5 DEF After, One
  <2>7. \A j \in Inum : inode'[j].nlink = Count(Linking', Links0, j)
    BY <2>1, <2>6
  <2> QED
    BY <2>7, LinkInvIs
<1>20. EntryInv'
  <2> SUFFICES ASSUME NEW e \in Live, e # i, NEW m \in Entry, inode'[e].dir[m] # 0
               PROVE  /\ inode'[inode'[e].dir[m]].type # "free" /\ inode'[inode'[e].dir[m]].nlink > 0
                      /\ inode'[e].dir[m] \notin Dying'
    BY <1>11 DEF EntryInv, Linked
  <2>0. ~(e = d /\ m = n)
    OBVIOUS
  <2>1. PICK j \in Inum : j = inode[e].dir[m] /\ j = inode'[e].dir[m]
    BY <1>1, <1>2, <1>12, <2>0
  <2>2. Linked(inode, j) /\ j \notin Dying
    <3>1. inode[e].dir[m] # 0 => Linked(inode, inode[e].dir[m]) /\ inode[e].dir[m] \notin Dying
      BY <1>0 DEF EntryInv
    <3> QED
      BY <2>1, <3>1, Numbers
  <2>3. j # i
    <3> SUFFICES ASSUME j = i
                 PROVE  FALSE
      OBVIOUS
    <3>1. CASE m = "."
      BY <1>0, <2>1, <3>1 DEF DirInv
    <3>2. CASE m = ".."
      <4>1. e # ROOTINO
        BY <1>0, <1>4, <2>1, <3>2 DEF DirInv
      <4>2. PICK x \in Name : /\ inode[e].dir[".."] \in Live
                              /\ \A k \in Name : inode[inode[e].dir[".."]].dir[k] = e <=> k = x
        BY <1>0, <4>1 DEF DirInv
      <4>3. inode[i].dir[x] = e
        BY <2>1, <3>2, <4>2
      <4> QED
        BY <1>2, <1>5, <4>3, Numbers
    <3>3. CASE m \in Name
      <4>1. inode[e].dir[m] \in Dirs(inode) =>
              inode[e].dir[m] # ROOTINO /\ inode[inode[e].dir[m]].dir[".."] = e
        BY <1>0, <3>3 DEF DirInv
      <4>2. e = d
        BY <1>2, <1>3, <1>4, <2>1, <4>1
      <4>3. PICK x \in Name : /\ inode[i].dir[".."] \in Live
                              /\ \A k \in Name : inode[inode[i].dir[".."]].dir[k] = i <=> k = x
        BY <1>0, <1>3, <1>4 DEF DirInv
      <4>4. m = x /\ n = x
        BY <1>4, <2>1, <3>3, <4>2, <4>3
      <4> QED
        BY <2>0, <4>2, <4>4
    <3> QED
      BY <3>1, <3>2, <3>3, EntryNames
  <2>4. inode'[j].nlink > 0
    <3>1. CASE j = d
      BY <1>7, <3>1, Sizes
    <3>2. CASE j # d
      BY <2>2, <3>2 DEF Linked
    <3> QED
      BY <3>1, <3>2
  <2> QED
    BY <1>8, <1>9, <2>1, <2>2, <2>3, <2>4 DEF Linked
<1>21. \A e \in Live : \A m \in {".", ".."} : inode'[e].dir[m] = inode[e].dir[m]
  BY <1>2, <1>12, EntryNames
<1>22. DirInv'
  <2>1. (\A e \in Live : \A m \in Name : inode[e].dir[m] \in Dirs(inode) =>
          inode[e].dir[m] # ROOTINO /\ inode[inode[e].dir[m]].dir[".."] = e)'
    <3> SUFFICES ASSUME NEW e \in Live, NEW m \in Name, inode'[e].dir[m] \in Dirs(inode)
                 PROVE  inode'[e].dir[m] # ROOTINO /\ inode'[inode'[e].dir[m]].dir[".."] = e
      BY <1>10, <1>11
    <3>1. ~(e = d /\ m = n)
      BY Numbers DEF Dirs
    <3>2. PICK j \in Inum : j = inode[e].dir[m] /\ j = inode'[e].dir[m] /\ j \in Dirs(inode)
      BY <1>2, <1>12, <3>1, EntryNames
    <3>3. j # ROOTINO /\ inode[j].dir[".."] = e
      <4>1. inode[e].dir[m] \in Dirs(inode) => inode[e].dir[m] # ROOTINO /\ inode[inode[e].dir[m]].dir[".."] = e
        BY <1>0 DEF DirInv
      <4> QED
        BY <3>2, <4>1
    <3>4. inode'[j].dir[".."] = inode[j].dir[".."]
      BY <1>2, <1>12, EntryNames
    <3> QED
      BY <3>2, <3>3, <3>4
  <2>2. (\A e \in Live \ {ROOTINO} : \E x \in Name :
           /\ inode[e].dir[".."] \in Live
           /\ \A m \in Name : inode[inode[e].dir[".."]].dir[m] = e <=> m = x)'
    <3> SUFFICES ASSUME NEW e \in Live \ {ROOTINO}, e # i
                 PROVE  \E x \in Name : /\ inode'[e].dir[".."] \in Live'
                                        /\ \A m \in Name : inode'[inode'[e].dir[".."]].dir[m] = e <=> m = x
      BY <1>11
    <3>1. PICK x \in Name : /\ inode[e].dir[".."] \in Live
                            /\ \A m \in Name : inode[inode[e].dir[".."]].dir[m] = e <=> m = x
      BY <1>0 DEF DirInv
    <3>2. PICK f \in Live : f = inode[e].dir[".."]
      BY <3>1
    <3>3. inode'[e].dir[".."] = f
      BY <1>21, <3>2
    <3>4. e # 0 /\ e \in Inum
      BY <1>2, Numbers DEF Dirs
    <3>5. \A m \in Name : inode'[f].dir[m] = e <=> inode[f].dir[m] = e
      BY <1>2, <1>12, <3>4
    <3>6. \A m \in Name : inode'[f].dir[m] = e <=> m = x
      BY <3>1, <3>2, <3>5
    <3>7. f # i
      BY <1>5, <3>1, <3>2, <3>4
    <3> QED
      BY <1>11, <3>3, <3>6, <3>7
  <2>3. (\A j \in Inum : inode[j].type = "dir" /\ (inode[j].nlink = 0 \/ j \in Dying) => IsDirEmpty(inode[j]))'
    <3> SUFFICES ASSUME NEW j \in Inum, inode'[j].type = "dir", inode'[j].nlink = 0 \/ j \in Dying'
                 PROVE  IsDirEmpty(inode'[j])
      BY DEF IsDirEmpty, Entries
    <3>1. j # d
      <4>1. d \notin Dying /\ d \in Inum
        BY <1>2 DEF Live
      <4> QED
        BY <1>6, <1>7, <1>9, <4>1
    <3>2. inode'[j] = inode[j]
      BY <3>1
    <3>3. CASE j = i
      BY <3>2, <3>3
    <3>4. CASE j # i
      <4>1. j \in Dying' => j \in Dying
        BY <1>9, <3>4
      <4> QED
        BY <1>0, <3>2, <4>1 DEF DirInv
    <3> QED
      BY <3>3, <3>4
  <2>4. (\A j \in Inum : inode[j].type # "dir" => Entries(inode[j]) = {})'
    <3> SUFFICES ASSUME NEW j \in Inum, inode'[j].type # "dir"
                 PROVE  Entries(inode'[j]) = {}
      BY DEF Entries
    <3>1. j # d
      BY <1>2, <1>8 DEF Dirs
    <3> QED
      BY <1>0, <3>1 DEF DirInv
  <2>5. (ROOTINO \in Live /\ inode[ROOTINO].dir[".."] = ROOTINO /\ \A e \in Live : inode[e].dir["."] = e)'
    <3>1. ROOTINO \in Live /\ inode[ROOTINO].dir[".."] = ROOTINO /\ \A e \in Live : inode[e].dir["."] = e
      BY <1>0 DEF DirInv
    <3>2. \A e \in Live : inode'[e].dir["."] = e
      BY <1>21, <3>1
    <3>3. inode'[ROOTINO].dir[".."] = ROOTINO
      BY <1>21, <3>1
    <3> QED
      BY <1>4, <1>11, <3>1, <3>2, <3>3
  <2> QED
    BY <2>1, <2>2, <2>3, <2>4, <2>5 DEF DirInv
<1>23. BlockInv'
  <2>1. PICK new : new = inode'
    OBVIOUS
  <2>2. \A j \in Inum : new[j].type = inode[j].type /\ Owned(new[j]) = Owned(inode[j])
    BY <2>1
  <2>3. UNION {Owned(new[j]) : j \in Inum} = UNION {Owned(inode[j]) : j \in Inum}
    BY <2>2
  <2>4. BlocksRight(inode, used)
    BY DEF IInv, BlockInv
  <2>5. BlocksRight(new, used)
    BY <2>2, <2>3, <2>4 DEF BlocksRight
  <2> QED
    BY <2>1, <2>5 DEF BlockInv, BlocksRight, Owned
<1>24. [inode |-> inode', used |-> used'] \in Image
  BY <1>0, InodeTypes DEF Image
<1> QED
  BY <1>7, <1>19, <1>20, <1>22, <1>23, <1>24 DEF Written

(* unlink() takes the entry out. *)
LEMMA UnlinkChildDone ==
  ASSUME IInv, NEW p \in Proc, UnlinkChild(p), ~(Ip(t[p].ip).type = "dir" /\ ~IsDirEmpty(Ip(t[p].ip)))
  PROVE  IInv'
<1>1. PICK d, s : d = t[p].cur /\ s = t[p].ip
  OBVIOUS
<1>2. /\ t[p].pc = "unlink_child" /\ t[p].puts = <<>> /\ saved' = saved /\ crashes' = crashes /\ used' = used
      /\ ref' = ref /\ inum' = inum /\ UNCHANGED <<user, active>>
      /\ valid' = valid \union {s} /\ Unlocked(s) /\ Locks(p, {s, d})
      /\ Go(p, [pc |-> "unlinked", puts |-> <<d>>])
      /\ inode' = [inode EXCEPT ![inum[d]] =
           [Ip(d) EXCEPT !.dir[t[p].name] = 0, !.nlink = IF Ip(s).type = "dir" THEN @ - 1 ELSE @]]
  BY <1>1 DEF UnlinkChild, At, ReadIn
<1>3. /\ TypeOK /\ RefInv /\ TableInv /\ ThreadInv /\ ThreadType(t[p]) /\ ThreadShape(t[p])
      /\ t[p].put = "test" /\ HeldNow(p, "first") = 0 /\ HeldNow(p, "last") = 0 /\ LockOf(p) /\ Knows(p)
      /\ DirInv /\ EntryInv /\ lock \in [Slot -> Proc \union {None}]
  BY <1>2, Ready DEF IInv
<1>4. d \in Slot /\ HeldNow(p, "cur") = d /\ ref[d] > 0 /\ inum[d] \in Inum /\ "cur" \in Kinds
  BY <1>1, <1>2, <1>3, CurHeld, HolderRef DEF WithCur, Finds
<1>5. s \in Slot /\ HeldNow(p, "ip") = s /\ ref[s] > 0 /\ inum[s] \in Inum
  BY <1>1, <1>2, <1>3, IpHeld, HolderRef DEF Second
<1>6. PICK n \in Name : n = t[p].name
  BY <1>2, <1>3 DEF ThreadShape
<1>7. PICK dd \in Inum, i \in Inum : dd = inum[d] /\ i = inum[s]
  BY <1>4, <1>5
<1>8. inode[dd].type = "dir" /\ inode[dd].dir[n] = i
  BY <1>1, <1>2, <1>3, <1>6, <1>7 DEF Knows, Ip
<1>9. lock[d] = p /\ s # d /\ \A x \in Slot : lock[x] = p => x = d
  <2>1. lock[d] = p
    BY <1>1, <1>2, <1>3 DEF LockOf
  <2>2. s # d
    BY <1>2, <2>1, Sizes DEF Unlocked
  <2>3. MayLock(p) = {x \in {d} : t[p].pc = "unlink_child"}
    BY <1>1, <1>2, Ready DEF Locking
  <2> QED
    BY <1>3, <2>1, <2>2, <2>3 DEF LockOf
<1>10. dd # i
  BY <1>3, <1>4, <1>5, <1>7, <1>9 DEF TableInv
<1>11. dd \in Live
  <2>1. ~ IsDirEmpty(inode[dd])
    BY <1>6, <1>8, EntryNames, Numbers, Sizes DEF IsDirEmpty, Entries
  <2>2. inode[dd].nlink # 0 /\ dd \notin Dying
    BY <1>3, <1>8, <2>1 DEF DirInv
  <2>3. inode[dd].nlink > 0
    BY <1>3, <2>2, InodeTypes, Sizes
  <2> QED
    BY <1>8, <2>2, <2>3 DEF Live, Dirs, Linked
<1>12. Linked(inode, i) /\ i \notin Dying
  <2>1. inode[dd].dir[n] # 0 => Linked(inode, inode[dd].dir[n]) /\ inode[dd].dir[n] \notin Dying
    BY <1>3, <1>11, EntryNames DEF EntryInv
  <2> QED
    BY <1>8, <2>1, Numbers
<1>13. inode[i].type = "dir" => inode[dd].nlink - 1 \in 0..NLINK_MAX
  <2> SUFFICES ASSUME inode[i].type = "dir"
               PROVE  inode[dd].nlink - 1 \in 0..NLINK_MAX
    OBVIOUS
  <2>1. i \in Live
    BY <1>12 DEF Live, Dirs
  <2>2. i # ROOTINO /\ inode[i].dir[".."] = dd
    <3>1. inode[dd].dir[n] \in Dirs(inode) =>
            inode[dd].dir[n] # ROOTINO /\ inode[inode[dd].dir[n]].dir[".."] = dd
      BY <1>3, <1>11 DEF DirInv
    <3> QED
      BY <1>8, <2>1, <3>1 DEF Live
  <2> QED
    BY <1>10, <1>11, <2>1, <2>2, TwoLinks
<1>14. PICK l \in 0..NLINK_MAX : l = IF inode[i].type = "dir" THEN inode[dd].nlink - 1 ELSE inode[dd].nlink
  BY <1>3, <1>13, InodeTypes
<1>15. inode \in [Inum -> Inode] /\ inode[dd] \in Inode
  BY <1>3, InodeTypes
<1>16. PICK e \in [Entry -> 0..NINODES] : e = [inode[dd].dir EXCEPT ![n] = 0]
  <2>1. inode[dd].dir \in [Entry -> 0..NINODES]
    BY <1>15, InodeFields
  <2> QED
    BY <2>1, Numbers
<1>17. PICK m : m = [inode[dd] EXCEPT !.dir = e, !.nlink = l]
  OBVIOUS
<1>18. m \in Inode /\ m.type = inode[dd].type /\ m.nlink = l /\ m.dir = e /\ Owned(m) = Owned(inode[dd])
  <2>1. inode[dd] \in [type : {"free", "file", "dir", "device"}, nlink : 0..NLINK_MAX,
          data : SUBSET Block, ind : SUBSET Block, dir : [Entry -> 0..NINODES]]
    BY <1>15 DEF Inode
  <2> QED
    BY <1>17, <2>1 DEF Inode, Owned
<1>19. inode' = [inode EXCEPT ![dd] = m]
  <2>1. inode[dd] \in [type : {"free", "file", "dir", "device"}, nlink : 0..NLINK_MAX,
          data : SUBSET Block, ind : SUBSET Block, dir : [Entry -> 0..NINODES]]
    BY <1>15 DEF Inode
  <2>2. [inode[dd] EXCEPT !.dir[n] = 0, !.nlink = IF inode[i].type = "dir" THEN @ - 1 ELSE @] = m
    BY <1>14, <1>16, <1>17, <2>1
  <2> QED
    BY <1>2, <1>6, <1>7, <2>2 DEF Ip
<1>20. /\ inode' \in [Inum -> Inode] /\ inode'[dd] = m /\ \A j \in Inum \ {dd} : inode'[j] = inode[j]
       /\ e[n] = 0 /\ \A k \in Entry \ {n} : e[k] = inode[dd].dir[k]
  <2>1. inode[dd].dir \in [Entry -> 0..NINODES] /\ n \in Entry
    BY <1>15, InodeFields, EntryNames
  <2>2. e[n] = 0 /\ \A k \in Entry \ {n} : e[k] = inode[dd].dir[k]
    BY <1>16, <2>1
  <2> QED
    BY <1>15, <1>18, <1>19, <2>2
<1>21. /\ t'[p].pc = "unlinked" /\ t'[p].puts = <<d>> /\ t'[p].call = t[p].call /\ t'[p].path = t[p].path
       /\ t'[p].cur = d /\ t'[p].ip = s /\ t'[p].name = t[p].name /\ t'[p].put = t[p].put
       /\ t'[p].inum = t[p].inum
  BY <1>1, <1>2, <1>3, GoFields DEF Fields
<1>22. <<d>> \in Seq(Slot) /\ Len(<<d>>) <= 2 /\ Len(<<d>>) # 2 /\ <<d>> # <<>> /\ Range(<<d>>) = {d}
  BY <1>4, OneSeq
<1>23. ThreadType(t'[p])
  BY <1>1, <1>3, <1>21, <1>22 DEF ThreadType, Pcs, InCall, Second
<1>24. ThreadShape(t'[p])
  BY <1>1, <1>2, <1>3, <1>21, <1>22 DEF ThreadShape, InCall, Finds, Second, WithCur, WithPuts
<1>25. /\ lock' \in [Slot -> Proc \union {None}]
       /\ \A x \in Slot : lock'[x] # lock[x] => lock[x] \in {None, p} /\ lock'[x] \in {None, p}
       /\ \A x \in Slot : lock'[x] = p <=> x \in {s, d}
  <2>1. {s, d} \in SUBSET Slot /\ \A x \in {s, d} : lock[x] \in {None, p}
    BY <1>2, <1>4, <1>5, <1>9 DEF Unlocked
  <2> QED
    BY <1>2, <2>1, LocksTaken
<1>26. LockOf(p)'
  <2>1. \A x \in Slot : lock'[x] = p => x \in MayLock(p)'
    BY <1>21, <1>22, <1>25 DEF MayLock, Locking
  <2>2. lock'[s] = p /\ s \notin Range(<<d>>)
    BY <1>5, <1>9, <1>22, <1>25
  <2> QED
    BY <1>3, <1>21, <2>1, <2>2 DEF LockOf
<1>27. Knows(p)'
  BY <1>2, <1>21 DEF Knows
<1>28. Busy(p) /\ HeldNext(p, "file") = HeldNow(p, "file") /\ HeldNext(p, "cwd") = HeldNow(p, "cwd")
  <2>1. t[p].pc \in InCall /\ t[p].pc # "moved"
    BY <1>2 DEF InCall, Second
  <2>2. t'[p].pc \in InCall \union {"end"} /\ t'[p].pc # "moved"
    BY <1>21 DEF InCall, Second
  <2>3. valid \subseteq valid'
    BY <1>2
  <2> QED
    BY <1>2, <1>21, <1>23, <1>24, <1>25, <1>26, <1>27, <2>1, <2>2, <2>3, BusyCall
<1>29. \A k \in Kinds : HeldNext(p, k) = HeldNow(p, Swap("cur", "last")[k])
  <2>1. HeldNext(p, "last") = d /\ HeldNext(p, "first") = 0
    BY <1>3, <1>21, OnePut DEF HeldNext
  <2>2. HeldNext(p, "cur") = 0 /\ HeldNext(p, "ip") = s
    BY <1>21 DEF HeldNext, Holding, WithCur, Finds, WithIp, Second
  <2> QED
    BY <1>3, <1>4, <1>5, <1>28, <2>1, <2>2 DEF Swap, Kinds
<1>30. Swap("cur", "last") \in [Kinds -> Kinds] /\ \A k \in Kinds : Swap("cur", "last")[Swap("cur", "last")[k]] = k
  BY Swapping DEF Kinds
<1>31. Others(p) /\ \A x \in Slot : ref[x] > 0 => inum'[x] = inum[x]
  BY <1>2, <1>28 DEF Busy
<1>32. /\ Counted(p) = 0 /\ Counted(p)' = s /\ s # 0 /\ inum'[s] = i
       /\ Linking[CallRec(p)] = 0 /\ Linking'[CallRec(p)] = i
  <2>1. Counted(p) = 0 /\ Counted(p)' = s
    BY <1>2, <1>21 DEF Counted
  <2>2. s # 0 /\ inum'[s] = i
    BY <1>2, <1>5, <1>7, Numbers
  <2> QED
    BY <2>1, <2>2, LinkingIs
<1>33. inode'[dd].type = inode[dd].type /\ inode'[dd].nlink = l /\ Owned(inode'[dd]) = Owned(inode[dd])
       /\ inode'[dd].dir[n] = 0 /\ \A k \in Entry \ {n} : inode'[dd].dir[k] = inode[dd].dir[k]
  BY <1>18, <1>20
<1>34. Written /\ inode'[dd].nlink # 0
  <2>1. CASE inode[i].type = "dir"
    <3>1. IsDirEmpty(inode[i])
      BY <1>1, <1>7, <2>1 DEF Ip
    <3>2. inode'[dd].nlink = inode[dd].nlink - 1
      BY <1>14, <1>33, <2>1
    <3>3. t[p].pc # "unlinked" /\ t'[p].pc = "unlinked" /\ t'[p].ip # 0 /\ inum'[t'[p].ip] = i
      BY <1>2, <1>21, <1>32
    <3> QED
      BY <1>2, <1>8, <1>11, <1>20, <1>31, <1>32, <1>33, <2>1, <3>1, <3>2, <3>3, DirUnlinked
  <2>2. CASE inode[i].type # "dir"
    <3>1. inode'[dd].nlink = inode[dd].nlink /\ inode[i].type \notin {"dir", "free"} /\ inode[i].nlink # 0
      BY <1>12, <1>14, <1>33, <2>2, Sizes DEF Linked
    <3>2. t[p].pc # "unlinked" /\ inum'[t'[p].ip] = i
      BY <1>2, <1>21, <1>32
    <3>3. BlocksRight(inode', used')
      <4>1. PICK new : new = inode'
        OBVIOUS
      <4>2. \A j \in Inum : new[j].type = inode[j].type /\ Owned(new[j]) = Owned(inode[j])
        BY <1>20, <1>33, <4>1
      <4>3. UNION {Owned(new[j]) : j \in Inum} = UNION {Owned(inode[j]) : j \in Inum}
        BY <4>2
      <4>4. BlocksRight(inode, used)
        BY DEF IInv, BlockInv
      <4>5. BlocksRight(new, used)
        BY <4>2, <4>3, <4>4 DEF BlocksRight
      <4> QED
        BY <1>2, <4>1, <4>5
    <3>4. Written
      <4>1. used' \in SUBSET Block /\ inode[dd].dir[n] \in {0, i} /\ inode'[dd].dir[n] \in {0, i}
        BY <1>2, <1>3, <1>8, <1>33, InodeTypes
      <4>2. Linking[CallRec(p)] = inode'[dd].dir[n] /\ Linking'[CallRec(p)] = inode[dd].dir[n]
        BY <1>8, <1>32, <1>33
      <4> QED
        BY <1>11, <1>20, <1>31, <1>33, <2>2, <3>1, <3>2, <3>3, <4>1, <4>2, EntryWritten
    <3>5. inode[dd].nlink # 0
      BY <1>11, Sizes DEF Live, Dirs, Linked
    <3> QED
      BY <3>1, <3>4, <3>5
  <2> QED
    BY <2>1, <2>2
<1>35. Writes(p, d)
  BY <1>4, <1>7, <1>9, <1>20, <1>33, <1>34 DEF Writes
<1>36. valid' \subseteq valid \union {x \in Slot : ref[x] > 0}
  BY <1>2, <1>5
<1> QED
  BY <1>2, <1>28, <1>29, <1>30, <1>34, <1>35, <1>36, BusyMove

(* The second step of unlink(). *)
LEMMA UnlinkChildStep ==
  ASSUME IInv, NEW p \in Proc, UnlinkChild(p)
  PROVE  IInv'
BY UnlinkRefused, UnlinkChildDone

-----------------------------------------------------------------------------
(* What create() makes.                                                    *)

(* Blocks are got twice. *)
LEMMA GrownTwice ==
  ASSUME NEW ip, NEW u, NEW g, Grown(ip, u, g), NEW h, Grown(g.ip, g.used, h)
  PROVE  Grown(ip, u, h)
<1>1. /\ u \subseteq g.used /\ Owned(g.ip) = Owned(ip) \union (g.used \ u)
      /\ g.ip.type = ip.type /\ g.ip.nlink = ip.nlink
  BY DEF Grown
<1>2. /\ h = [ip |-> h.ip, used |-> h.used, ok |-> h.ok]
      /\ h.ip \in Inode /\ h.used \in SUBSET Block /\ h.ok \in BOOLEAN
      /\ g.used \subseteq h.used /\ Owned(h.ip) = Owned(g.ip) \union (h.used \ g.used)
      /\ h.ip.type = g.ip.type /\ h.ip.nlink = g.ip.nlink
  BY DEF Grown
<1>3. u \subseteq h.used /\ Owned(h.ip) = Owned(ip) \union (h.used \ u)
  BY <1>1, <1>2
<1> QED
  BY <1>1, <1>2, <1>3 DEF Grown

(* An inode that ialloc() has just returned. *)
LEMMA FreshInode ==
  ASSUME NEW type \in {"file", "dir", "device"}, NEW ip, ip = Fresh(type)
  PROVE  /\ ip \in Inode /\ ip.type = type /\ ip.nlink = 1 /\ Owned(ip) = {}
         /\ \A n \in Entry : ip.dir[n] = 0
<1>1. PICK e \in [Entry -> 0..NINODES] : e = NoEntries /\ \A n \in Entry : e[n] = 0
  <2>1. NoEntries \in [Entry -> 0..NINODES] /\ \A n \in Entry : NoEntries[n] = 0
    BY Numbers DEF NoEntries
  <2> QED
    BY <2>1
<1>2. ip = [type |-> type, nlink |-> 1, data |-> {}, ind |-> {}, dir |-> e]
  BY <1>1 DEF Fresh, Free
<1>3. 1 \in 0..NLINK_MAX
  BY Sizes
<1>4. ip \in Inode
  BY <1>1, <1>2, <1>3 DEF Inode
<1> QED
  BY <1>1, <1>2, <1>4 DEF Owned

(* The first two entries of a directory. *)
LEMMA DotLinkSound ==
  ASSUME NEW u \in SUBSET Block, NEW i \in Inum, NEW d \in Inum, NEW ip, ip = Fresh("dir"),
         NEW g, g = DotLink(ip, u, i, d)
  PROVE  /\ Grown(ip, u, g) /\ \A n \in Name : g.ip.dir[n] = 0
         /\ g.ok => g.ip.dir["."] = i /\ g.ip.dir[".."] = d
<1>1. ip \in Inode /\ Owned(ip) \subseteq u /\ \A n \in Entry : ip.dir[n] = 0
  BY FreshInode
<1>2. PICK dot \in Entry, two \in Entry : dot = "." /\ two = ".." /\ dot # two /\ dot \notin Name /\ two \notin Name
  BY EntryNames, Sizes
<1>3. PICK one : one = DirLink(ip, u, dot, i)
  OBVIOUS
<1>4. /\ Grown(ip, u, one)
      /\ one.ok => ip.dir[dot] = 0 /\ one.ip.dir = [ip.dir EXCEPT ![dot] = i]
      /\ ~one.ok => one.ip.dir = ip.dir
  BY <1>1, <1>3, DirLinkSound
<1>5. Name \subseteq Entry /\ ip.dir \in [Entry -> 0..NINODES]
  BY <1>1, EntryNames, InodeFields
<1>6. /\ \A n \in Name : one.ip.dir[n] = 0
      /\ one.ok => one.ip.dir[dot] = i
  BY <1>1, <1>2, <1>4, <1>5
<1>7. g = IF one.ok THEN DirLink(one.ip, one.used, two, d) ELSE one
  BY <1>2, <1>3 DEF DotLink
<1>8. CASE ~one.ok
  <2>1. g = one
    BY <1>7, <1>8
  <2> QED
    BY <1>4, <1>6, <1>8, <2>1
<1>9. CASE one.ok
  <2>1. g = DirLink(one.ip, one.used, two, d)
    BY <1>7, <1>9
  <2>2. one.ip \in Inode /\ one.used \in SUBSET Block /\ Owned(one.ip) \subseteq one.used
    BY <1>1, <1>4 DEF Grown
  <2>3. /\ Grown(one.ip, one.used, g)
        /\ g.ok => one.ip.dir[two] = 0 /\ g.ip.dir = [one.ip.dir EXCEPT ![two] = d]
        /\ ~g.ok => g.ip.dir = one.ip.dir
    <3>1. PICK a \in Inode, v \in SUBSET Block : a = one.ip /\ v = one.used
      BY <2>2
    <3>2. Owned(a) \subseteq v /\ g = DirLink(a, v, two, d)
      BY <2>1, <2>2, <3>1
    <3>3. /\ Grown(a, v, g)
          /\ g.ok => a.dir[two] = 0 /\ g.ip.dir = [a.dir EXCEPT ![two] = d]
          /\ ~g.ok => g.ip.dir = a.dir
      BY <3>2, DirLinkSound
    <3> QED
      BY <3>1, <3>3
  <2>4. one.ip.dir \in [Entry -> 0..NINODES]
    BY <2>2, InodeFields
  <2>5. /\ \A n \in Name : g.ip.dir[n] = 0
        /\ g.ok => g.ip.dir[dot] = i /\ g.ip.dir[two] = d
    BY <1>2, <1>5, <1>6, <1>9, <2>3, <2>4
  <2>6. Grown(ip, u, g)
    BY <1>4, <2>3, GrownTwice
  <2> QED
    BY <1>2, <2>5, <2>6
<1> QED
  BY <1>8, <1>9

(* An inode with another count of links. *)
LEMMA Recounted ==
  ASSUME NEW ip \in Inode, NEW l \in 0..NLINK_MAX, NEW n, n = [ip EXCEPT !.nlink = l]
  PROVE  n \in Inode /\ n.type = ip.type /\ n.nlink = l /\ n.dir = ip.dir /\ Owned(n) = Owned(ip)
<1>0. ip \in [type : {"free", "file", "dir", "device"}, nlink : 0..NLINK_MAX,
          data : SUBSET Block, ind : SUBSET Block, dir : [Entry -> 0..NINODES]]
  BY DEF Inode
<1> QED
  BY <1>0 DEF Inode, Owned

(* The new inode, and its directory. *)
Created(i, d, n, type, g) ==
  /\ g.ip \in Inode /\ g.dp \in Inode /\ g.used \in SUBSET Block /\ g.ok \in BOOLEAN
  /\ g.ip.type = type /\ g.dp.type = inode[d].type
  /\ \A m \in Name : g.ip.dir[m] = 0
  /\ type # "dir" => \A m \in Entry : g.ip.dir[m] = 0
  /\ \A m \in Entry \ {n} : g.dp.dir[m] = inode[d].dir[m]
  /\ g.ok => /\ g.ip.nlink = 1 /\ g.dp.dir[n] = i
             /\ type = "dir" => g.ip.dir["."] = i /\ g.ip.dir[".."] = d
             /\ g.dp.nlink = IF type = "dir" THEN inode[d].nlink + 1 ELSE inode[d].nlink
  /\ ~g.ok => g.ip.nlink = 0 /\ g.dp.nlink = inode[d].nlink /\ g.dp.dir[n] = inode[d].dir[n]

(* The blocks it takes: the new inode's first, and then the parent's. *)
BlocksTaken(d, g) ==
  \E v \in SUBSET Block : /\ used \subseteq v /\ Owned(g.ip) = v \ used
                          /\ v \subseteq g.used /\ Owned(g.dp) = Owned(inode[d]) \union (g.used \ v)

(* create() makes them so, out of free blocks. *)
LEMMA NewEntriesSound ==
  ASSUME IInv, NEW p \in Proc, NEW i \in Inum, NEW d \in Inum, d = inum[t[p].cur],
         NEW n \in Entry, n = t[p].name, NEW type \in {"file", "dir", "device"}, type = Type(p),
         type = "dir" => inode[d].nlink + 1 \in 0..NLINK_MAX,
         NEW g, g = NewEntries(p, i)
  PROVE  /\ Created(i, d, n, type, g)
         /\ BlocksTaken(d, g)
<1>0. inode[d] \in Inode /\ used \in SUBSET Block /\ Owned(inode[d]) \subseteq used
  BY InodeTypes DEF IInv, BlockInv, BlocksRight
<1>1. PICK f : f = Fresh(type)
  OBVIOUS
<1>2. /\ f \in Inode /\ f.type = type /\ f.nlink = 1 /\ Owned(f) = {}
      /\ \A m \in Entry : f.dir[m] = 0
  BY <1>1, FreshInode
<1>3. PICK ip : ip = IF type = "dir" THEN DotLink(f, used, i, d) ELSE [ip |-> f, used |-> used, ok |-> TRUE]
  OBVIOUS
<1>4. /\ Grown(f, used, ip) /\ \A m \in Name : ip.ip.dir[m] = 0
      /\ type = "dir" /\ ip.ok => ip.ip.dir["."] = i /\ ip.ip.dir[".."] = d
      /\ type # "dir" => ip.ip.dir = f.dir
  <2>1. CASE type = "dir"
    <3>1. ip = DotLink(f, used, i, d) /\ f = Fresh("dir")
      BY <1>1, <1>3, <2>1
    <3>2. /\ Grown(f, used, ip) /\ \A m \in Name : ip.ip.dir[m] = 0
          /\ ip.ok => ip.ip.dir["."] = i /\ ip.ip.dir[".."] = d
      BY <1>0, <3>1, DotLinkSound
    <3> QED
      BY <2>1, <3>2
  <2>2. CASE type # "dir"
    <3>1. ip = [ip |-> f, used |-> used, ok |-> TRUE]
      BY <1>3, <2>2
    <3>2. ip.ip = f /\ ip.used = used /\ ip.ok = TRUE
      BY <3>1
    <3>3. Grown(f, used, ip)
      BY <1>0, <1>2, <3>1, <3>2 DEF Grown
    <3> QED
      BY <1>2, <2>2, <3>2, <3>3, EntryNames
  <2> QED
    BY <2>1, <2>2
<1>5. PICK dp : dp = IF ip.ok THEN DirLink(inode[d], ip.used, n, i)
                     ELSE [ip |-> inode[d], used |-> ip.used, ok |-> FALSE]
  OBVIOUS
<1>6. /\ Grown(inode[d], ip.used, dp)
      /\ dp.ok => ip.ok /\ dp.ip.dir[n] = i
      /\ \A m \in Entry \ {n} : dp.ip.dir[m] = inode[d].dir[m]
      /\ ~dp.ok => dp.ip.dir[n] = inode[d].dir[n]
  <2>0. ip.used \in SUBSET Block /\ Owned(inode[d]) \subseteq ip.used /\ inode[d].dir \in [Entry -> 0..NINODES]
    BY <1>0, <1>4, InodeFields DEF Grown
  <2>1. CASE ip.ok
    <3>1. dp = DirLink(inode[d], ip.used, n, i)
      BY <1>5, <2>1
    <3>2. /\ Grown(inode[d], ip.used, dp)
          /\ dp.ok => inode[d].dir[n] = 0 /\ dp.ip.dir = [inode[d].dir EXCEPT ![n] = i]
          /\ ~dp.ok => dp.ip.dir = inode[d].dir
      BY <1>0, <2>0, <3>1, DirLinkSound
    <3>3. CASE dp.ok
      BY <2>0, <2>1, <3>2, <3>3
    <3>4. CASE ~dp.ok
      BY <3>2, <3>4
    <3> QED
      BY <3>3, <3>4
  <2>2. CASE ~ip.ok
    <3>1. dp = [ip |-> inode[d], used |-> ip.used, ok |-> FALSE]
      BY <1>5, <2>2
    <3>2. dp.ip = inode[d] /\ dp.used = ip.used /\ dp.ok = FALSE
      BY <3>1
    <3>3. Grown(inode[d], ip.used, dp)
      BY <1>0, <2>0, <3>1, <3>2 DEF Grown
    <3> QED
      BY <3>2, <3>3
  <2> QED
    BY <2>1, <2>2
<1>7. PICK x, y : /\ x = IF dp.ok THEN ip.ip ELSE [ip.ip EXCEPT !.nlink = 0]
                  /\ y = IF dp.ok /\ type = "dir" THEN [dp.ip EXCEPT !.nlink = @ + 1] ELSE dp.ip
  OBVIOUS
<1>8. g = [ip |-> x, dp |-> y, used |-> dp.used, ok |-> dp.ok]
  BY <1>1, <1>3, <1>5, <1>7 DEF NewEntries
<1>9. g.ip = x /\ g.dp = y /\ g.used = dp.used /\ g.ok = dp.ok
  BY <1>8
<1>10. x \in Inode /\ x.type = type /\ x.dir = ip.ip.dir /\ Owned(x) = Owned(ip.ip)
       /\ (dp.ok => x.nlink = 1) /\ (~dp.ok => x.nlink = 0)
  <2>0. ip.ip \in Inode /\ ip.ip.type = type /\ ip.ip.nlink = 1
    BY <1>2, <1>4 DEF Grown
  <2>1. CASE dp.ok
    <3>1. x = ip.ip
      BY <1>7, <2>1
    <3> QED
      BY <2>0, <2>1, <3>1
  <2>2. CASE ~dp.ok
    <3>1. x = [ip.ip EXCEPT !.nlink = 0]
      BY <1>7, <2>2
    <3>2. 0 \in 0..NLINK_MAX
      BY Sizes
    <3>3. x \in Inode /\ x.type = ip.ip.type /\ x.nlink = 0 /\ x.dir = ip.ip.dir /\ Owned(x) = Owned(ip.ip)
      BY <2>0, <3>1, <3>2, Recounted
    <3> QED
      BY <2>0, <2>2, <3>3
  <2> QED
    BY <2>1, <2>2
<1>11. y \in Inode /\ y.type = inode[d].type /\ y.dir = dp.ip.dir /\ Owned(y) = Owned(dp.ip)
       /\ y.nlink = IF dp.ok /\ type = "dir" THEN inode[d].nlink + 1 ELSE inode[d].nlink
  <2>0. dp.ip \in Inode /\ dp.ip.type = inode[d].type /\ dp.ip.nlink = inode[d].nlink
    BY <1>6 DEF Grown
  <2>1. CASE dp.ok /\ type = "dir"
    <3>1. PICK l \in 0..NLINK_MAX : l = inode[d].nlink + 1
      BY <2>1
    <3>2. y = [dp.ip EXCEPT !.nlink = l]
      <4>1. y = [dp.ip EXCEPT !.nlink = @ + 1]
        BY <1>7, <2>1
      <4>2. dp.ip \in [type : {"free", "file", "dir", "device"}, nlink : 0..NLINK_MAX,
              data : SUBSET Block, ind : SUBSET Block, dir : [Entry -> 0..NINODES]]
        BY <2>0 DEF Inode
      <4> QED
        BY <2>0, <3>1, <4>1, <4>2
    <3>3. y \in Inode /\ y.type = dp.ip.type /\ y.nlink = l /\ y.dir = dp.ip.dir /\ Owned(y) = Owned(dp.ip)
      BY <2>0, <3>2, Recounted
    <3> QED
      BY <2>0, <2>1, <3>1, <3>3
  <2>2. CASE ~(dp.ok /\ type = "dir")
    <3>1. y = dp.ip
      BY <1>7, <2>2
    <3> QED
      BY <2>0, <2>2, <3>1
  <2> QED
    BY <2>1, <2>2
<1>12. Created(i, d, n, type, g)
  <2>1. g.ip \in Inode /\ g.dp \in Inode /\ g.used \in SUBSET Block /\ g.ok \in BOOLEAN
    BY <1>6, <1>9, <1>10, <1>11 DEF Grown
  <2>2. /\ g.ip.type = type /\ g.dp.type = inode[d].type
        /\ \A m \in Name : g.ip.dir[m] = 0
        /\ type # "dir" => \A m \in Entry : g.ip.dir[m] = 0
        /\ \A m \in Entry \ {n} : g.dp.dir[m] = inode[d].dir[m]
    BY <1>2, <1>4, <1>6, <1>9, <1>10, <1>11
  <2>3. g.ok => /\ g.ip.nlink = 1 /\ g.dp.dir[n] = i
                /\ type = "dir" => g.ip.dir["."] = i /\ g.ip.dir[".."] = d
                /\ g.dp.nlink = IF type = "dir" THEN inode[d].nlink + 1 ELSE inode[d].nlink
    BY <1>4, <1>6, <1>9, <1>10, <1>11
  <2>4. ~g.ok => g.ip.nlink = 0 /\ g.dp.nlink = inode[d].nlink /\ g.dp.dir[n] = inode[d].dir[n]
    BY <1>6, <1>9, <1>10, <1>11
  <2> QED
    BY <2>1, <2>2, <2>3, <2>4 DEF Created
<1>13. /\ ip.used \in SUBSET Block /\ used \subseteq ip.used /\ Owned(g.ip) = ip.used \ used
       /\ ip.used \subseteq g.used /\ Owned(g.dp) = Owned(inode[d]) \union (g.used \ ip.used)
  <2>1. ip.used \in SUBSET Block /\ used \subseteq ip.used /\ Owned(ip.ip) = Owned(f) \union (ip.used \ used)
    BY <1>4 DEF Grown
  <2>2. ip.used \subseteq dp.used /\ Owned(dp.ip) = Owned(inode[d]) \union (dp.used \ ip.used)
    BY <1>6 DEF Grown
  <2> QED
    BY <1>2, <1>9, <1>10, <1>11, <2>1, <2>2
<1> QED
  BY <1>12, <1>13 DEF BlocksTaken

(* Nothing links a free inode. *)
LEMMA FreeUnlinked ==
  ASSUME IInv, NEW i \in Inum, inode[i].type = "free"
  PROVE  /\ inode[i].nlink = 0 /\ \A k \in Links0 : Linking[k] # i
         /\ \A s \in Slot : ref[s] > 0 => inum[s] # i
         /\ \A d \in Live, n \in Entry : inode[d].dir[n] # i
<1>0. TypeOK /\ ThreadInv /\ RefInv /\ TableInv /\ LinkInv /\ EntryInv /\ HeldInv
  BY DEF IInv
<1>1. \A s \in Slot : ref[s] > 0 => inum[s] # i
  BY <1>0 DEF HeldInv, Ip
<1>2. \A d \in Live, n \in Entry : inode[d].dir[n] # i
  <2> SUFFICES ASSUME NEW d \in Live, NEW n \in Entry, inode[d].dir[n] = i
               PROVE  FALSE
    OBVIOUS
  <2>1. inode[d].dir[n] # 0 => Linked(inode, inode[d].dir[n])
    BY <1>0 DEF EntryInv
  <2> QED
    BY <2>1, Numbers DEF Linked
<1>3. \A k \in Links0 : Linking[k] # i
  <2> SUFFICES ASSUME NEW k \in Links0, Linking[k] = i
               PROVE  FALSE
    OBVIOUS
  <2>1. CASE \E d \in Inum, n \in Entry \ {"."} : k = Rec(d, n)
    BY <1>2, <2>1, LinkingIs, Numbers
  <2>2. CASE \E q \in Proc : k = CallRec(q)
    <3>1. PICK q \in Proc : k = CallRec(q)
      BY <2>2
    <3>2. Counted(q) # 0 /\ inum[Counted(q)] = i
      BY <3>1, LinkingIs, Numbers
    <3>3. Counted(q) \in Slot /\ ref[Counted(q)] > 0
      BY <1>0, <3>2, CountedHeld
    <3> QED
      BY <1>1, <3>2, <3>3
  <2> QED
    BY <2>1, <2>2, LinkingIs
<1>4. inode[i].nlink = 0
  BY <1>0, <1>3, LinkedBy
<1> QED
  BY <1>1, <1>2, <1>3, <1>4

(* The disk that create() leaves. *)
LEMMA CreatedDisk ==
  ASSUME IInv, NEW p \in Proc, Others(p), \A s \in Slot : ref[s] > 0 => inum'[s] = inum[s],
         Counted(p) = 0, Counted(p)' = 0, t[p].pc # "unlinked", t'[p].pc # "unlinked",
         NEW d \in Live, NEW n \in Name, inode[d].dir[n] = 0, NEW i \in Inum, inode[i].type = "free",
         NEW type \in {"file", "dir", "device"}, NEW g, Created(i, d, n, type, g),
         inode' \in [Inum -> Inode], inode'[i] = g.ip, inode'[d] = g.dp,
         \A j \in Inum \ {i, d} : inode'[j] = inode[j], used' = g.used, BlocksRight(inode', used')
  PROVE  /\ Written /\ inode'[d].nlink # 0 /\ inode'[d].type = inode[d].type /\ i # d /\ d \in Inum
<1>0. TypeOK /\ ThreadInv /\ RefInv /\ TableInv /\ LinkInv /\ EntryInv /\ DirInv
  BY DEF IInv
<1>1. /\ inode \in [Inum -> Inode]
      /\ \A e \in Inum, m \in Entry : inode[e].dir[m] = 0 \/ inode[e].dir[m] \in Inum
  BY <1>0, InodeTypes
<1>2. /\ Live \subseteq Dirs(inode) /\ Dirs(inode) \subseteq Inum /\ n \in Entry \ {"."} /\ n # ".."
      /\ ".." \in Entry \ {"."} /\ "." \in Entry /\ Name \subseteq Entry /\ i # 0 /\ d \in Inum /\ "." # ".."
  BY EntryNames, Sizes, Numbers DEF Live, Dirs
<1>3. i # d /\ i \notin Live /\ i \notin Dirs(inode)
  BY <1>2 DEF Dirs, Linked
<1>4. /\ inode[i].nlink = 0 /\ \A k \in Links0 : Linking[k] # i
      /\ \A s \in Slot : ref[s] > 0 => inum[s] # i
      /\ \A e \in Live, m \in Entry : inode[e].dir[m] # i
  BY FreeUnlinked
<1>5. inode' \in [Inum -> Inode] /\ inode'[i] = g.ip /\ inode'[d] = g.dp /\ \A j \in Inum \ {i, d} : inode'[j] = inode[j]
  BY <1>1, <1>2, <1>3 DEF Created
<1>6. /\ g.ok \in BOOLEAN /\ inode'[i].type = type /\ inode'[d].type = inode[d].type
      /\ \A m \in Name : inode'[i].dir[m] = 0
      /\ type # "dir" => \A m \in Entry : inode'[i].dir[m] = 0
      /\ \A m \in Entry \ {n} : inode'[d].dir[m] = inode[d].dir[m]
      /\ g.ok => /\ inode'[i].nlink = 1 /\ inode'[d].dir[n] = i
                 /\ type = "dir" => inode'[i].dir["."] = i /\ inode'[i].dir[".."] = d
                 /\ inode'[d].nlink = IF type = "dir" THEN inode[d].nlink + 1 ELSE inode[d].nlink
      /\ ~g.ok => inode'[i].nlink = 0 /\ inode'[d].nlink = inode[d].nlink /\ inode'[d].dir[n] = 0
  BY <1>5 DEF Created
<1>7. PICK N : N = IF g.ok /\ type = "dir" THEN {i} ELSE {}
  OBVIOUS
<1>8. inode[d].nlink \in Nat /\ inode[d].nlink > 0 /\ inode'[d].nlink \in Nat /\ inode'[d].nlink > 0
      /\ inode[d].type = "dir" /\ d \notin Dying
  <2>1. inode[d].nlink \in Nat /\ inode[d].nlink > 0 /\ inode[d].type = "dir" /\ d \notin Dying
    BY <1>0, <1>2, InodeTypes, Sizes DEF Live, Dirs, Linked
  <2> QED
    BY <1>6, <2>1
<1>9. Dying' = Dying /\ i \notin Dying
  <2>1. \A q \in Proc \ {p} : t'[q] = t[q]
    BY DEF Others
  <2>2. \A q \in Proc \ {p} : t[q].pc = "unlinked" => inum'[t[q].ip] = inum[t[q].ip] /\ inum[t[q].ip] # i
    <3> SUFFICES ASSUME NEW q \in Proc \ {p}, t[q].pc = "unlinked"
                 PROVE  inum'[t[q].ip] = inum[t[q].ip] /\ inum[t[q].ip] # i
      OBVIOUS
    <3>1. t[q].ip \in Slot /\ ref[t[q].ip] > 0
      BY <1>0, IpHeld, HolderRef DEF Second
    <3> QED
      BY <1>4, <3>1
  <2>3. \A j \in Inum : (\E q \in Proc : t'[q].pc = "unlinked" /\ inum'[t'[q].ip] = j)
                        <=> (\E q \in Proc : t[q].pc = "unlinked" /\ inum[t[q].ip] = j)
    BY <2>1, <2>2
  <2>4. ~ \E q \in Proc : t[q].pc = "unlinked" /\ inum[t[q].ip] = i
    BY <2>2
  <2>5. \A j \in Inum : j \in Dying' <=> j \in Dying
    <3> TAKE j \in Inum
    <3>1. CASE j = i
      BY <2>3, <2>4, <3>1 DEF Dying
    <3>2. CASE j # i
      <4>1. inode'[j].type = inode[j].type
        BY <1>5, <1>6, <3>2
      <4> QED
        BY <2>3, <4>1 DEF Dying
    <3> QED
      BY <3>1, <3>2
  <2>6. i \notin Dying
    BY <2>4 DEF Dying
  <2> QED
    BY <2>5, <2>6 DEF Dying
<1>10. Dirs(inode)' = Dirs(inode) \union N
  <2>1. \A j \in Inum : j \in Dirs(inode)' <=> j \in Dirs(inode) \/ j \in N
    <3> TAKE j \in Inum
    <3>1. CASE j = i
      <4>1. j \in Dirs(inode)' <=> j \in N
        BY <1>6, <1>7, <3>1 DEF Dirs, Linked
      <4> QED
        BY <1>3, <3>1, <4>1
    <3>2. CASE j = d
      <4>1. j \in Dirs(inode)' /\ j \in Dirs(inode)
        BY <1>6, <1>8, <3>2 DEF Dirs, Linked
      <4> QED
        BY <4>1
    <3>3. CASE j \notin {i, d}
      <4>1. inode'[j] = inode[j] /\ j \notin N
        BY <1>5, <1>7, <3>3
      <4> QED
        BY <4>1 DEF Dirs, Linked
    <3> QED
      BY <3>1, <3>2, <3>3
  <2>2. N \subseteq Inum /\ Dirs(inode)' \subseteq Inum
    BY <1>7 DEF Dirs
  <2> QED
    BY <1>2, <2>1, <2>2
<1>11. Live' = Live \union N
  <2>1. N \cap Dying = {}
    BY <1>7, <1>9
  <2> QED
    BY <1>9, <1>10, <2>1 DEF Live
<1>12. \A e \in Live, m \in Entry : inode'[e].dir[m] = inode[e].dir[m] \/ (e = d /\ m = n)
  <2> SUFFICES ASSUME NEW e \in Live, NEW m \in Entry
               PROVE  inode'[e].dir[m] = inode[e].dir[m] \/ (e = d /\ m = n)
    OBVIOUS
  <2>1. e \in Inum /\ e # i
    BY <1>2, <1>3
  <2> QED
    BY <1>5, <1>6, <2>1
<1>13. PICK two \in Entry \ {"."} : two = ".." /\ two # n
  BY <1>2
<1>14. \A k \in Links0 \ {Rec(d, n), Rec(i, two)} : Linking'[k] = Linking[k]
  <2> SUFFICES ASSUME NEW k \in Links0 \ {Rec(d, n), Rec(i, two)}
               PROVE  Linking'[k] = Linking[k]
    OBVIOUS
  <2>1. CASE \E e \in Inum, m \in Entry \ {"."} : k = Rec(e, m)
    <3>1. PICK e \in Inum, m \in Entry \ {"."} : k = Rec(e, m)
      BY <2>1
    <3>2. CASE e = i
      <4>1. m \in Name
        BY <1>13, <3>1, <3>2, EntryNames
      <4>2. Linking[k] = 0
        BY <1>3, <3>1, <3>2, LinkingIs
      <4>3. Linking'[k] = 0
        <5>1. inode'[i].dir[m] = 0
          BY <1>6, <4>1
        <5>2. Linking'[Rec(i, m)] = IF i \in Live' THEN inode'[i].dir[m] ELSE 0
          BY LinkingIs
        <5> QED
          BY <3>1, <3>2, <5>1, <5>2
      <4> QED
        BY <4>2, <4>3
    <3>3. CASE e # i
      <4>1. e \in Live' <=> e \in Live
        BY <1>7, <1>11, <3>3
      <4>2. e \in Live => inode'[e].dir[m] = inode[e].dir[m]
        BY <1>12, <3>1
      <4> QED
        BY <3>1, <4>1, <4>2, LinkingIs
    <3> QED
      BY <3>2, <3>3
  <2>2. CASE \E q \in Proc : k = CallRec(q)
    <3>1. PICK q \in Proc : k = CallRec(q)
      BY <2>2
    <3>2. CASE q = p
      BY <3>1, <3>2, LinkingIs
    <3>3. CASE q # p
      BY <3>1, <3>3, OtherCalls
    <3> QED
      BY <3>2, <3>3
  <2> QED
    BY <2>1, <2>2, LinkingIs
<1>15. Rec(d, n) \in Links0 /\ Rec(i, two) \in Links0 /\ Rec(d, n) # Rec(i, two)
  BY <1>2, <1>3, LinkingIs
<1>16. Linking[Rec(d, n)] = 0 /\ Linking'[Rec(d, n)] = IF g.ok THEN i ELSE 0
  <2>1. d \in Live' /\ d \in Inum /\ inode'[d].dir[n] = IF g.ok THEN i ELSE 0
    BY <1>2, <1>6, <1>11
  <2> QED
    BY <1>2, <2>1, LinkingIs
<1>17. Linking[Rec(i, two)] = 0 /\ Linking'[Rec(i, two)] = IF g.ok /\ type = "dir" THEN d ELSE 0
  <2>1. Linking[Rec(i, two)] = 0
    BY <1>3, LinkingIs
  <2>2. CASE g.ok /\ type = "dir"
    <3>1. i \in Live' /\ inode'[i].dir[two] = d
      BY <1>6, <1>7, <1>11, <1>13, <2>2
    <3> QED
      BY <2>1, <2>2, <3>1, LinkingIs
  <2>3. CASE ~(g.ok /\ type = "dir")
    <3>1. i \notin Live'
      BY <1>3, <1>7, <1>11, <2>3
    <3> QED
      BY <2>1, <2>3, <3>1, LinkingIs
  <2> QED
    BY <2>2, <2>3
<1>18. LinkInv'
  <2>1. PICK H, G : H = Linking /\ G = Linking'
    OBVIOUS
  <2>2. PICK k \in Links0, m \in Links0 : k = Rec(d, n) /\ m = Rec(i, two)
    BY <1>15
  <2>3. /\ k # m /\ \A j \in Links0 \ {k, m} : G[j] = H[j]
        /\ H[k] = 0 /\ H[m] = 0
        /\ G[k] = IF g.ok THEN i ELSE 0
        /\ G[m] = IF g.ok /\ type = "dir" THEN d ELSE 0
    BY <1>14, <1>15, <1>16, <1>17, <2>1, <2>2
  <2>4. \A j \in Inum : /\ Count(H, Links0, j) \in Nat
                        /\ Count(G, Links0, j) = After(After(Count(H, Links0, j), H[k], G[k], j), H[m], G[m], j)
    BY <2>3, TwoChange, LinksFinite
  <2>5. \A j \in Inum : j # 0 /\ Count(H, Links0, j) = inode[j].nlink
    BY <1>0, <2>1, LinkInvIs, Numbers
  <2>6. ASSUME NEW j \in Inum
        PROVE  inode'[j].nlink = Count(G, Links0, j)
    <3>1. Count(G, Links0, j) = inode[j].nlink + One(G[k], j) + One(G[m], j)
      BY <2>3, <2>4, <2>5 DEF After, One
    <3>2. CASE j = i
      BY <1>3, <1>4, <1>6, <2>3, <2>5, <3>1, <3>2 DEF One
    <3>3. CASE j = d
      BY <1>2, <1>3, <1>6, <1>8, <2>3, <2>5, <3>1, <3>3 DEF One
    <3>4. CASE j \notin {i, d}
      <4>1. One(G[k], j) = 0 /\ One(G[m], j) = 0
        BY <2>3, <2>5, <3>4 DEF One
      <4>2. inode'[j].nlink = inode[j].nlink /\ inode[j].nlink \in Nat
        BY <1>5, <2>4, <2>5, <3>4
      <4> QED
        BY <3>1, <4>1, <4>2
    <3> QED
      BY <3>2, <3>3, <3>4
  <2>7. \A j \in Inum : inode'[j].nlink = Count(Linking', Links0, j)
    BY <2>1, <2>6
  <2> QED
    BY <2>7, LinkInvIs
<1>19. ASSUME NEW j \in Inum, Linked(inode, j), j \notin Dying
       PROVE  inode'[j].type # "free" /\ inode'[j].nlink > 0 /\ j \notin Dying' /\ j # i
  <2>1. j # i
    BY <1>19 DEF Linked
  <2>2. CASE j = d
    BY <1>6, <1>8, <1>9, <1>19, <2>1, <2>2
  <2>3. CASE j # d
    BY <1>5, <1>9, <1>19, <2>1, <2>3 DEF Linked
  <2> QED
    BY <2>2, <2>3
<1>20. EntryInv'
  <2> SUFFICES ASSUME NEW e \in Live \union N, NEW m \in Entry, inode'[e].dir[m] # 0
               PROVE  /\ inode'[inode'[e].dir[m]].type # "free" /\ inode'[inode'[e].dir[m]].nlink > 0
                      /\ inode'[e].dir[m] \notin Dying'
    BY <1>11 DEF EntryInv, Linked
  <2>1. CASE e \in Live /\ inode'[e].dir[m] = inode[e].dir[m]
    <3>1. PICK j \in Inum : j = inode[e].dir[m] /\ j = inode'[e].dir[m]
      BY <1>1, <1>2, <2>1
    <3>2. Linked(inode, j) /\ j \notin Dying
      <4>1. inode[e].dir[m] # 0 => Linked(inode, inode[e].dir[m]) /\ inode[e].dir[m] \notin Dying
        BY <1>0, <2>1 DEF EntryInv
      <4> QED
        BY <3>1, <4>1, Numbers
    <3> QED
      BY <1>19, <3>1, <3>2
  <2>2. CASE e = d /\ m = n
    <3>1. g.ok /\ inode'[e].dir[m] = i /\ inode'[i].nlink = 1 /\ inode'[i].type # "free"
      BY <1>6, <2>2
    <3> QED
      BY <1>9, <3>1
  <2>3. CASE e \in N
    <3>1. e = i /\ g.ok /\ type = "dir"
      BY <1>7, <2>3
    <3>2. m \notin Name
      BY <1>6, <3>1
    <3>3. CASE m = "."
      <4>1. inode'[e].dir[m] = i /\ inode'[i].nlink = 1 /\ inode'[i].type # "free"
        BY <1>6, <3>1, <3>3
      <4> QED
        BY <1>9, <4>1
    <3>4. CASE m = ".."
      <4>1. inode'[e].dir[m] = d /\ inode'[d].nlink > 0 /\ inode'[d].type # "free"
        BY <1>6, <1>8, <3>1, <3>4
      <4> QED
        BY <1>8, <1>9, <4>1
    <3> QED
      BY <3>2, <3>3, <3>4, EntryNames
  <2> QED
    BY <1>12, <2>1, <2>2, <2>3
<1>21. \A e \in Live : inode'[e].dir["."] = inode[e].dir["."] /\ inode'[e].dir[".."] = inode[e].dir[".."]
  <2>1. "." # n /\ ".." # n /\ "." \in Entry /\ ".." \in Entry
    BY <1>2
  <2> QED
    BY <1>12, <2>1
<1>22. DirInv'
  <2>1. (\A e \in Live : \A m \in Name : inode[e].dir[m] \in Dirs(inode) =>
          inode[e].dir[m] # ROOTINO /\ inode[inode[e].dir[m]].dir[".."] = e)'
    <3> SUFFICES ASSUME NEW e \in Live \union N, NEW m \in Name, inode'[e].dir[m] \in Dirs(inode) \union N
                 PROVE  inode'[e].dir[m] # ROOTINO /\ inode'[inode'[e].dir[m]].dir[".."] = e
      BY <1>10, <1>11
    <3>1. e \in Live
      <4> SUFFICES ASSUME e \in N
                   PROVE  FALSE
        OBVIOUS
      <4>1. e = i
        BY <1>7
      <4>2. inode'[e].dir[m] = 0
        BY <1>6, <4>1
      <4>3. 0 \notin Dirs(inode) /\ 0 \notin N
        BY <1>2, <1>7, Numbers
      <4> QED
        BY <4>2, <4>3
    <3>2. CASE inode'[e].dir[m] = inode[e].dir[m]
      <4>1. inode[e].dir[m] \in Dirs(inode)
        BY <1>2, <1>4, <1>7, <3>1, <3>2
      <4>2. PICK j \in Dirs(inode) : j = inode[e].dir[m] /\ j = inode'[e].dir[m]
        BY <3>2, <4>1
      <4>3. j # ROOTINO /\ inode[j].dir[".."] = e
        <5>1. inode[e].dir[m] \in Dirs(inode) => inode[e].dir[m] # ROOTINO /\ inode[inode[e].dir[m]].dir[".."] = e
          BY <1>0, <3>1 DEF DirInv
        <5> QED
          BY <4>2, <5>1
      <4>4. inode'[j].dir[".."] = inode[j].dir[".."]
        <5>1. j \in Inum /\ j # i
          BY <1>2, <1>3
        <5>2. CASE j = d
          BY <1>6, <1>13, <5>2
        <5>3. CASE j # d
          BY <1>5, <5>1, <5>3
        <5> QED
          BY <5>2, <5>3
      <4> QED
        BY <4>2, <4>3, <4>4
    <3>3. CASE e = d /\ m = n
      <4>1. g.ok /\ inode'[e].dir[m] = i
        BY <1>2, <1>6, <3>3, Numbers, <1>7
      <4>2. i \in N
        BY <1>3, <4>1
      <4>3. type = "dir" /\ inode'[i].dir[".."] = d
        BY <1>6, <1>7, <4>1, <4>2
      <4>4. i # ROOTINO
        BY <1>0, <1>3 DEF DirInv
      <4> QED
        BY <3>3, <4>1, <4>3, <4>4
    <3> QED
      BY <1>2, <1>12, <3>1, <3>2, <3>3
  <2>2. (\A e \in Live \ {ROOTINO} : \E x \in Name :
           /\ inode[e].dir[".."] \in Live
           /\ \A m \in Name : inode[inode[e].dir[".."]].dir[m] = e <=> m = x)'
    <3> SUFFICES ASSUME NEW e \in Live \union N, e # ROOTINO
                 PROVE  \E x \in Name : /\ inode'[e].dir[".."] \in Live'
                                        /\ \A m \in Name : inode'[inode'[e].dir[".."]].dir[m] = e <=> m = x
      BY <1>11
    <3>0. Live \subseteq Live'
      BY <1>11
    <3>1. CASE e \in Live
      <4>1. PICK x \in Name : /\ inode[e].dir[".."] \in Live
                              /\ \A m \in Name : inode[inode[e].dir[".."]].dir[m] = e <=> m = x
        BY <1>0, <3>1 DEF DirInv
      <4>2. PICK f \in Live : f = inode[e].dir[".."]
        BY <4>1
      <4>3. inode'[e].dir[".."] = f
        BY <1>21, <3>1, <4>2
      <4>4. e # 0 /\ e # i
        BY <1>2, <1>3, <3>1, Numbers
      <4>5. \A m \in Name : inode'[f].dir[m] = e <=> inode[f].dir[m] = e
        <5> SUFFICES ASSUME NEW m \in Name
                     PROVE  inode'[f].dir[m] = e <=> inode[f].dir[m] = e
          OBVIOUS
        <5>1. inode'[f].dir[m] = inode[f].dir[m] \/ (f = d /\ m = n)
          BY <1>2, <1>12
        <5>2. CASE f = d /\ m = n
          BY <1>6, <4>4, <5>2
        <5> QED
          BY <5>1, <5>2
      <4>6. \A m \in Name : inode'[f].dir[m] = e <=> m = x
        BY <4>1, <4>2, <4>5
      <4> QED
        BY <3>0, <4>3, <4>6
    <3>2. CASE e \in N
      <4>1. e = i /\ g.ok /\ type = "dir"
        BY <1>7, <3>2
      <4>2. inode'[e].dir[".."] = d
        BY <1>6, <4>1
      <4>3. \A m \in Name : inode'[d].dir[m] = e <=> m = n
        <5> SUFFICES ASSUME NEW m \in Name
                     PROVE  inode'[d].dir[m] = e <=> m = n
          OBVIOUS
        <5>1. CASE m = n
          BY <1>6, <4>1, <5>1
        <5>2. CASE m # n
          <6>1. m \in Entry \ {n}
            BY <1>2, <5>2
          <6>2. inode'[d].dir[m] = inode[d].dir[m] /\ inode[d].dir[m] # i
            BY <1>4, <1>6, <6>1
          <6> QED
            BY <4>1, <5>2, <6>2
        <5> QED
          BY <5>1, <5>2
      <4>4. d \in Live'
        BY <3>0
      <4> QED
        BY <4>2, <4>3, <4>4
    <3> QED
      BY <3>1, <3>2
  <2>3. (\A j \in Inum : inode[j].type = "dir" /\ (inode[j].nlink = 0 \/ j \in Dying) => IsDirEmpty(inode[j]))'
    <3> SUFFICES ASSUME NEW j \in Inum, inode'[j].type = "dir", inode'[j].nlink = 0 \/ j \in Dying
                 PROVE  IsDirEmpty(inode'[j])
      BY <1>9 DEF IsDirEmpty, Entries
    <3>1. j # d
      BY <1>8
    <3>2. CASE j = i
      <4>1. \A m \in Entry : inode'[j].dir[m] # 0 => m \in {".", ".."}
        <5>1. \A m \in Name : inode'[j].dir[m] = 0
          BY <1>6, <3>2
        <5> QED
          BY <5>1, EntryNames
      <4> QED
        BY <4>1 DEF IsDirEmpty, Entries
    <3>3. CASE j # i
      <4>1. inode'[j] = inode[j]
        BY <1>5, <3>1, <3>3
      <4> QED
        BY <1>0, <4>1 DEF DirInv
    <3> QED
      BY <3>2, <3>3
  <2>4. (\A j \in Inum : inode[j].type # "dir" => Entries(inode[j]) = {})'
    <3> SUFFICES ASSUME NEW j \in Inum, inode'[j].type # "dir"
                 PROVE  Entries(inode'[j]) = {}
      BY DEF Entries
    <3>1. j # d
      BY <1>6, <1>8
    <3>2. CASE j = i
      BY <1>6, <3>2 DEF Entries
    <3>3. CASE j # i
      <4>1. inode'[j] = inode[j]
        BY <1>5, <3>1, <3>3
      <4> QED
        BY <1>0, <4>1 DEF DirInv
    <3> QED
      BY <3>2, <3>3
  <2>5. (ROOTINO \in Live /\ inode[ROOTINO].dir[".."] = ROOTINO /\ \A e \in Live : inode[e].dir["."] = e)'
    <3>1. ROOTINO \in Live /\ inode[ROOTINO].dir[".."] = ROOTINO /\ \A e \in Live : inode[e].dir["."] = e
      BY <1>0 DEF DirInv
    <3>2. \A e \in Live \union N : inode'[e].dir["."] = e
      <4>1. \A e \in Live : inode'[e].dir["."] = e
        BY <1>21, <3>1
      <4>2. \A e \in N : inode'[e].dir["."] = e
        BY <1>6, <1>7
      <4> QED
        BY <4>1, <4>2
    <3>3. inode'[ROOTINO].dir[".."] = ROOTINO
      BY <1>21, <3>1
    <3> QED
      BY <1>11, <3>1, <3>2, <3>3
  <2> QED
    BY <2>1, <2>2, <2>3, <2>4, <2>5 DEF DirInv
<1>23. BlockInv'
  <2>1. PICK new : new = inode'
    OBVIOUS
  <2> QED
    BY <2>1 DEF BlockInv, BlocksRight, Owned
<1>24. [inode |-> inode', used |-> used'] \in Image
  BY <1>5 DEF Image, Created
<1>25. Written
  BY <1>18, <1>20, <1>22, <1>23, <1>24 DEF Written
<1> QED
  BY <1>2, <1>3, <1>5, <1>6, <1>8, <1>25

(* What create() goes on with. *)
LEMMA CreateDir ==
  ASSUME IInv, NEW p \in Proc, Create(p), NEW s, s = t[p].cur, NEW d, d = inum[s]
  PROVE  /\ s \in Slot /\ HeldNow(p, "cur") = s /\ ref[s] > 0 /\ d \in Live /\ d \in Inum
         /\ t[p].name \in Name /\ inode[d].dir[t[p].name] = 0
         /\ Type(p) \in {"file", "dir", "device"}
         /\ Type(p) = "dir" => inode[d].nlink + 1 \in 0..NLINK_MAX
         /\ t[p].pc = "create" /\ t[p].puts = <<>> /\ Unlocked(s)
         /\ t[p].call \in Calls /\ t[p].call.op \in Creates /\ Counted(p) = 0
<1>1. t[p].pc = "create" /\ t[p].puts = <<>> /\ Unlocked(s) /\ MayCreate(p, Ip(s)) /\ Ip(s).dir[t[p].name] = 0
  BY DEF Create, At
<1>2. /\ TypeOK /\ RefInv /\ TableInv /\ ThreadInv /\ ThreadType(t[p]) /\ ThreadShape(t[p]) /\ Knows(p)
  BY <1>1, Ready DEF IInv
<1>3. s \in Slot /\ HeldNow(p, "cur") = s /\ ref[s] > 0
  BY <1>1, <1>2, CurHeld, HolderRef DEF WithCur, Finds
<1>4. d \in Live
  <2>1. Ip(s).type = "dir" /\ Ip(s).nlink # 0
    BY <1>1, <1>2 DEF Knows, MayCreate
  <2>2. t[p].pc \in WithCur
    BY <1>1 DEF WithCur, Finds
  <2> QED
    BY <1>1, <2>1, <2>2, Entered
<1>5. d \in Inum
  BY <1>4 DEF Live, Dirs
<1>6. t[p].name \in Name /\ inode[d].dir[t[p].name] = 0
  <2>1. t[p].name \in Entry
    BY <1>2 DEF ThreadType
  <2>2. inode[d].dir[t[p].name] = 0
    BY <1>1 DEF Ip
  <2> QED
    BY <1>4, <2>1, <2>2, DotsThere
<1>7. Type(p) \in {"file", "dir", "device"}
  BY DEF Type
<1>8. Type(p) = "dir" => inode[d].nlink + 1 \in 0..NLINK_MAX
  <2>1. Type(p) = "dir" => inode[d].nlink < NLINK_MAX
    BY <1>1 DEF MayCreate, Ip
  <2>2. inode[d].nlink \in 0..NLINK_MAX
    BY <1>2, <1>5, InodeTypes
  <2> QED
    BY <2>1, <2>2, Sizes
<1>9. t[p].call \in Calls /\ t[p].call.op \in Creates
  BY <1>1, <1>2 DEF ThreadShape, InCall, Finds
<1>10. Counted(p) = 0
  BY <1>1 DEF Counted
<1> QED
  BY <1>1, <1>3, <1>4, <1>5, <1>6, <1>7, <1>8, <1>9, <1>10

(* What create() does with the inode i it allocates: g is the outcome. *)
NewInode(p, i, d, g) ==
  /\ inode[i].type = "free" /\ g = NewEntries(p, i) /\ Created(i, d, t[p].name, Type(p), g)
  /\ inode' = [inode EXCEPT ![i] = g.ip, ![d] = g.dp] /\ used' = g.used
  /\ BlocksRight(inode', used') /\ Unlocked(SlotOf(i)) /\ Iget(i)
  /\ valid' = valid \union {t[p].cur, SlotOf(i)}
  /\ g.ok => /\ Locks(p, {SlotOf(i)})
             /\ Go(p, [pc |-> IF t[p].call.op = "creat" THEN "opened" ELSE "made", ip |-> SlotOf(i),
                       puts |-> <<t[p].cur>>])
  /\ ~g.ok => Locks(p, {SlotOf(i), t[p].cur}) /\ Quit(p, <<SlotOf(i), t[p].cur>>)
  /\ saved' = saved /\ crashes' = crashes /\ UNCHANGED <<user, active>>

(* There is such an inode. *)
LEMMA CreateNew ==
  ASSUME IInv, NEW p \in Proc, Create(p), NEW d, d = inum[t[p].cur]
  PROVE  \E i \in Inum : \E g : NewInode(p, i, d, g)
<1>1. PICK s : s = t[p].cur /\ d = inum[s]
  OBVIOUS
<1>2. /\ d \in Live /\ d \in Inum /\ t[p].name \in Name /\ Type(p) \in {"file", "dir", "device"}
      /\ Type(p) = "dir" => inode[d].nlink + 1 \in 0..NLINK_MAX
  BY <1>1, CreateDir
<1>3. PICK free : free = {i \in Inum : inode[i].type = "free"}
  OBVIOUS
<1>4. free # {} /\ free \subseteq Nat
  BY <1>3, Numbers DEF Create
<1>5. PICK i \in Inum : i = Min(free) /\ inode[i].type = "free"
  <2>1. Min(free) \in free
    BY <1>4, MinIn
  <2> QED
    BY <1>3, <2>1
<1>6. PICK g : g = NewEntries(p, i)
  OBVIOUS
<1>7. /\ inode' = [inode EXCEPT ![i] = g.ip, ![d] = g.dp] /\ used' = g.used
      /\ Unlocked(SlotOf(i)) /\ Iget(i) /\ valid' = valid \union {t[p].cur, SlotOf(i)}
      /\ saved' = saved /\ crashes' = crashes /\ UNCHANGED <<user, active>>
  BY <1>3, <1>5, <1>6 DEF Create
<1>8. g.ok => /\ Locks(p, {SlotOf(i)})
              /\ Go(p, [pc |-> IF t[p].call.op = "creat" THEN "opened" ELSE "made", ip |-> SlotOf(i),
                        puts |-> <<t[p].cur>>])
  BY <1>3, <1>5, <1>6 DEF Create
<1>9. ~g.ok => Locks(p, {SlotOf(i), t[p].cur}) /\ Quit(p, <<SlotOf(i), t[p].cur>>)
  BY <1>3, <1>5, <1>6 DEF Create
<1>10. PICK n \in Entry, type \in {"file", "dir", "device"} : n = t[p].name /\ type = Type(p)
  BY <1>2, EntryNames
<1>11. Created(i, d, n, type, g) /\ BlocksTaken(d, g)
  <2>1. type = "dir" => inode[d].nlink + 1 \in 0..NLINK_MAX
    BY <1>2, <1>10
  <2>2. d \in Inum /\ d = inum[t[p].cur] /\ n = t[p].name /\ type = Type(p) /\ g = NewEntries(p, i)
        /\ n \in Entry /\ type \in {"file", "dir", "device"} /\ i \in Inum
    BY <1>2, <1>6, <1>10
  <2> QED
    BY <2>1, <2>2, NewEntriesSound
<1>12. BlocksRight(inode', used')
  <2>1. PICK v \in SUBSET Block : /\ used \subseteq v /\ Owned(g.ip) = v \ used
                                  /\ v \subseteq g.used /\ Owned(g.dp) = Owned(inode[d]) \union (g.used \ v)
    BY <1>11 DEF BlocksTaken
  <2>2. BlocksRight(inode, used) /\ inode \in [Inum -> Inode]
    BY InodeTypes DEF IInv, BlockInv
  <2>3. Owned(inode[i]) = {}
    BY <1>5, <2>2 DEF BlocksRight
  <2>4. i # d /\ inode[d].type = "dir"
    BY <1>2, <1>5 DEF Live, Dirs, Linked
  <2>5. PICK mid : mid = [inode EXCEPT ![i] = g.ip]
    OBVIOUS
  <2>6. mid[i] = g.ip /\ \A j \in Inum \ {i} : mid[j] = inode[j]
    BY <2>2, <2>5
  <2>7. g.ip.type # "free" /\ g.dp.type # "free"
    BY <1>10, <1>11, <2>4 DEF Created
  <2>8. Owned(mid[i]) = Owned(inode[i]) \union (v \ used) /\ mid[i].type # "free"
    BY <2>1, <2>3, <2>6, <2>7
  <2>9. BlocksRight(mid, v)
    BY <2>1, <2>2, <2>6, <2>8, BlocksAdded
  <2>10. PICK new : new = inode'
    OBVIOUS
  <2>11. new[d] = g.dp /\ \A j \in Inum \ {d} : new[j] = mid[j]
    BY <1>2, <1>7, <2>2, <2>4, <2>5, <2>10
  <2>12. Owned(new[d]) = Owned(mid[d]) \union (g.used \ v) /\ new[d].type # "free"
    BY <1>2, <2>1, <2>4, <2>6, <2>7, <2>11
  <2>13. BlocksRight(new, g.used)
    BY <1>2, <2>1, <2>9, <2>11, <2>12, BlocksAdded
  <2> QED
    BY <1>7, <2>10, <2>13
<1>13. NewInode(p, i, d, g)
  BY <1>5, <1>6, <1>7, <1>8, <1>9, <1>10, <1>11, <1>12 DEF NewInode
<1> QED
  BY <1>13

(* The entry of the inode table that the new inode takes. *)
LEMMA CreateSlot ==
  ASSUME IInv, NEW i \in Inum, inode[i].type = "free", Iget(i), NEW c \in Slot, ref[c] > 0,
         NEW s, s = SlotOf(i), valid' = valid \union {c, s}
  PROVE  /\ s \in Slot /\ ref[s] = 0 /\ s # c /\ ref'[s] > 0 /\ inum'[s] = i /\ s \in valid' /\ c \in valid'
         /\ TableInv' /\ ref' \in [Slot -> Nat] /\ inum' \in [Slot -> 0..NINODES] /\ valid' \subseteq Slot
         /\ \A r \in Slot : ref[r] > 0 => inum'[r] = inum[r]
         /\ \A r \in Slot \ {s} : ref'[r] = ref[r] /\ inum'[r] = inum[r]
         /\ ref' = [ref EXCEPT ![s] = @ + 1]
<1>1. TypeOK /\ TableInv
  BY DEF IInv
<1>2. s \in Slot /\ ref[s] = 0
  <2>1. \A r \in Slot : ref[r] > 0 => inum[r] # i
    BY FreeUnlinked
  <2> QED
    BY <1>1, <2>1, Igotten
<1>3. valid' \subseteq valid \union {SlotOf(i)} \union {r \in Slot : ref[r] > 0}
  OBVIOUS
<1>4. /\ TableInv' /\ ref' \in [Slot -> Nat] /\ inum' \in [Slot -> 0..NINODES]
      /\ ref'[s] > 0 /\ inum'[s] = i
      /\ \A r \in Slot : ref[r] > 0 => inum'[r] = inum[r]
      /\ \A r \in Slot : r # s => ref'[r] = ref[r] /\ inum'[r] = inum[r]
      /\ ref' = [ref EXCEPT ![s] = @ + 1]
  BY <1>1, <1>3, IgetTable
<1>5. valid' \subseteq Slot
  BY <1>1, <1>2 DEF TypeOK
<1> QED
  BY <1>2, <1>4, <1>5

(* create() keeps the invariant when its thread keeps to its own part. *)
LEMMA CreateFrame ==
  ASSUME IInv, NEW p \in Proc, Create(p), NEW c, c = t[p].cur, NEW d \in Inum, d = inum[c],
         NEW i \in Inum, inode[i].type = "free", NEW g, Created(i, d, t[p].name, Type(p), g),
         inode' \in [Inum -> Inode], inode'[i] = g.ip, inode'[d] = g.dp,
         \A j \in Inum \ {i, d} : inode'[j] = inode[j], used' = g.used, BlocksRight(inode', used'),
         Iget(i), NEW s, s = SlotOf(i), valid' = valid \union {c, s},
         Busy(p), RefInv', t'[p].pc \in {"opened", "made", "end"}
  PROVE  IInv'
<1>0. TypeOK /\ ThreadInv /\ RefInv /\ TableInv /\ PutInv /\ HeldInv
  BY DEF IInv
<1>1. /\ c \in Slot /\ ref[c] > 0 /\ d \in Live /\ t[p].name \in Name /\ inode[d].dir[t[p].name] = 0
      /\ Type(p) \in {"file", "dir", "device"} /\ t[p].pc = "create" /\ Unlocked(c) /\ Counted(p) = 0
  BY CreateDir
<1>2. /\ s \in Slot /\ ref[s] = 0 /\ s # c /\ ref'[s] > 0 /\ inum'[s] = i /\ s \in valid' /\ c \in valid'
      /\ TableInv' /\ ref' \in [Slot -> Nat] /\ inum' \in [Slot -> 0..NINODES] /\ valid' \subseteq Slot
      /\ \A r \in Slot : ref[r] > 0 => inum'[r] = inum[r]
      /\ \A r \in Slot \ {s} : ref'[r] = ref[r] /\ inum'[r] = inum[r]
  BY <1>1, CreateSlot
<1>3. Others(p) /\ saved' = saved
  BY DEF Busy
<1>4. Counted(p)' = 0 /\ t[p].pc # "unlinked" /\ t'[p].pc # "unlinked"
  BY <1>1 DEF Counted
<1>5. PICK n \in Name, type \in {"file", "dir", "device"} : n = t[p].name /\ type = Type(p)
  BY <1>1
<1>6. /\ inode' \in [Inum -> Inode] /\ inode'[i] = g.ip /\ inode'[d] = g.dp
      /\ i # d /\ \A j \in Inum \ {i, d} : inode'[j] = inode[j]
  BY <1>1 DEF Live, Dirs, Linked
<1>6a. Written /\ inode'[d].nlink # 0 /\ inode'[d].type = inode[d].type
  <2>1. inode[d].dir[n] = 0 /\ Created(i, d, n, type, g)
    BY <1>1, <1>5
  <2>2. /\ i \in Inum /\ d \in Live /\ n \in Name /\ type \in {"file", "dir", "device"}
        /\ inode[i].type = "free" /\ used' = g.used /\ BlocksRight(inode', used')
    BY <1>1, <1>5
  <2>3. \A r \in Slot : ref[r] > 0 => inum'[r] = inum[r]
    BY <1>2
  <2>4. /\ Others(p) /\ Counted(p) = 0 /\ Counted(p)' = 0 /\ t[p].pc # "unlinked" /\ t'[p].pc # "unlinked"
    BY <1>1, <1>3, <1>4
  <2>5. \A j \in Inum \ {i, d} : inode'[j] = inode[j]
    BY <1>6
  <2>6. inode' \in [Inum -> Inode] /\ inode'[i] = g.ip /\ inode'[d] = g.dp
    BY <1>6
  <2> QED
    BY <2>1, <2>2, <2>3, <2>4, <2>5, <2>6, CreatedDisk
<1>7. inode'[i].type # "free"
  BY <1>1, <1>6, <1>6a DEF Created
<1>8. /\ \A r \in Slot : ref[r] > 0 => inum[r] # i /\ inum[r] \in Inum /\ inode[inum[r]].type # "free"
  <2>1. \A r \in Slot : ref[r] > 0 => inum[r] # i
    BY FreeUnlinked
  <2>2. \A r \in Slot : ref[r] > 0 => inum[r] \in Inum
    BY <1>0, Numbers DEF TableInv, TypeOK
  <2> QED
    BY <1>0, <2>1, <2>2 DEF HeldInv, Ip
<1>9. \A j \in Inum : inode[j].type # "free" => inode'[j].type = inode[j].type
  BY <1>6, <1>6a
<1>10. \A r \in Slot : ref'[r] > 0 => inode'[inum'[r]].type # "free"
  <2> SUFFICES ASSUME NEW r \in Slot, ref'[r] > 0
               PROVE  inode'[inum'[r]].type # "free"
    OBVIOUS
  <2>1. CASE r = s
    BY <1>2, <1>7, <2>1
  <2>2. CASE r # s
    BY <1>2, <1>8, <1>9, <2>2
  <2> QED
    BY <2>1, <2>2
<1>11. \A r \in Slot : ref'[r] > 0 /\ inode'[inum'[r]].nlink = 0 =>
         r \in valid' \/ (ref[r] > 0 /\ inode[inum[r]].nlink = 0)
  <2> SUFFICES ASSUME NEW r \in Slot \ {s}, ref'[r] > 0, inode'[inum'[r]].nlink = 0
               PROVE  ref[r] > 0 /\ inode[inum[r]].nlink = 0
    BY <1>2
  <2>1. ref[r] > 0 /\ inum'[r] = inum[r] /\ inum[r] \in Inum \ {i}
    BY <1>2, <1>8
  <2>2. inum[r] # d
    BY <1>6, <1>6a, <2>1
  <2> QED
    BY <1>6, <1>6a, <2>1, <2>2
<1>12. \A j \in Inum : inode'[j].type # "free" /\ inode'[j].nlink = 0 => Orphan(j) \/ \E r \in Slot : inum'[r] = j
  <2> SUFFICES ASSUME NEW j \in Inum, inode'[j].type # "free", inode'[j].nlink = 0, j # i
               PROVE  Orphan(j)
    BY <1>2
  <2>1. j # d
    BY <1>6, <1>6a
  <2> QED
    BY <1>6, <1>6a, <2>1 DEF Orphan
<1>13. \A r \in Slot : ref[r] > 0 /\ lock[r] \notin {None, p} => inode'[inum[r]].dir = inode[inum[r]].dir
  <2> SUFFICES ASSUME NEW r \in Slot, ref[r] > 0, lock[r] \notin {None, p}
               PROVE  inum[r] \in Inum \ {i, d}
    BY <1>6, <1>6a
  <2>1. r # c
    BY <1>1 DEF Unlocked
  <2>2. inum[r] # d
    BY <1>0, <1>1, <2>1 DEF TableInv
  <2> QED
    BY <1>8, <2>2
<1>14. \A q \in Proc \ {p} : t[q].put # "test" => t[q].inum \in Inum /\ t[q].inum # i /\ inode'[t[q].inum] = inode[t[q].inum]
  <2> SUFFICES ASSUME NEW q \in Proc \ {p}, t[q].put # "test"
               PROVE  t[q].inum \in Inum \ {i, d}
    BY <1>6, <1>6a
  <2>1. t[q].inum \in Inum /\ inode[t[q].inum].type # "free" /\ inode[t[q].inum].nlink = 0
    BY <1>0 DEF PutInv, Gone
  <2>2. inode[d].nlink > 0
    BY <1>1 DEF Live, Dirs, Linked
  <2> QED
    BY <2>1, <2>2
<1>15. \A q \in Proc \ {p} : t[q].put \in {"trunc", "drop"} =>
         ref'[PutSlot(q)] = ref[PutSlot(q)] /\ inum'[PutSlot(q)] = inum[PutSlot(q)]
  <2> SUFFICES ASSUME NEW q \in Proc \ {p}, t[q].put \in {"trunc", "drop"}
               PROVE  PutSlot(q) \in Slot \ {s}
    BY <1>2
  <2>1. ref[PutSlot(q)] = 1
    BY <1>0 DEF PutInv
  <2>2. PutSlot(q) \in Slot
    BY <1>0, PutsAre DEF ThreadInv, ThreadShape
  <2> QED
    BY <1>2, <2>1, <2>2
<1>16. \A q \in Proc \ {p} : t[q].put = "free" =>
         \A r \in Slot : inum[r] # t[q].inum => inum'[r] # t[q].inum
  BY <1>2, <1>14
<1>17. \A q \in Proc \ {p} : t[q].put # "test" => inode'[t[q].inum] = inode[t[q].inum]
  BY <1>14
<1> QED
  BY <1>2, <1>6, <1>6a, <1>9, <1>10, <1>11, <1>12, <1>13, <1>15, <1>16, <1>17, BusyFrame

(* create() has made the inode: it keeps its lock, and puts the parent. *)
LEMMA CreateMade ==
  ASSUME IInv, NEW p \in Proc, Create(p), NEW c, c = t[p].cur, NEW i \in Inum, inode[i].type = "free", Iget(i),
         NEW s, s = SlotOf(i), valid' = valid \union {c, s}, Unlocked(s), Locks(p, {s}),
         NEW l \in {"opened", "made"}, Go(p, [pc |-> l, ip |-> s, puts |-> <<c>>]),
         saved' = saved, crashes' = crashes, UNCHANGED <<user, active>>
  PROVE  Busy(p) /\ RefInv' /\ t'[p].pc \in {"opened", "made", "end"}
<1>1. /\ c \in Slot /\ HeldNow(p, "cur") = c /\ ref[c] > 0
      /\ t[p].pc = "create" /\ t[p].puts = <<>> /\ Unlocked(c) /\ t[p].call \in Calls
  BY CreateDir
<1>2. /\ TypeOK /\ RefInv /\ TableInv /\ ThreadInv /\ ThreadType(t[p]) /\ ThreadShape(t[p])
      /\ t[p].put = "test" /\ HeldNow(p, "first") = 0 /\ HeldNow(p, "last") = 0
  BY <1>1, Ready DEF IInv
<1>3. s \in Slot /\ s # c /\ ref' = [ref EXCEPT ![s] = @ + 1]
  BY <1>1, CreateSlot
<1>4. /\ t'[p].pc = l /\ t'[p].puts = <<c>> /\ t'[p].call = t[p].call /\ t'[p].path = t[p].path
      /\ t'[p].cur = c /\ t'[p].ip = s /\ t'[p].name = t[p].name /\ t'[p].put = t[p].put
      /\ t'[p].inum = t[p].inum
  BY <1>2, GoFields DEF Fields
<1>5. <<c>> \in Seq(Slot) /\ Len(<<c>>) <= 2 /\ Len(<<c>>) # 2 /\ <<c>> # <<>> /\ Range(<<c>>) = {c}
  BY <1>1, OneSeq
<1>6. s # 0 /\ s \in 0..NINODE
  BY <1>3, Numbers
<1>7. ThreadType(t'[p])
  BY <1>2, <1>4, <1>5, <1>6 DEF ThreadType, Pcs, InCall, Second
<1>8. ThreadShape(t'[p])
  BY <1>1, <1>2, <1>4, <1>5, <1>6 DEF ThreadShape, InCall, Finds, Second, WithCur, WithPuts
<1>9. /\ lock' \in [Slot -> Proc \union {None}]
      /\ \A x \in Slot : lock'[x] # lock[x] => lock[x] \in {None, p} /\ lock'[x] \in {None, p}
      /\ \A x \in Slot : lock'[x] = p <=> x \in {s}
  <2>1. {s} \in SUBSET Slot /\ \A x \in {s} : lock[x] \in {None, p}
    BY <1>3 DEF Unlocked
  <2> QED
    BY <2>1, LocksTaken
<1>10. LockOf(p)'
  <2>1. \A x \in Slot : lock'[x] = p => x \in MayLock(p)'
    BY <1>4, <1>9 DEF MayLock, Locking
  <2>2. lock'[s] = p /\ s \notin Range(<<c>>)
    BY <1>3, <1>5, <1>9
  <2> QED
    BY <1>2, <1>4, <2>1, <2>2 DEF LockOf
<1>11. Knows(p)'
  BY <1>4 DEF Knows
<1>12. Busy(p) /\ HeldNext(p, "file") = HeldNow(p, "file") /\ HeldNext(p, "cwd") = HeldNow(p, "cwd")
  <2>1. t[p].pc \in InCall /\ t[p].pc # "moved"
    BY <1>1 DEF InCall, Finds
  <2>2. t'[p].pc \in InCall \union {"end"} /\ t'[p].pc # "moved"
    BY <1>4 DEF InCall, Second
  <2>3. valid \subseteq valid'
    OBVIOUS
  <2>4. PICK r : Go(p, r)
    OBVIOUS
  <2> QED
    BY <1>1, <1>4, <1>7, <1>8, <1>9, <1>10, <1>11, <2>1, <2>2, <2>3, <2>4, BusyCall
<1>13. \A k \in Kinds \ {"ip"} : HeldNext(p, k) = HeldNow(p, Swap("cur", "last")[k])
  <2>1. HeldNext(p, "last") = c /\ HeldNext(p, "first") = 0
    BY <1>2, <1>4, OnePut DEF HeldNext
  <2>2. HeldNext(p, "cur") = 0
    BY <1>4 DEF HeldNext, Holding, WithCur, Finds
  <2> QED
    BY <1>1, <1>2, <1>12, <2>1, <2>2 DEF Swap, Kinds
<1>14. HeldNext(p, "ip") = s /\ HeldNow(p, Swap("cur", "last")["ip"]) = 0
  <2>1. HeldNext(p, "ip") = s
    BY <1>4 DEF HeldNext, Holding, WithIp, Second
  <2>2. HeldNow(p, "ip") = 0
    BY <1>1 DEF HeldNow, Holding, WithIp, Second
  <2> QED
    BY <2>1, <2>2 DEF Swap, Kinds
<1>15. Swap("cur", "last") \in [Kinds -> Kinds] /\ \A k \in Kinds : Swap("cur", "last")[Swap("cur", "last")[k]] = k
  BY Swapping DEF Kinds
<1>16. RefInv'
  <2>1. Others(p) /\ "ip" \in Kinds
    BY <1>12 DEF Busy, Kinds
  <2> QED
    BY <1>2, <1>3, <1>13, <1>14, <1>15, <2>1, RefsGained
<1> QED
  BY <1>4, <1>12, <1>16

(* create() has failed: both inodes are put. *)
LEMMA CreateFailed ==
  ASSUME IInv, NEW p \in Proc, Create(p), NEW c, c = t[p].cur, NEW i \in Inum, inode[i].type = "free", Iget(i),
         NEW s, s = SlotOf(i), valid' = valid \union {c, s}, Unlocked(s), Locks(p, {s, c}), Quit(p, <<s, c>>),
         saved' = saved, crashes' = crashes, UNCHANGED <<user, active>>
  PROVE  Busy(p) /\ RefInv' /\ t'[p].pc \in {"opened", "made", "end"}
<1>1. /\ c \in Slot /\ HeldNow(p, "cur") = c /\ ref[c] > 0
      /\ t[p].pc = "create" /\ t[p].puts = <<>> /\ Unlocked(c) /\ t[p].call \in Calls
  BY CreateDir
<1>2. /\ TypeOK /\ RefInv /\ TableInv /\ ThreadInv /\ ThreadType(t[p]) /\ ThreadShape(t[p])
      /\ t[p].put = "test" /\ HeldNow(p, "first") = 0 /\ HeldNow(p, "last") = 0
  BY <1>1, Ready DEF IInv
<1>3. s \in Slot /\ s # c /\ ref' = [ref EXCEPT ![s] = @ + 1]
  BY <1>1, CreateSlot
<1>4. /\ t'[p].pc = "end" /\ t'[p].puts = <<s, c>> /\ t'[p].call = t[p].call /\ t'[p].path = t[p].path
      /\ t'[p].cur = c /\ t'[p].ip = t[p].ip /\ t'[p].name = t[p].name /\ t'[p].put = t[p].put
      /\ t'[p].inum = t[p].inum
  <2>1. Go(p, [pc |-> "end", puts |-> <<s, c>>])
    BY DEF Quit
  <2> QED
    BY <1>2, <2>1, GoFields DEF Fields
<1>5. <<s, c>> \in Seq(Slot) /\ Len(<<s, c>>) <= 2 /\ <<s, c>> # <<>> /\ Range(<<s, c>>) = {s, c}
  BY <1>1, <1>3, PairSeq
<1>6. ThreadType(t'[p])
  BY <1>2, <1>4, <1>5 DEF ThreadType, Pcs
<1>7. ThreadShape(t'[p])
  BY <1>1, <1>2, <1>4, <1>5 DEF ThreadShape, InCall, Finds, Second, WithCur, WithPuts
<1>8. /\ lock' \in [Slot -> Proc \union {None}]
      /\ \A x \in Slot : lock'[x] # lock[x] => lock[x] \in {None, p} /\ lock'[x] \in {None, p}
      /\ \A x \in Slot : lock'[x] = p <=> x \in {s, c}
  <2>1. {s, c} \in SUBSET Slot /\ \A x \in {s, c} : lock[x] \in {None, p}
    BY <1>1, <1>3 DEF Unlocked
  <2> QED
    BY <2>1, LocksTaken
<1>9. LockOf(p)'
  <2>1. \A x \in Slot : lock'[x] = p => x \in MayLock(p)'
    BY <1>4, <1>5, <1>8 DEF MayLock, Locking
  <2> QED
    BY <1>2, <1>4, <2>1 DEF LockOf, Locking
<1>10. Knows(p)'
  BY <1>4 DEF Knows
<1>11. Busy(p) /\ HeldNext(p, "file") = HeldNow(p, "file") /\ HeldNext(p, "cwd") = HeldNow(p, "cwd")
  <2>1. t[p].pc \in InCall /\ t[p].pc # "moved"
    BY <1>1 DEF InCall, Finds
  <2>2. t'[p].pc \in InCall \union {"end"} /\ t'[p].pc # "moved"
    BY <1>4
  <2>3. valid \subseteq valid'
    OBVIOUS
  <2>4. PICK r : Go(p, r)
    BY DEF Quit
  <2> QED
    BY <1>1, <1>4, <1>6, <1>7, <1>8, <1>9, <1>10, <2>1, <2>2, <2>3, <2>4, BusyCall
<1>12. \A k \in Kinds \ {"first"} : HeldNext(p, k) = HeldNow(p, Swap("cur", "last")[k])
  <2>1. HeldNext(p, "last") = c
    BY <1>2, <1>4, TwoPuts DEF HeldNext
  <2>2. HeldNext(p, "cur") = 0 /\ HeldNext(p, "ip") = 0
    BY <1>4 DEF HeldNext, Holding, WithCur, Finds, WithIp, Second
  <2>3. HeldNow(p, "ip") = 0
    BY <1>1 DEF HeldNow, Holding, WithIp, Second
  <2> QED
    BY <1>1, <1>2, <1>11, <2>1, <2>2, <2>3 DEF Swap, Kinds
<1>13. HeldNext(p, "first") = s /\ HeldNow(p, Swap("cur", "last")["first"]) = 0
  <2>1. HeldNext(p, "first") = s
    BY <1>2, <1>4, TwoPuts DEF HeldNext
  <2> QED
    BY <1>2, <2>1 DEF Swap, Kinds
<1>14. Swap("cur", "last") \in [Kinds -> Kinds] /\ \A k \in Kinds : Swap("cur", "last")[Swap("cur", "last")[k]] = k
  BY Swapping DEF Kinds
<1>15. RefInv'
  <2>1. Others(p) /\ "first" \in Kinds
    BY <1>11 DEF Busy, Kinds
  <2> QED
    BY <1>2, <1>3, <1>12, <1>13, <1>14, <2>1, RefsGained
<1> QED
  BY <1>4, <1>11, <1>15

(* create() of a name that is not there. *)
LEMMA CreateStep ==
  ASSUME IInv, NEW p \in Proc, Create(p)
  PROVE  IInv'
<1>1. PICK c, d : c = t[p].cur /\ d = inum[c]
  OBVIOUS
<1>2. d \in Inum
  BY <1>1, CreateDir
<1>2a. PICK i \in Inum : \E g : NewInode(p, i, d, g)
  BY <1>1, CreateNew
<1>2b. PICK g : NewInode(p, i, d, g)
  BY <1>2a
<1>3. /\ inode[i].type = "free" /\ g = NewEntries(p, i) /\ Created(i, d, t[p].name, Type(p), g)
      /\ inode' = [inode EXCEPT ![i] = g.ip, ![d] = g.dp] /\ used' = g.used
      /\ BlocksRight(inode', used') /\ Unlocked(SlotOf(i)) /\ Iget(i)
      /\ valid' = valid \union {t[p].cur, SlotOf(i)}
      /\ g.ok => /\ Locks(p, {SlotOf(i)})
                 /\ Go(p, [pc |-> IF t[p].call.op = "creat" THEN "opened" ELSE "made", ip |-> SlotOf(i),
                           puts |-> <<t[p].cur>>])
      /\ ~g.ok => Locks(p, {SlotOf(i), t[p].cur}) /\ Quit(p, <<SlotOf(i), t[p].cur>>)
      /\ saved' = saved /\ crashes' = crashes /\ UNCHANGED <<user, active>>
  BY <1>2b DEF NewInode
<1>4. PICK s : s = SlotOf(i)
  OBVIOUS
<1>5. valid' = valid \union {c, s} /\ Unlocked(s)
  BY <1>1, <1>3, <1>4
<1>6. Busy(p) /\ RefInv' /\ t'[p].pc \in {"opened", "made", "end"}
  <2>1. CASE g.ok
    <3>1. PICK l \in {"opened", "made"} : l = IF t[p].call.op = "creat" THEN "opened" ELSE "made"
      OBVIOUS
    <3>2. Locks(p, {s}) /\ Go(p, [pc |-> l, ip |-> s, puts |-> <<c>>])
      BY <1>1, <1>3, <1>4, <2>1, <3>1
    <3> QED
      BY <1>1, <1>3, <1>4, <1>5, <3>2, CreateMade
  <2>2. CASE ~g.ok
    <3>1. Locks(p, {s, c}) /\ Quit(p, <<s, c>>)
      BY <1>1, <1>3, <1>4, <2>2
    <3> QED
      BY <1>1, <1>3, <1>4, <1>5, <3>1, CreateFailed
  <2> QED
    BY <2>1, <2>2
<1>7. /\ inode' \in [Inum -> Inode] /\ inode'[i] = g.ip /\ inode'[d] = g.dp
      /\ \A j \in Inum \ {i, d} : inode'[j] = inode[j]
  <2>1. i # d
    <3>1. d \in Live
      BY <1>1, CreateDir
    <3> QED
      BY <1>3, <3>1 DEF Live, Dirs, Linked
  <2>2. inode \in [Inum -> Inode]
    BY InodeTypes DEF IInv
  <2>3. g.ip \in Inode /\ g.dp \in Inode
    BY <1>3 DEF Created
  <2>4. inode' = [inode EXCEPT ![i] = g.ip, ![d] = g.dp]
    BY <1>3
  <2> QED
    BY <1>2, <2>1, <2>2, <2>3, <2>4
<1>8. /\ inode[i].type = "free" /\ Created(i, d, t[p].name, Type(p), g) /\ used' = g.used
      /\ BlocksRight(inode', used') /\ Iget(i)
  BY <1>3
<1> QED
  BY <1>1, <1>2, <1>4, <1>5, <1>6, <1>7, <1>8, CreateFrame

(* While ireclaim() runs, its process is alone. *)
LEMMA Booting ==
  ASSUME IInv, NEW p \in Proc, t[p].pc \in {"reclaim", "reclaimed"}, t[p].puts = <<>>
  PROVE  /\ \A q \in Proc \ {p} : t[q].pc = "down" /\ cwd[q] = 0
         /\ \A q \in Proc : /\ t[q].puts = <<>> /\ t[q].put = "test" /\ file[q] = 0
                            /\ Counted(q) = 0 /\ t[q].pc # "unlinked"
         /\ cwd[p] # 0 /\ HeldNow(p, "cwd") = cwd[p] /\ cwd[p] \in Slot
         /\ \A k \in Kinds \ {"cwd"} : HeldNow(p, k) = 0
         /\ \A q \in Proc \ {p}, k \in Kinds : HeldNow(q, k) = 0
         /\ \A s \in Slot : lock[s] = None
<1>0. TypeOK /\ ThreadInv /\ LockInv
  BY DEF IInv
<1>1. /\ \A q \in Proc \ {p} : t[q].pc = "down" /\ cwd[q] = 0
      /\ \A q \in Proc : file[q] = 0
      /\ cwd[p] # 0
  BY <1>0 DEF ThreadInv, BootInv, Boots
<1>2. \A q \in Proc : t[q].puts = <<>> /\ t[q].put = "test"
  <2> SUFFICES ASSUME NEW q \in Proc
               PROVE  t[q].puts = <<>> /\ t[q].put = "test"
    OBVIOUS
  <2>1. ThreadShape(t[q])
    BY <1>0 DEF ThreadInv
  <2>2. t[q].puts = <<>>
    BY <1>1, <2>1 DEF ThreadShape, WithPuts
  <2> QED
    BY <2>1, <2>2 DEF ThreadShape
<1>3. \A q \in Proc : t[q].pc \in Boots /\ Counted(q) = 0 /\ t[q].pc # "unlinked"
  BY <1>1 DEF Counted, Boots
<1>4. \A q \in Proc, k \in Kinds \ {"cwd"} : HeldNow(q, k) = 0
  <2> SUFFICES ASSUME NEW q \in Proc, NEW k \in Kinds \ {"cwd"}
               PROVE  HeldNow(q, k) = 0
    OBVIOUS
  <2>1. HeldNow(q, "first") = 0 /\ HeldNow(q, "last") = 0
    BY <1>2, NoPuts DEF HeldNow
  <2>2. HeldNow(q, "file") = 0 /\ HeldNow(q, "cur") = 0 /\ HeldNow(q, "ip") = 0
    BY <1>1, <1>3 DEF HeldNow, Holding, Boots, WithCur, Finds, WithIp, Second
  <2> QED
    BY <2>1, <2>2 DEF Kinds
<1>5. \A q \in Proc : HeldNow(q, "cwd") = cwd[q]
  BY <1>3 DEF HeldNow, Holding, Boots
<1>6. \A q \in Proc \ {p}, k \in Kinds : HeldNow(q, k) = 0
  BY <1>1, <1>4, <1>5
<1>7. \A s \in Slot : lock[s] = None
  <2> SUFFICES ASSUME NEW s \in Slot, NEW q \in Proc, lock[s] = q
               PROVE  FALSE
    BY <1>0 DEF TypeOK
  <2>1. s \in MayLock(q)
    BY <1>0 DEF LockInv, LockOf
  <2>2. MayLock(q) = {}
    BY <1>2, <1>3, Ready DEF Locking, Boots
  <2> QED
    BY <2>1, <2>2
<1>8. cwd[p] \in Slot
  BY <1>0, <1>1, UserHeld
<1> QED
  BY <1>1, <1>2, <1>3, <1>4, <1>5, <1>6, <1>7, <1>8

(* A step of ireclaim() outside iput(). *)
LEMMA BootFrame ==
  ASSUME IInv, NEW p \in Proc, t[p].pc \in {"reclaim", "reclaimed"}, t[p].puts = <<>>, Others(p),
         Fixed, lock' = lock, UNCHANGED user,
         t'[p].pc \in {"reclaim", "reclaimed"}, ThreadType(t'[p]), ThreadShape(t'[p]), t'[p].put = "test",
         active' \subseteq Proc, t'[p].pc = "reclaimed" => p \in active',
         t'[p].puts # <<>> => inum'[t'[p].puts[1]] = t'[p].inum,
         RefInv', TableInv', ref' \in [Slot -> Nat], inum' \in [Slot -> 0..NINODES], valid' \subseteq Slot,
         \A s \in Slot : ref'[s] > 0 => inode[inum'[s]].type # "free",
         OrphanInv'
  PROVE  IInv'
<1>0. /\ TypeOK /\ SavedConsistent /\ ThreadInv /\ RefInv /\ TableInv /\ LockInv
      /\ LinkInv /\ EntryInv /\ DirInv /\ BlockInv /\ HeldInv /\ PutInv
  BY DEF IInv
<1>1. /\ \A q \in Proc \ {p} : t[q].pc = "down" /\ cwd[q] = 0
      /\ \A q \in Proc : /\ t[q].puts = <<>> /\ t[q].put = "test" /\ file[q] = 0
                         /\ Counted(q) = 0 /\ t[q].pc # "unlinked"
      /\ cwd[p] # 0 /\ \A s \in Slot : lock[s] = None
  BY Booting
<1>2. /\ t' = [q \in Proc |-> t'[q]] /\ \A q \in Proc \ {p} : t'[q] = t[q]
      /\ \A q \in Proc : t'[q].put = "test" /\ t'[q].pc \in Boots
  BY <1>1 DEF Others, Boots
<1>3. TypeOK'
  BY <1>0 DEF TypeOK, Fixed, user, TableInv
<1>4. SavedConsistent'
  BY <1>0 DEF SavedConsistent, Fixed
<1>5. ThreadInv'
  <2>1. \A q \in Proc : ThreadType(t'[q]) /\ ThreadShape(t'[q])
    BY <1>0, <1>2 DEF ThreadInv
  <2>2. BootInv'
    <3>1. \A q \in Proc \ {p} : t'[q].pc = "down" /\ cwd'[q] = 0
      BY <1>1, <1>2 DEF Others
    <3>2. cwd'[p] # 0 /\ \A q \in Proc : file'[q] = 0
      BY <1>1 DEF user
    <3> QED
      BY <3>1, <3>2 DEF BootInv
  <2>3. ActiveInv'
    BY <1>1, <1>2 DEF ActiveInv
  <2> QED
    BY <1>2, <2>1, <2>2, <2>3 DEF ThreadInv
<1>6. LockInv'
  <2>1. \A s \in Slot : lock'[s] = None
    BY <1>1
  <2>2. \A s \in Slot, q \in Proc : lock'[s] # q
    BY <2>1, Sizes
  <2> QED
    BY <1>2, <2>2 DEF LockInv, LockOf, Boots, Locking
<1>7. \A q \in Proc : Counted(q)' = 0 /\ t'[q].pc # "unlinked"
  BY <1>2 DEF Counted, Boots
<1>8. Linking' = Linking /\ Dying' = Dying /\ Live' = Live
  <2>1. inode' = inode
    BY DEF Fixed
  <2>2. \A q \in Proc : /\ Counted(q)' = Counted(q)
                        /\ t'[q].pc = "unlinked" <=> t[q].pc = "unlinked"
                        /\ Counted(q) # 0 => inum'[Counted(q)] = inum[Counted(q)]
    BY <1>1, <1>7
  <2> QED
    BY <1>0, <1>5, <2>1, <2>2, LinkFrame
<1>9. LinkInv' /\ EntryInv' /\ DirInv' /\ BlockInv'
  <2>1. inode' = inode /\ used' = used
    BY DEF Fixed
  <2> QED
    BY <1>0, <1>8, <2>1, DiskFrame
<1>10. HeldInv'
  <2>1. \A q \in Proc : Knows(q)'
    BY <1>2 DEF Knows, Boots
  <2>2. (\A s \in Slot : ref[s] > 0 => Ip(s).type # "free")'
    BY DEF Ip, Fixed
  <2> QED
    BY <2>1, <2>2 DEF HeldInv
<1>11. PutInv'
  <2>1. \A q \in Proc : t'[q].put = "test"
    BY <1>2
  <2>2. (\A q \in Proc : t[q].pc = "reclaimed" /\ t[q].put = "test" /\ t[q].puts # <<>> => inum[PutSlot(q)] = t[q].inum)'
    <3> SUFFICES ASSUME NEW q \in Proc, t'[q].puts # <<>>
                 PROVE  inum'[Head(t'[q].puts)] = t'[q].inum
      BY DEF PutSlot
    <3>1. q = p
      BY <1>1, <1>2
    <3>2. Head(t'[q].puts) = t'[q].puts[1]
      <4>1. t'[q].puts \in Seq(Slot)
        BY <3>1 DEF ThreadType
      <4> QED
        BY <4>1
    <3> QED
      BY <3>1, <3>2
  <2> QED
    BY <2>1, <2>2 DEF PutInv
<1> QED
  BY <1>3, <1>4, <1>5, <1>6, <1>9, <1>10, <1>11 DEF IInv

(* ireclaim() finds an inode without links. *)
LEMMA ReclaimStep ==
  ASSUME IInv, NEW p \in Proc, Reclaim(p)
  PROVE  IInv'
<1>1. PICK i \in Inum : i = t[p].inum
  BY DEF Reclaim
<1>2. PICK s : s = SlotOf(i)
  OBVIOUS
<1>3. /\ t[p].pc = "reclaim" /\ t[p].puts = <<>> /\ Orphan(i) /\ active' = active \union {p} /\ Iget(i)
      /\ valid' = valid \union {s} /\ Go(p, [pc |-> "reclaimed", puts |-> <<s>>])
      /\ Fixed /\ lock' = lock /\ UNCHANGED user
  BY <1>1, <1>2 DEF Reclaim, At, ReadIn, Fixed, disk
<1>4. /\ TypeOK /\ ThreadInv /\ RefInv /\ TableInv /\ HeldInv /\ OrphanInv /\ PutInv
      /\ ThreadType(t[p]) /\ ThreadShape(t[p]) /\ t[p].put = "test"
  BY <1>3, Ready DEF IInv
<1>5. /\ \A q \in Proc \ {p} : t[q].pc = "down"
      /\ \A q \in Proc : t[q].puts = <<>> /\ t[q].put = "test"
      /\ HeldNow(p, "cwd") = cwd[p] /\ \A k \in Kinds \ {"cwd"} : HeldNow(p, k) = 0
  BY <1>3, Booting
<1>6. /\ TableInv' /\ ref' \in [Slot -> Nat] /\ inum' \in [Slot -> 0..NINODES]
      /\ s \in Slot /\ ref'[s] > 0 /\ inum'[s] = i
      /\ \A r \in Slot : ref[r] > 0 => ref'[r] > 0 /\ inum'[r] = inum[r]
      /\ \A r \in Slot : r # s => ref'[r] = ref[r] /\ inum'[r] = inum[r]
      /\ ref' = [ref EXCEPT ![s] = @ + 1]
  BY <1>2, <1>3, <1>4, IgetTable
<1>7. /\ t' = [q \in Proc |-> t'[q]] /\ \A q \in Proc \ {p} : t'[q] = t[q]
      /\ t'[p].pc = "reclaimed" /\ t'[p].puts = <<s>> /\ t'[p].call = t[p].call /\ t'[p].path = t[p].path
      /\ t'[p].cur = t[p].cur /\ t'[p].ip = t[p].ip /\ t'[p].name = t[p].name /\ t'[p].put = t[p].put
      /\ t'[p].inum = i
  BY <1>1, <1>3, <1>4, GoFields DEF Fields
<1>8. Others(p)
  BY <1>3, <1>7 DEF Others, user
<1>9. <<s>> \in Seq(Slot) /\ Len(<<s>>) <= 2 /\ Len(<<s>>) # 2 /\ <<s>> # <<>> /\ <<s>>[1] = s
  BY <1>6, OneSeq
<1>10. ThreadType(t'[p])
  BY <1>1, <1>4, <1>7, <1>9 DEF ThreadType, Pcs, Boots
<1>11. ThreadShape(t'[p])
  BY <1>3, <1>4, <1>7, <1>9 DEF ThreadShape, InCall, Finds, Second, WithCur, WithPuts
<1>12. RefInv'
  <2>1. HeldNext(p, "last") = s /\ HeldNext(p, "first") = 0
    BY <1>4, <1>7, OnePut DEF HeldNext
  <2>2. /\ HeldNext(p, "cwd") = HeldNow(p, "cwd") /\ HeldNext(p, "file") = HeldNow(p, "file")
        /\ HeldNext(p, "cur") = 0 /\ HeldNext(p, "ip") = 0
    BY <1>3, <1>7 DEF HeldNext, HeldNow, Holding, WithCur, Finds, WithIp, Second, user
  <2>3. \A k \in Kinds \ {"last"} : HeldNext(p, k) = HeldNow(p, Swap("last", "last")[k])
    BY <1>5, <2>1, <2>2 DEF Swap, Kinds
  <2>4. HeldNow(p, Swap("last", "last")["last"]) = 0 /\ "last" \in Kinds
    BY <1>5 DEF Swap, Kinds
  <2>5. Swap("last", "last") \in [Kinds -> Kinds] /\ \A k \in Kinds : Swap("last", "last")[Swap("last", "last")[k]] = k
    BY Swapping DEF Kinds
  <2>6. TypeOK /\ RefInv /\ Others(p) /\ s \in Slot /\ ref' = [ref EXCEPT ![s] = @ + 1] /\ HeldNext(p, "last") = s
    BY <1>4, <1>6, <1>8, <2>1
  <2> QED
    BY <2>3, <2>4, <2>5, <2>6, RefsGained
<1>13. \A r \in Slot : ref'[r] > 0 => inode[inum'[r]].type # "free"
  <2> SUFFICES ASSUME NEW r \in Slot, ref'[r] > 0
               PROVE  inode[inum'[r]].type # "free"
    OBVIOUS
  <2>1. CASE r = s
    BY <1>3, <1>6, <2>1 DEF Orphan
  <2>2. CASE r # s
    BY <1>4, <1>6, <2>2 DEF HeldInv, Ip
  <2> QED
    BY <2>1, <2>2
<1>14. OrphanInv'
  <2>1. (\A r \in Slot : ref[r] > 0 /\ Ip(r).nlink = 0 => r \in valid)'
    <3> SUFFICES ASSUME NEW r \in Slot \ {s}, ref'[r] > 0, inode[inum'[r]].nlink = 0
                 PROVE  r \in valid
      BY <1>3 DEF Ip, Fixed
    <3>1. ref[r] > 0 /\ inode[inum[r]].nlink = 0
      BY <1>6
    <3> QED
      BY <1>4, <1>5, <3>1 DEF OrphanInv, Ip
  <2>2. ASSUME NEW j \in Inum, inode[j].type # "free", inode[j].nlink = 0
        PROVE  (\E r \in Slot : inum'[r] = j) \/ t'[p].inum < j
    <3>1. CASE \E r \in Slot : inum[r] = j
      <4>1. PICK r \in Slot : inum[r] = j
        BY <3>1
      <4>2. ref[r] > 0
        BY <1>4, <4>1, Numbers DEF TableInv, TypeOK
      <4> QED
        BY <1>6, <4>1, <4>2
    <3>2. CASE t[p].inum <= j
      <4>1. i < j \/ i = j
        BY <1>1, <3>2, Numbers
      <4> QED
        BY <1>6, <1>7, <4>1
    <3> QED
      BY <1>3, <1>4, <1>5, <2>2, <3>1, <3>2 DEF OrphanInv, Orphan
  <2>3. (\A j \in Inum : Orphan(j) => (\E r \in Slot : inum[r] = j) \/ \E q \in Proc : t[q].pc = "reclaimed" /\ t[q].inum < j)'
    BY <1>3, <1>7, <2>2 DEF Orphan, Fixed
  <2> QED
    BY <2>1, <2>3 DEF OrphanInv
<1>15. valid' \subseteq Slot /\ active' \subseteq Proc
  BY <1>3, <1>4, <1>6 DEF TypeOK
<1>16. inum'[t'[p].puts[1]] = t'[p].inum
  BY <1>6, <1>7, <1>9
<1> QED
  BY <1>3, <1>4, <1>6, <1>7, <1>8, <1>10, <1>11, <1>12, <1>13, <1>14, <1>15, <1>16, BootFrame

(* ireclaim() goes on to the next inode. *)
LEMMA ReclaimNextStep ==
  ASSUME IInv, NEW p \in Proc, ReclaimNext(p)
  PROVE  IInv'
<1>1. /\ t[p].pc \in {"reclaim", "reclaimed"} /\ t[p].puts = <<>> /\ active' = active \ {p}
      /\ t[p].pc = "reclaim" => t[p].inum \in Inum /\ ~Orphan(t[p].inum)
      /\ Go(p, [pc |-> "reclaim", inum |-> t[p].inum + 1])
      /\ Fixed /\ lock' = lock /\ UNCHANGED user /\ ref' = ref /\ inum' = inum /\ valid' = valid
  BY DEF ReclaimNext, At, Fixed, disk
<1>2. /\ TypeOK /\ ThreadInv /\ RefInv /\ TableInv /\ HeldInv /\ OrphanInv /\ PutInv
      /\ ThreadType(t[p]) /\ ThreadShape(t[p]) /\ t[p].put = "test"
  BY <1>1, Ready DEF IInv
<1>3. PICK i \in Inum : i = t[p].inum
  BY <1>1, <1>2 DEF ThreadShape
<1>4. PICK n \in 0..NINODES+1 : n = i + 1 /\ n # 0
  BY <1>3, Sizes DEF Inum
<1>5. /\ \A q \in Proc \ {p} : t[q].pc = "down"
      /\ \A q \in Proc : t[q].puts = <<>> /\ t[q].put = "test"
      /\ HeldNow(p, "cwd") = cwd[p] /\ \A k \in Kinds \ {"cwd"} : HeldNow(p, k) = 0
  BY <1>1, Booting
<1>6. /\ t' = [q \in Proc |-> t'[q]] /\ \A q \in Proc \ {p} : t'[q] = t[q]
      /\ t'[p].pc = "reclaim" /\ t'[p].puts = <<>> /\ t'[p].call = t[p].call /\ t'[p].path = t[p].path
      /\ t'[p].cur = t[p].cur /\ t'[p].ip = t[p].ip /\ t'[p].name = t[p].name /\ t'[p].put = t[p].put
      /\ t'[p].inum = n
  BY <1>1, <1>2, <1>3, <1>4, GoFields DEF Fields
<1>7. Others(p)
  BY <1>1, <1>6 DEF Others, user
<1>8. ThreadType(t'[p])
  BY <1>1, <1>2, <1>4, <1>6 DEF ThreadType, Pcs, Boots
<1>9. ThreadShape(t'[p])
  BY <1>1, <1>2, <1>4, <1>6 DEF ThreadShape, InCall, Finds, Second, WithCur, WithPuts
<1>10. RefInv'
  <2>1. HeldNext(p, "last") = 0 /\ HeldNext(p, "first") = 0
    BY <1>6, NoPuts DEF HeldNext
  <2>2. /\ HeldNext(p, "cwd") = HeldNow(p, "cwd") /\ HeldNext(p, "file") = HeldNow(p, "file")
        /\ HeldNext(p, "cur") = 0 /\ HeldNext(p, "ip") = 0
    BY <1>1, <1>6 DEF HeldNext, HeldNow, Holding, WithCur, Finds, WithIp, Second, user
  <2>3. \A k \in Kinds : HeldNext(p, k) = HeldNow(p, Swap("last", "last")[k])
    BY <1>5, <2>1, <2>2 DEF Swap, Kinds
  <2>4. Swap("last", "last") \in [Kinds -> Kinds] /\ \A k \in Kinds : Swap("last", "last")[Swap("last", "last")[k]] = k
    BY Swapping DEF Kinds
  <2> QED
    BY <1>1, <1>2, <1>7, <2>3, <2>4, RefsMoved
<1>11. TableInv'
  BY <1>1, <1>2 DEF TableInv
<1>12. \A r \in Slot : ref'[r] > 0 => inode[inum'[r]].type # "free"
  BY <1>1, <1>2 DEF HeldInv, Ip
<1>13. OrphanInv'
  <2>1. (\A r \in Slot : ref[r] > 0 /\ Ip(r).nlink = 0 => r \in valid)'
    BY <1>1, <1>2, <1>5 DEF OrphanInv, Ip, Fixed
  <2>2. ASSUME NEW j \in Inum, inode[j].type # "free", inode[j].nlink = 0
        PROVE  (\E r \in Slot : inum[r] = j) \/ t'[p].inum <= j
    <3>1. CASE t[p].pc = "reclaim" /\ t[p].inum <= j
      <4>1. i # j
        BY <1>1, <1>3, <2>2, <3>1 DEF Orphan
      <4> QED
        BY <1>3, <1>4, <1>6, <3>1, <4>1, Numbers
    <3>2. CASE t[p].inum < j
      BY <1>3, <1>4, <1>6, <3>2, Numbers
    <3> QED
      BY <1>2, <1>5, <2>2, <3>1, <3>2 DEF OrphanInv, Orphan
  <2>3. (\A j \in Inum : Orphan(j) => (\E r \in Slot : inum[r] = j) \/ \E q \in Proc : t[q].pc = "reclaim" /\ t[q].inum <= j)'
    BY <1>1, <1>6, <2>2 DEF Orphan, Fixed
  <2> QED
    BY <2>1, <2>3 DEF OrphanInv
<1>14. /\ valid' \subseteq Slot /\ active' \subseteq Proc /\ ref' \in [Slot -> Nat] /\ inum' \in [Slot -> 0..NINODES]
  BY <1>1, <1>2 DEF TypeOK
<1> QED
  BY <1>1, <1>2, <1>6, <1>7, <1>8, <1>9, <1>10, <1>11, <1>12, <1>13, <1>14, BootFrame

(* References that current directories alone hold. *)
LEMMA CwdCount ==
  ASSUME NEW H, NEW P \in SUBSET Proc, NEW c \in Slot,
         \A q \in P : H[<<q, "cwd">>] = c,
         \A q \in Proc \ P : H[<<q, "cwd">>] = 0,
         \A q \in Proc, k \in Kinds \ {"cwd"} : H[<<q, k>>] = 0
  PROVE  /\ Count(H, Refs, c) = Cardinality(P) /\ Cardinality(P) \in Nat
         /\ \A s \in Slot \ {c} : Count(H, Refs, s) = 0
<1>1. \A k \in Refs : (k \in P \X {"cwd"} /\ H[k] = c) \/ (k \notin P \X {"cwd"} /\ H[k] = 0)
  <2> SUFFICES ASSUME NEW q \in Proc, NEW k \in Kinds
               PROVE  (q \in P /\ k = "cwd" /\ H[<<q, k>>] = c) \/ (~(q \in P /\ k = "cwd") /\ H[<<q, k>>] = 0)
    BY DEF Refs
  <2> QED
    OBVIOUS
<1>2. c # 0 /\ \A s \in Slot : s # 0
  BY Numbers
<1>3. P \X {"cwd"} \subseteq Refs
  BY DEF Refs, Kinds
<1>4. {k \in Refs : H[k] = c} = P \X {"cwd"}
  BY <1>1, <1>2, <1>3
<1>5. \A s \in Slot \ {c} : {k \in Refs : H[k] = s} = {}
  BY <1>1, <1>2
<1>6. IsFiniteSet(P)
  BY Sizes, FS_Subset
<1>7. IsFiniteSet({"cwd"}) /\ Cardinality({"cwd"}) = 1
  BY FS_Singleton
<1>8. Cardinality(P \X {"cwd"}) = Cardinality(P) * Cardinality({"cwd"})
  BY <1>6, <1>7, FS_Product
<1>9. Cardinality(P) \in Nat
  BY <1>6, FS_CardinalityType
<1>10. Cardinality(P \X {"cwd"}) = Cardinality(P)
  BY <1>7, <1>8, <1>9
<1>11. Cardinality({}) = 0
  BY FS_EmptySet
<1> QED
  BY <1>4, <1>5, <1>9, <1>10, <1>11 DEF Count

(* The file system is up. *)
LEMMA ReclaimDoneStep ==
  ASSUME IInv, NEW p \in Proc, ReclaimDone(p)
  PROVE  IInv'
<1>1. /\ t[p].pc = "reclaim" /\ t[p].puts = <<>> /\ t[p].inum \notin Inum
      /\ ref' = [ref EXCEPT ![cwd[p]] = @ + Cardinality(Proc) - 1]
      /\ cwd' = [q \in Proc |-> cwd[p]] /\ t' = [q \in Proc |-> Idle]
      /\ Fixed /\ inum' = inum /\ valid' = valid /\ lock' = lock /\ file' = file /\ active' = active /\ ops' = ops
  BY DEF ReclaimDone, At, Fixed, disk
<1>2. /\ TypeOK /\ SavedConsistent /\ ThreadInv /\ RefInv /\ TableInv /\ LockInv
      /\ LinkInv /\ EntryInv /\ DirInv /\ BlockInv /\ HeldInv /\ PutInv /\ OrphanInv
      /\ ThreadType(t[p]) /\ ThreadShape(t[p])
  BY <1>1, Ready DEF IInv
<1>3. PICK c \in Slot : c = cwd[p]
  BY <1>1, Booting
<1>4. /\ \A q \in Proc \ {p} : t[q].pc = "down"
      /\ \A q \in Proc : t[q].puts = <<>> /\ t[q].put = "test" /\ file[q] = 0 /\ Counted(q) = 0 /\ t[q].pc # "unlinked"
      /\ HeldNow(p, "cwd") = c /\ \A k \in Kinds \ {"cwd"} : HeldNow(p, k) = 0
      /\ \A q \in Proc \ {p}, k \in Kinds : HeldNow(q, k) = 0
      /\ \A s \in Slot : lock[s] = None
  BY <1>1, <1>3, Booting
<1>5. \A q \in Proc : /\ t'[q].pc = "idle" /\ t'[q].puts = <<>> /\ t'[q].put = "test" /\ t'[q].ip = 0 /\ t'[q].cur = 0
                      /\ t'[q].call = None /\ t'[q].path = <<>> /\ t'[q].name = "." /\ t'[q].inum = 0
  BY <1>1 DEF Idle
<1>6. ref[c] = 1 /\ \A s \in Slot \ {c} : ref[s] = 0
  <2>1. PICK H : H = Held
    OBVIOUS
  <2>2. \A q \in Proc, k \in Kinds : H[<<q, k>>] = HeldNow(q, k)
    BY <2>1, HeldIs
  <2>3. "cwd" \in Kinds
    BY DEF Kinds
  <2>4. {p} \in SUBSET Proc /\ \A q \in {p} : H[<<q, "cwd">>] = c
    BY <1>4, <2>2, <2>3
  <2>5. \A q \in Proc \ {p} : H[<<q, "cwd">>] = 0
    BY <1>4, <2>2, <2>3
  <2>6. \A q \in Proc, k \in Kinds \ {"cwd"} : H[<<q, k>>] = 0
    <3> SUFFICES ASSUME NEW q \in Proc, NEW k \in Kinds \ {"cwd"}
                 PROVE  H[<<q, k>>] = 0
      OBVIOUS
    <3>1. CASE q = p
      BY <1>4, <2>2, <3>1
    <3>2. CASE q # p
      BY <1>4, <2>2, <3>2
    <3> QED
      BY <3>1, <3>2
  <2>7. PICK P \in SUBSET Proc : P = {p}
    BY <2>4
  <2>8. Count(H, Refs, c) = Cardinality(P) /\ \A s \in Slot \ {c} : Count(H, Refs, s) = 0
    BY <2>4, <2>5, <2>6, <2>7, CwdCount
  <2>9. Cardinality({p}) = 1
    BY FS_Singleton
  <2> QED
    BY <1>2, <2>1, <2>7, <2>8, <2>9, RefInvNow
<1>7. RefInv'
  <2>1. PICK H : H = NextHeld
    OBVIOUS
  <2>2. \A q \in Proc, k \in Kinds : H[<<q, k>>] = HeldNext(q, k)
    BY <2>1, HeldIs
  <2>3. \A q \in Proc : HeldNext(q, "cwd") = c
    BY <1>1, <1>3, <1>5 DEF HeldNext, Holding
  <2>4. \A q \in Proc, k \in Kinds \ {"cwd"} : HeldNext(q, k) = 0
    <3> SUFFICES ASSUME NEW q \in Proc, NEW k \in Kinds \ {"cwd"}
                 PROVE  HeldNext(q, k) = 0
      OBVIOUS
    <3>1. HeldNext(q, "first") = 0 /\ HeldNext(q, "last") = 0
      BY <1>5, NoPuts DEF HeldNext
    <3>2. HeldNext(q, "file") = 0 /\ HeldNext(q, "cur") = 0 /\ HeldNext(q, "ip") = 0
      BY <1>1, <1>4, <1>5 DEF HeldNext, Holding, WithCur, Finds, WithIp, Second
    <3> QED
      BY <3>1, <3>2 DEF Kinds
  <2>5. "cwd" \in Kinds
    BY DEF Kinds
  <2>6. \A q \in Proc : H[<<q, "cwd">>] = c
    BY <2>2, <2>3, <2>5
  <2>7. \A q \in Proc, k \in Kinds \ {"cwd"} : H[<<q, k>>] = 0
    BY <2>2, <2>4
  <2>8. PICK P \in SUBSET Proc : P = Proc
    OBVIOUS
  <2>9. /\ Count(H, Refs, c) = Cardinality(P) /\ Cardinality(P) \in Nat
        /\ \A s \in Slot \ {c} : Count(H, Refs, s) = 0
    BY <2>6, <2>7, <2>8, CwdCount
  <2>10. ref' = [ref EXCEPT ![c] = @ + Cardinality(Proc) - 1] /\ ref \in [Slot -> Nat]
    BY <1>1, <1>2, <1>3 DEF TypeOK
  <2>11. ref'[c] = Cardinality(P)
    BY <1>6, <2>8, <2>9, <2>10
  <2>12. \A s \in Slot \ {c} : ref'[s] = 0
    BY <1>6, <2>10
  <2>13. \A s \in Slot : ref'[s] = Count(NextHeld, Refs, s)
    BY <2>1, <2>9, <2>11, <2>12
  <2> QED
    BY <2>13, RefInvNext
<1>8. ref'[c] > 0 /\ ref' \in [Slot -> Nat] /\ \A s \in Slot \ {c} : ref'[s] = 0
  <2>1. Cardinality(Proc) \in Nat /\ Cardinality(Proc) # 0
    BY Sizes, FS_CardinalityType, FS_EmptySet
  <2>2. ref' = [ref EXCEPT ![c] = @ + Cardinality(Proc) - 1] /\ ref \in [Slot -> Nat]
    BY <1>1, <1>2, <1>3 DEF TypeOK
  <2> QED
    BY <1>6, <2>1, <2>2
<1>9. TypeOK'
  <2>1. cwd' \in [Proc -> 0..NINODE]
    BY <1>1, <1>3, Numbers
  <2>2. (\A s, r \in Slot : ref[s] > 0 /\ ref[r] > 0 /\ inum[s] = inum[r] => s = r)'
    BY <1>8
  <2> QED
    BY <1>1, <1>2, <1>8, <2>1, <2>2 DEF TypeOK, Fixed
<1>10. SavedConsistent'
  BY <1>1, <1>2 DEF SavedConsistent, Fixed
<1>11. ThreadInv'
  <2>1. <<>> \in Seq(Slot) /\ <<>> \in Seq(Entry) /\ Len(<<>>) = 0
    OBVIOUS
  <2>0. 0 \in 0..NINODE /\ 0 \in 0..NINODES+1
    BY Sizes
  <2>2. ThreadType(Idle)
    BY <2>0, <2>1, EntryNames DEF ThreadType, Idle, Pcs, Phases
  <2>3. ThreadShape(Idle)
    BY <2>1 DEF ThreadShape, Idle, InCall, Finds, Second, WithCur, WithPuts
  <2>4. BootInv'
    <3>1. \A q \in Proc : t'[q].pc \notin Boots /\ cwd'[q] # 0
      BY <1>1, <1>3, <1>5, Numbers DEF Boots
    <3> QED
      BY <3>1 DEF BootInv
  <2>5. ActiveInv'
    BY <1>5 DEF ActiveInv
  <2>6. t' = [q \in Proc |-> t'[q]]
    BY <1>1
  <2>7. \A q \in Proc : ThreadType(t'[q]) /\ ThreadShape(t'[q])
    BY <1>1, <2>2, <2>3
  <2> QED
    BY <2>4, <2>5, <2>6, <2>7 DEF ThreadInv
<1>12. TableInv'
  BY <1>1, <1>2, <1>6, <1>8 DEF TableInv
<1>13. LockInv'
  <2>1. \A s \in Slot, q \in Proc : lock'[s] # q
    BY <1>1, <1>4, Sizes
  <2> QED
    BY <1>5, <2>1 DEF LockInv, LockOf, Locking
<1>14. Linking' = Linking /\ Dying' = Dying /\ Live' = Live
  <2>1. \A q \in Proc : Counted(q)' = 0 /\ t'[q].pc # "unlinked"
    BY <1>5 DEF Counted
  <2>2. inode' = inode
    BY <1>1 DEF Fixed
  <2>3. \A q \in Proc : /\ Counted(q)' = Counted(q)
                        /\ t'[q].pc = "unlinked" <=> t[q].pc = "unlinked"
                        /\ Counted(q) # 0 => inum'[Counted(q)] = inum[Counted(q)]
    BY <1>4, <2>1
  <2> QED
    BY <1>2, <1>11, <2>2, <2>3, LinkFrame
<1>15. LinkInv' /\ EntryInv' /\ DirInv' /\ BlockInv'
  <2>1. inode' = inode /\ used' = used
    BY <1>1 DEF Fixed
  <2> QED
    BY <1>2, <1>14, <2>1, DiskFrame
<1>16. HeldInv'
  <2>1. \A q \in Proc : Knows(q)'
    BY <1>5 DEF Knows
  <2>2. inode[inum[c]].type # "free"
    BY <1>2, <1>6 DEF HeldInv, Ip
  <2>3. (\A s \in Slot : ref[s] > 0 => Ip(s).type # "free")'
    BY <1>1, <1>8, <2>2 DEF Ip, Fixed
  <2> QED
    BY <2>1, <2>3 DEF HeldInv
<1>17. PutInv'
  BY <1>5 DEF PutInv
<1>18. OrphanInv'
  <2>1. inode[inum[c]].nlink = 0 => c \in valid
    BY <1>2, <1>4, <1>6 DEF OrphanInv, Ip
  <2>2. (\A s \in Slot : ref[s] > 0 /\ Ip(s).nlink = 0 => s \in valid)'
    BY <1>1, <1>8, <2>1 DEF Ip, Fixed
  <2>3. \A j \in Inum : Orphan(j) => \E s \in Slot : inum[s] = j
    <3> SUFFICES ASSUME NEW j \in Inum, Orphan(j)
                 PROVE  \E s \in Slot : inum[s] = j
      OBVIOUS
    <3>1. ~(t[p].inum <= j)
      <4>1. t[p].inum \in 0..NINODES+1 /\ t[p].inum # 0
        BY <1>1, <1>2 DEF ThreadType, ThreadShape
      <4> QED
        BY <1>1, <4>1, Sizes DEF Inum
    <3> QED
      BY <1>1, <1>2, <1>4, <3>1 DEF OrphanInv
  <2>4. (\A j \in Inum : Orphan(j) => \E s \in Slot : inum[s] = j)'
    BY <1>1, <2>3 DEF Orphan, Fixed
  <2> QED
    BY <2>2, <2>4 DEF OrphanInv
<1> QED
  BY <1>7, <1>9, <1>10, <1>11, <1>12, <1>13, <1>15, <1>16, <1>17, <1>18 DEF IInv

-----------------------------------------------------------------------------
(* Between calls: the links that are counted are the entries of the disk.  *)

(* When no call is in progress. *)
Quiet == \A q \in Proc : t[q].pc \in {"idle", "down", "reclaim"}

(* What links the inodes then. *)
LEMMA QuietLinks ==
  ASSUME Quiet
  PROVE  /\ Dying = {} /\ Live = Dirs(inode)
         /\ \A i \in Inum : Count(Linking, Links0, i) = Links(inode, i)
<1>1. \A q \in Proc : Counted(q) = 0 /\ t[q].pc # "unlinked"
  BY DEF Quiet, Counted
<1>2. Dying = {} /\ Live = Dirs(inode)
  BY <1>1 DEF Dying, Live
<1>3. ASSUME NEW i \in Inum
      PROVE  Count(Linking, Links0, i) = Links(inode, i)
  <2> DEFINE A == {e \in Dirs(inode) \X (Entry \ {"."}) : inode[e[1]].dir[e[2]] = i}
             B == {k \in Links0 : Linking[k] = i}
             g == [e \in A |-> <<"entry", e>>]
  <2>1. \A d \in Dirs(inode) : d \in Inum /\ d \in Live
    BY <1>2 DEF Dirs
  <2>2. ASSUME NEW e \in A
        PROVE  <<"entry", e>> \in B
    <3>1. PICK d \in Dirs(inode), n \in Entry \ {"."} : e = <<d, n>> /\ inode[d].dir[n] = i
      OBVIOUS
    <3>2. Rec(d, n) \in Links0 /\ Linking[Rec(d, n)] = i
      BY <2>1, <3>1, LinkingIs
    <3>3. Rec(d, n) = <<"entry", e>>
      BY <3>1 DEF Rec
    <3> QED
      BY <3>2, <3>3
  <2>3. ASSUME NEW k \in B
        PROVE  \E e \in A : k = <<"entry", e>>
    <3>1. k \in Links0 /\ Linking[k] = i /\ i # 0
      BY Numbers
    <3>2. \A q \in Proc : k # CallRec(q)
      BY <1>1, <3>1, LinkingIs
    <3>3. PICK d \in Inum, n \in Entry \ {"."} : k = Rec(d, n)
      BY <3>1, <3>2, LinkingIs
    <3>4. d \in Dirs(inode) /\ inode[d].dir[n] = i
      BY <1>2, <3>1, <3>3, LinkingIs
    <3>5. <<d, n>> \in A
      BY <3>4
    <3> QED
      BY <3>3, <3>5 DEF Rec
  <2>4. g \in [A -> B]
    BY <2>2
  <2>5. \A x, y \in A : g[x] = g[y] => x = y
    OBVIOUS
  <2>6. \A k \in B : \E x \in A : g[x] = k
    BY <2>3
  <2>7. IsFiniteSet(A)
    <3>1. IsFiniteSet(Inum \X Entry)
      BY Numbers, EntryNames, FS_Product
    <3>2. A \subseteq Inum \X Entry
      BY <2>1
    <3> QED
      BY <3>1, <3>2, FS_Subset
  <2>8. Links(inode, i) = Cardinality(A) /\ Count(Linking, Links0, i) = Cardinality(B)
    BY DEF Links, Count
  <2> HIDE DEF g, A, B
  <2>9. g \in Bijection(A, B)
    BY <2>4, <2>5, <2>6, Fun_IsBij
  <2>10. ExistsBijection(A, B)
    BY <2>9 DEF ExistsBijection
  <2>11. Cardinality(B) = Cardinality(A)
    BY <2>7, <2>10, FS_Bijection
  <2> QED
    BY <2>8, <2>11
<1> QED
  BY <1>2, <1>3

(* The disk between calls is consistent. *)
LEMMA QuietDisk ==
  ASSUME IInv, Quiet
  PROVE  LinksRight(inode) /\ TreeRight(inode) /\ BlocksRight(inode, used)
<1>0. TypeOK /\ LinkInv /\ EntryInv /\ DirInv /\ BlockInv
  BY DEF IInv
<1>1. Dying = {} /\ Live = Dirs(inode) /\ \A i \in Inum : Count(Linking, Links0, i) = Links(inode, i)
  BY QuietLinks
<1>2. \A i \in Inum : inode[i].nlink = Links(inode, i)
  BY <1>0, <1>1, LinkInvIs
<1>3. \A d \in Dirs(inode) : \A n \in Entries(inode[d]) : Linked(inode, inode[d].dir[n])
  <2> SUFFICES ASSUME NEW d \in Dirs(inode), NEW n \in Entry, inode[d].dir[n] # 0
               PROVE  Linked(inode, inode[d].dir[n])
    BY DEF Entries
  <2>1. inode[d].dir[n] # 0 => Linked(inode, inode[d].dir[n])
    BY <1>0, <1>1 DEF EntryInv
  <2> QED
    BY <2>1
<1>4. ROOTINO \in Dirs(inode) /\ inode[ROOTINO].dir[".."] = ROOTINO
  BY <1>0, <1>1 DEF DirInv
<1>5. Names(inode, ROOTINO) = {}
  <2> SUFFICES ASSUME NEW d \in Dirs(inode), NEW n \in Name, inode[d].dir[n] = ROOTINO
               PROVE  FALSE
    BY DEF Names
  <2>1. inode[d].dir[n] \in Dirs(inode) => inode[d].dir[n] # ROOTINO
    BY <1>0, <1>1 DEF DirInv
  <2> QED
    BY <1>4, <2>1
<1>6. \A d \in Dirs(inode) : inode[d].dir["."] = d
  BY <1>0, <1>1 DEF DirInv
<1>7. \A d \in Dirs(inode) \ {ROOTINO} : \E n \in Name : Names(inode, d) = {<<inode[d].dir[".."], n>>}
  <2> SUFFICES ASSUME NEW d \in Dirs(inode) \ {ROOTINO}
               PROVE  \E n \in Name : Names(inode, d) = {<<inode[d].dir[".."], n>>}
    OBVIOUS
  <2>1. PICK n \in Name : /\ inode[d].dir[".."] \in Live
                          /\ \A m \in Name : inode[inode[d].dir[".."]].dir[m] = d <=> m = n
    BY <1>0, <1>1 DEF DirInv
  <2>2. PICK f \in Dirs(inode) : f = inode[d].dir[".."]
    BY <1>1, <2>1
  <2>3. inode[f].dir[n] = d
    BY <2>1, <2>2
  <2>4. ASSUME NEW e \in Dirs(inode), NEW m \in Name, inode[e].dir[m] = d
        PROVE  e = f /\ m = n
    <3>1. inode[e].dir[m] \in Dirs(inode) => inode[inode[e].dir[m]].dir[".."] = e
      BY <1>0, <1>1 DEF DirInv
    <3>2. e = f
      BY <2>2, <2>4, <3>1
    <3> QED
      BY <2>1, <2>2, <2>4, <3>2
  <2>5. Names(inode, d) = {<<f, n>>}
    BY <2>3, <2>4 DEF Names
  <2> QED
    BY <2>2, <2>5
<1>8. /\ \A i \in Inum : inode[i].type = "dir" /\ inode[i].nlink = 0 => IsDirEmpty(inode[i])
      /\ \A i \in Inum : inode[i].type # "dir" => Entries(inode[i]) = {}
  BY <1>0 DEF DirInv
<1>9. LinksRight(inode)
  BY <1>2, <1>3 DEF LinksRight
<1>10. TreeRight(inode)
  BY <1>4, <1>5, <1>6, <1>7, <1>8 DEF TreeRight
<1> QED
  BY <1>0, <1>9, <1>10 DEF BlockInv

(* A step that changes no more than the disk a crash leaves. *)
LEMMA SavedFrame ==
  ASSUME IInv, UNCHANGED <<inode, used, ref, inum, valid, lock, file, cwd, active, t, ops, crashes>>,
         saved' \in Image, SavedConsistent'
  PROVE  IInv'
<1>0. /\ TypeOK /\ ThreadInv /\ RefInv /\ TableInv /\ LockInv
      /\ LinkInv /\ EntryInv /\ DirInv /\ BlockInv /\ HeldInv /\ PutInv /\ OrphanInv
  BY DEF IInv
<1>1. TypeOK'
  BY <1>0 DEF TypeOK
<1>2. ThreadInv'
  BY <1>0 DEF ThreadInv, BootInv, ActiveInv
<1>3. RefInv'
  <2>1. Held' = Held
    BY DEF Held
  <2> QED
    BY <1>0, <2>1 DEF RefInv
<1>4. TableInv'
  BY <1>0 DEF TableInv
<1>5. LockInv'
  BY <1>0 DEF LockInv, LockOf, MayLock, PutSlot
<1>6. Linking' = Linking /\ Dying' = Dying /\ Live' = Live
  <2>1. \A q \in Proc : Counted(q)' = Counted(q)
    BY DEF Counted
  <2>2. inode' = inode /\ t' = t /\ inum' = inum
    OBVIOUS
  <2>3. \A q \in Proc : /\ Counted(q)' = Counted(q)
                        /\ t'[q].pc = "unlinked" <=> t[q].pc = "unlinked"
                        /\ Counted(q) # 0 => inum'[Counted(q)] = inum[Counted(q)]
    BY <2>1, <2>2
  <2> QED
    BY <1>0, <1>2, <2>2, <2>3, LinkFrame
<1>7. LinkInv' /\ EntryInv' /\ DirInv' /\ BlockInv'
  BY <1>0, <1>6, DiskFrame
<1>8. HeldInv'
  BY <1>0 DEF HeldInv, Knows, Ip
<1>9. PutInv'
  BY <1>0 DEF PutInv, PutSlot, Gone
<1>10. OrphanInv'
  BY <1>0 DEF OrphanInv, Orphan, Ip, PutSlot
<1> QED
  BY <1>1, <1>2, <1>3, <1>4, <1>5, <1>7, <1>8, <1>9, <1>10 DEF IInv

(* The log commits. *)
LEMMA CommitStep ==
  ASSUME IInv, Commit
  PROVE  IInv'
<1>1. /\ active = {} /\ saved' = [inode |-> inode, used |-> used]
      /\ UNCHANGED <<inode, used, ref, inum, valid, lock, file, cwd, active, t, ops, crashes>>
  BY DEF Commit
<1>2. Quiet
  <2>1. ActiveInv
    BY DEF IInv, ThreadInv
  <2> QED
    BY <1>1, <2>1 DEF ActiveInv, Quiet
<1>3. PICK im : im = [inode |-> inode, used |-> used]
  OBVIOUS
<1>4. im.inode = inode /\ im.used = used
  BY <1>3
<1>5. Consistent(im)
  BY <1>2, <1>4, QuietDisk DEF Consistent
<1>6. SavedConsistent'
  BY <1>1, <1>3, <1>5 DEF SavedConsistent
<1>7. saved' \in Image
  BY <1>1 DEF IInv, TypeOK
<1> QED
  BY <1>1, <1>6, <1>7, SavedFrame

-----------------------------------------------------------------------------
(* The machine starts, at first or after a crash.                          *)

(* What Init and Crash leave. *)
Booted ==
  /\ saved \in Image /\ Consistent(saved) /\ inode = saved.inode /\ used = saved.used
  /\ ref = RefAtBoot /\ inum = InumAtBoot /\ valid = {} /\ lock = [s \in Slot |-> None]
  /\ file = [p \in Proc |-> 0] /\ active = {}
  /\ \E p \in Proc : cwd = CwdAtBoot(p) /\ t = Reclaimer(p)
  /\ ops \in 0..MaxOps /\ crashes \in 0..MaxCrashes

(* The links, entries and blocks of a consistent disk. *)
LEMMA QuietInv ==
  ASSUME Quiet, LinksRight(inode), TreeRight(inode), BlocksRight(inode, used)
  PROVE  LinkInv /\ EntryInv /\ DirInv /\ BlockInv
<1>1. Dying = {} /\ Live = Dirs(inode) /\ \A i \in Inum : Count(Linking, Links0, i) = Links(inode, i)
  BY QuietLinks
<1>2. LinkInv
  BY <1>1 DEF LinkInv, LinksRight, Count
<1>3. EntryInv
  <2> SUFFICES ASSUME NEW d \in Dirs(inode), NEW n \in Entry, inode[d].dir[n] # 0
               PROVE  Linked(inode, inode[d].dir[n])
    BY <1>1 DEF EntryInv
  <2>1. n \in Entries(inode[d])
    BY DEF Entries
  <2> QED
    BY <2>1 DEF LinksRight
<1>4. DirInv
  <2>1. ROOTINO \in Live /\ inode[ROOTINO].dir[".."] = ROOTINO /\ \A d \in Live : inode[d].dir["."] = d
    BY <1>1 DEF TreeRight
  <2>2. ASSUME NEW d \in Live, NEW n \in Name, inode[d].dir[n] \in Dirs(inode)
        PROVE  inode[d].dir[n] # ROOTINO /\ inode[inode[d].dir[n]].dir[".."] = d
    <3>1. PICK e \in Dirs(inode) : e = inode[d].dir[n]
      BY <2>2
    <3>2. <<d, n>> \in Names(inode, e)
      BY <1>1, <3>1 DEF Names
    <3>3. e # ROOTINO
      BY <3>2 DEF TreeRight
    <3>4. PICK m \in Name : Names(inode, e) = {<<inode[e].dir[".."], m>>}
      BY <3>3 DEF TreeRight
    <3>5. <<d, n>> = <<inode[e].dir[".."], m>>
      BY <3>2, <3>4
    <3> QED
      BY <3>1, <3>3, <3>5
  <2>3. ASSUME NEW d \in Live \ {ROOTINO}
        PROVE  \E n \in Name : /\ inode[d].dir[".."] \in Live
                               /\ \A m \in Name : inode[inode[d].dir[".."]].dir[m] = d <=> m = n
    <3>1. PICK n \in Name : Names(inode, d) = {<<inode[d].dir[".."], n>>}
      BY <1>1 DEF TreeRight
    <3>2. PICK f : f = inode[d].dir[".."]
      OBVIOUS
    <3>3. <<f, n>> \in Names(inode, d)
      BY <3>1, <3>2
    <3>4. f \in Dirs(inode) /\ inode[f].dir[n] = d
      BY <3>3 DEF Names
    <3>5. ASSUME NEW m \in Name, inode[f].dir[m] = d
          PROVE  m = n
      <4>1. <<f, m>> \in Names(inode, d)
        BY <3>4, <3>5 DEF Names
      <4>2. <<f, m>> = <<f, n>>
        BY <3>1, <3>2, <4>1
      <4> QED
        BY <4>2
    <3>6. \A m \in Name : inode[f].dir[m] = d <=> m = n
      BY <3>4, <3>5
    <3> QED
      BY <1>1, <3>2, <3>4, <3>6
  <2>4. /\ \A i \in Inum : inode[i].type = "dir" /\ (inode[i].nlink = 0 \/ i \in Dying) => IsDirEmpty(inode[i])
        /\ \A i \in Inum : inode[i].type # "dir" => Entries(inode[i]) = {}
    BY <1>1 DEF TreeRight
  <2> QED
    BY <2>1, <2>2, <2>3, <2>4 DEF DirInv
<1> QED
  BY <1>2, <1>3, <1>4 DEF BlockInv

(* The machine starts with the invariant. *)
LEMMA BootedInv == Booted => IInv
<1> SUFFICES ASSUME Booted
             PROVE  IInv
  OBVIOUS
<1>1. PICK p \in Proc : cwd = CwdAtBoot(p) /\ t = Reclaimer(p)
  BY DEF Booted
<1>2. /\ saved \in Image /\ Consistent(saved) /\ inode = saved.inode /\ used = saved.used
      /\ ref = RefAtBoot /\ inum = InumAtBoot /\ valid = {} /\ lock = [s \in Slot |-> None]
      /\ file = [q \in Proc |-> 0] /\ active = {}
      /\ ops \in 0..MaxOps /\ crashes \in 0..MaxCrashes
  BY DEF Booted
<1>3. /\ \A q \in Proc : t[q] = IF q = p THEN [Down EXCEPT !.pc = "reclaim", !.inum = 1] ELSE Down
      /\ t = [q \in Proc |-> t[q]]
  BY <1>1 DEF Reclaimer
<1>4. \A q \in Proc : /\ t[q].pc = IF q = p THEN "reclaim" ELSE "down"
                      /\ t[q].inum = IF q = p THEN 1 ELSE 0
                      /\ t[q].puts = <<>> /\ t[q].put = "test" /\ t[q].ip = 0 /\ t[q].cur = 0
                      /\ t[q].call = None /\ t[q].path = <<>> /\ t[q].name = "."
  <2>1. /\ Down.pc = "down" /\ Down.inum = 0 /\ Down.puts = <<>> /\ Down.put = "test" /\ Down.ip = 0
        /\ Down.cur = 0 /\ Down.call = None /\ Down.path = <<>> /\ Down.name = "."
    BY DEF Down, Idle
  <2>2. PICK r : r = [Down EXCEPT !.pc = "reclaim", !.inum = 1]
    OBVIOUS
  <2>3. /\ r.pc = "reclaim" /\ r.inum = 1 /\ r.puts = <<>> /\ r.put = "test" /\ r.ip = 0
        /\ r.cur = 0 /\ r.call = None /\ r.path = <<>> /\ r.name = "."
    BY <2>2 DEF Down, Idle
  <2> SUFFICES ASSUME NEW q \in Proc
               PROVE  /\ t[q].pc = IF q = p THEN "reclaim" ELSE "down"
                      /\ t[q].inum = IF q = p THEN 1 ELSE 0
                      /\ t[q].puts = <<>> /\ t[q].put = "test" /\ t[q].ip = 0 /\ t[q].cur = 0
                      /\ t[q].call = None /\ t[q].path = <<>> /\ t[q].name = "."
    OBVIOUS
  <2>4. CASE q = p
    <3>1. t[q] = r
      BY <1>3, <2>2, <2>4
    <3> QED
      BY <2>3, <2>4, <3>1
  <2>5. CASE q # p
    <3>1. t[q] = Down
      BY <1>3, <2>5
    <3> QED
      BY <2>1, <2>5, <3>1
  <2> QED
    BY <2>4, <2>5
<1>5. Quiet
  BY <1>4 DEF Quiet
<1>6. LinkInv /\ EntryInv /\ DirInv /\ BlockInv
  <2>1. LinksRight(inode) /\ TreeRight(inode) /\ BlocksRight(inode, used)
    BY <1>2 DEF Consistent
  <2> QED
    BY <1>5, <2>1, QuietInv
<1>7. Live = Dirs(inode) /\ ROOTINO \in Live
  BY <1>5, <1>6, QuietLinks DEF DirInv
<1>8. inode[ROOTINO].type # "free" /\ inode[ROOTINO].nlink > 0
  BY <1>7 DEF Dirs, Linked
<1>9. /\ ref \in [Slot -> Nat] /\ inum \in [Slot -> 0..NINODES] /\ 1 \in Slot
      /\ ref[1] = 1 /\ inum[1] = ROOTINO /\ \A s \in Slot \ {1} : ref[s] = 0 /\ inum[s] = 0
  <2>1. 1 \in Slot /\ ROOTINO \in 0..NINODES /\ 0 \in 0..NINODES
    BY Numbers
  <2> QED
    BY <1>2, <2>1 DEF RefAtBoot, InumAtBoot
<1>10. cwd \in [Proc -> 0..NINODE] /\ cwd[p] = 1 /\ \A q \in Proc \ {p} : cwd[q] = 0
  <2>1. 1 \in 0..NINODE /\ 0 \in 0..NINODE
    BY Numbers
  <2> QED
    BY <1>1, <2>1 DEF CwdAtBoot
<1>11. TypeOK
  <2>1. [inode |-> inode, used |-> used] \in Image
    <3>1. PICK im \in Image : im = saved
      BY <1>2
    <3>2. im.inode \in [Inum -> Inode] /\ im.used \in SUBSET Block
      BY DEF Image
    <3> QED
      BY <1>2, <3>1, <3>2 DEF Image
  <2>2. lock \in [Slot -> Proc \union {None}] /\ file \in [Proc -> 0..NINODE]
    BY <1>2, Numbers
  <2>3. \A s, r \in Slot : ref[s] > 0 /\ ref[r] > 0 /\ inum[s] = inum[r] => s = r
    BY <1>9
  <2> QED
    BY <1>2, <1>9, <1>10, <2>1, <2>2, <2>3 DEF TypeOK
<1>12. SavedConsistent
  BY <1>2 DEF SavedConsistent
<1>13. ThreadInv
  <2>1. <<>> \in Seq(Slot) /\ <<>> \in Seq(Entry) /\ Len(<<>>) = 0
    OBVIOUS
  <2>2. 0 \in 0..NINODE /\ 0 \in 0..NINODES+1 /\ 1 \in 0..NINODES+1
    BY Sizes
  <2>3. ASSUME NEW q \in Proc
        PROVE  ThreadType(t[q]) /\ ThreadShape(t[q])
    <3>1. PICK x : x = t[q]
      OBVIOUS
    <3>2. /\ x.pc \in {"reclaim", "down"} /\ x.inum \in 0..NINODES+1 /\ (x.pc = "reclaim" => x.inum # 0)
          /\ x.puts = <<>> /\ x.put = "test" /\ x.ip = 0 /\ x.cur = 0
          /\ x.call = None /\ x.path = <<>> /\ x.name = "."
      BY <1>4, <2>2, <3>1
    <3>3. /\ x.pc \in Pcs /\ x.call \in Calls \union {None} /\ x.path \in Seq(Entry)
          /\ x.cur \in 0..NINODE /\ x.ip \in 0..NINODE /\ x.name \in Entry
      BY <2>1, <2>2, <3>2, EntryNames DEF Pcs, Boots
    <3>4. x.puts \in Seq(Slot) /\ Len(x.puts) <= 2 /\ x.put \in Phases
      BY <2>1, <3>2 DEF Phases
    <3>5. ThreadType(x)
      BY <3>2, <3>3, <3>4 DEF ThreadType
    <3>6. Len(x.puts) # 2 /\ x.pc \notin InCall /\ x.pc \notin WithCur /\ x.pc \notin Second
      BY <2>1, <3>2 DEF InCall, Finds, Second, WithCur
    <3>7. ThreadShape(x)
      BY <3>2, <3>6 DEF ThreadShape
    <3> QED
      BY <3>1, <3>5, <3>7
  <2>4. BootInv
    <3>1. t[p].pc = "reclaim" /\ cwd[p] # 0
      BY <1>4, <1>10
    <3>2. \A q \in Proc \ {p} : t[q].pc = "down" /\ cwd[q] = 0
      BY <1>4, <1>10
    <3>3. \A q \in Proc : file[q] = 0
      BY <1>2
    <3> QED
      BY <3>1, <3>2, <3>3 DEF BootInv
  <2>5. ActiveInv
    BY <1>4 DEF ActiveInv
  <2> QED
    BY <1>3, <2>3, <2>4, <2>5 DEF ThreadInv
<1>14. RefInv
  <2>1. PICK H : H = Held
    OBVIOUS
  <2>2. \A q \in Proc, k \in Kinds : H[<<q, k>>] = HeldNow(q, k)
    BY <2>1, HeldIs
  <2>3. \A q \in Proc : HeldNow(q, "cwd") = cwd[q]
    BY <1>4 DEF HeldNow, Holding
  <2>4. \A q \in Proc, k \in Kinds \ {"cwd"} : HeldNow(q, k) = 0
    <3> SUFFICES ASSUME NEW q \in Proc, NEW k \in Kinds \ {"cwd"}
                 PROVE  HeldNow(q, k) = 0
      OBVIOUS
    <3>1. HeldNow(q, "first") = 0 /\ HeldNow(q, "last") = 0
      BY <1>4, NoPuts DEF HeldNow
    <3>2. HeldNow(q, "file") = 0 /\ HeldNow(q, "cur") = 0 /\ HeldNow(q, "ip") = 0
      BY <1>2, <1>4 DEF HeldNow, Holding, WithCur, Finds, WithIp, Second
    <3> QED
      BY <3>1, <3>2 DEF Kinds
  <2>5. "cwd" \in Kinds
    BY DEF Kinds
  <2>6. PICK P \in SUBSET Proc, c \in Slot : P = {p} /\ c = 1
    BY <1>9
  <2>7. \A q \in P : H[<<q, "cwd">>] = c
    BY <1>10, <2>2, <2>3, <2>5, <2>6
  <2>8. \A q \in Proc \ P : H[<<q, "cwd">>] = 0
    BY <1>10, <2>2, <2>3, <2>5, <2>6
  <2>9. \A q \in Proc, k \in Kinds \ {"cwd"} : H[<<q, k>>] = 0
    BY <2>2, <2>4
  <2>10. Count(H, Refs, c) = Cardinality(P) /\ \A s \in Slot \ {c} : Count(H, Refs, s) = 0
    BY <2>7, <2>8, <2>9, CwdCount
  <2>11. Cardinality({p}) = 1
    BY FS_Singleton
  <2>12. \A s \in Slot : ref[s] = Count(H, Refs, s)
    BY <1>9, <2>6, <2>10, <2>11
  <2> QED
    BY <2>1, <2>12 DEF RefInv, Count
<1>15. TableInv
  BY <1>2, <1>9, Numbers DEF TableInv
<1>16. LockInv
  <2>1. \A s \in Slot, q \in Proc : lock[s] # q
    BY <1>2, Sizes
  <2> QED
    BY <1>4, <2>1 DEF LockInv, LockOf, Locking
<1>17. HeldInv
  <2>1. \A q \in Proc : Knows(q)
    BY <1>4 DEF Knows
  <2>2. \A s \in Slot : ref[s] > 0 => Ip(s).type # "free"
    BY <1>8, <1>9 DEF Ip
  <2> QED
    BY <2>1, <2>2 DEF HeldInv
<1>18. PutInv
  BY <1>4 DEF PutInv
<1>19. OrphanInv
  <2>1. \A s \in Slot : ref[s] > 0 => Ip(s).nlink # 0
    BY <1>8, <1>9 DEF Ip
  <2>2. \A i \in Inum : t[p].pc = "reclaim" /\ t[p].inum <= i
    BY <1>4 DEF Inum
  <2> QED
    BY <2>1, <2>2 DEF OrphanInv
<1> QED
  BY <1>6, <1>11, <1>12, <1>13, <1>14, <1>15, <1>16, <1>17, <1>18, <1>19 DEF IInv

(* The first start. *)
LEMMA InitBooted == Init => Booted
<1> SUFFICES ASSUME Init
             PROVE  Booted
  OBVIOUS
<1>1. saved \in Image /\ Consistent(saved)
  BY ImagesAssumption DEF Init
<1>2. ops \in 0..MaxOps /\ crashes \in 0..MaxCrashes
  BY Sizes DEF Init
<1> QED
  BY <1>1, <1>2 DEF Init, Booted

(* The start after a crash. *)
LEMMA CrashBooted ==
  ASSUME IInv, Crash
  PROVE  Booted'
<1>1. TypeOK /\ SavedConsistent
  BY DEF IInv
<1>2. saved' \in Image
  BY <1>1 DEF Crash, TypeOK
<1>3. Consistent(saved)'
  BY <1>1 DEF Crash, SavedConsistent
<1>4. (ops \in 0..MaxOps /\ crashes \in 0..MaxCrashes)'
  BY <1>1, Sizes DEF Crash, TypeOK
<1>5. (\E p \in Proc : cwd = CwdAtBoot(p) /\ t = Reclaimer(p))'
  BY DEF Crash
<1> QED
  BY <1>2, <1>3, <1>4, <1>5 DEF Crash, Booted

-----------------------------------------------------------------------------
(* Every step keeps the invariant.                                         *)

(* The machine stops and starts again. *)
LEMMA CrashStep == IInv /\ Crash => IInv'
<1>1. IInv /\ Crash => Booted'
  BY CrashBooted
<1>2. Booted' => IInv'
  BY BootedInv, PTL
<1> QED
  BY <1>1, <1>2

(* A thread goes on. *)
LEMMA ThreadStep ==
  ASSUME IInv, NEW p \in Proc, Thread(p)
  PROVE  IInv'
<1>1. ASSUME Iput(p)
      PROVE  IInv'
  BY <1>1, IunlockStep, PutStep, PutLastStep, PutTruncStep, PutDropStep, PutFreeStep DEF Iput
<1>2. ASSUME Reclaim(p) \/ ReclaimNext(p) \/ ReclaimDone(p) \/ Start(p) \/ End(p) \/ WalkEnd(p) \/ Walk(p)
      PROVE  IInv'
  BY <1>2, ReclaimStep, ReclaimNextStep, ReclaimDoneStep, StartStep, EndStep, WalkEndStep, WalkStep
<1>3. ASSUME CreateRefused(p) \/ CreateExists(p) \/ OpenExisting(p) \/ Create(p) \/ Made(p)
      PROVE  IInv'
  BY <1>3, CreateRefusedStep, CreateExistsStep, OpenExistingStep, CreateStep, MadeStep
<1>4. ASSUME Open(p) \/ Opened(p) \/ Close(p) \/ Write(p) \/ Read(p) \/ Chdir(p) \/ ChdirEnd(p)
      PROVE  IInv'
  BY <1>4, OpenStep, OpenedStep, CloseStep, WriteStep, ReadStep, ChdirStep, ChdirEndStep
<1>5. ASSUME LinkInc(p) \/ LinkNew(p) \/ LinkBad(p) \/ Unlink(p) \/ UnlinkChild(p) \/ Unlinked(p)
      PROVE  IInv'
  BY <1>5, LinkIncStep, LinkNewStep, LinkBadStep, UnlinkStep, UnlinkChildStep, UnlinkedStep
<1> QED
  BY <1>1, <1>2, <1>3, <1>4, <1>5 DEF Thread

(* Nothing changes. *)
LEMMA StutterStep ==
  ASSUME IInv, UNCHANGED vars
  PROVE  IInv'
<1>1. saved \in Image /\ SavedConsistent
  BY DEF IInv, TypeOK
<1>2. saved' = saved /\ UNCHANGED <<inode, used, ref, inum, valid, lock, file, cwd, active, t, ops, crashes>>
  BY DEF vars
<1>3. saved' \in Image /\ SavedConsistent'
  BY <1>1, <1>2 DEF SavedConsistent
<1> QED
  BY <1>2, <1>3, SavedFrame

(* Any step. *)
LEMMA NextStep == IInv /\ [Next]_vars => IInv'
<1> SUFFICES ASSUME IInv, [Next]_vars
             PROVE  IInv'
  OBVIOUS
<1>1. CASE UNCHANGED vars
  BY <1>1, StutterStep
<1>2. CASE Done
  BY <1>2, StutterStep DEF Done
<1>3. CASE Crash
  BY <1>3, CrashStep
<1>4. CASE Commit
  BY <1>4, CommitStep
<1>5. CASE \E p \in Proc : Thread(p)
  BY <1>5, ThreadStep
<1> QED
  BY <1>1, <1>2, <1>3, <1>4, <1>5 DEF Next

-----------------------------------------------------------------------------
(* What the invariant says of the tables between calls, and of panics.     *)

(* Between calls the table holds the directories and open files there are. *)
LEMMA SettledNow == IInv => Settled
<1> SUFFICES ASSUME IInv, \A p \in Proc : t[p].pc = "idle"
             PROVE  /\ \A s \in Slot : ref[s] = Cardinality(Holders(s)) /\ lock[s] = None
                    /\ \A i \in Inum : Orphan(i) => \E s \in Slot : ref[s] > 0 /\ inum[s] = i
  BY DEF Settled
<1>1. TypeOK /\ RefInv /\ TableInv /\ OrphanInv /\ ThreadInv
  BY DEF IInv
<1>2. ASSUME NEW p \in Proc
      PROVE  t[p].puts = <<>>
  <2>1. ThreadShape(t[p]) /\ t[p].pc \notin WithPuts
    BY <1>1 DEF ThreadInv, WithPuts
  <2> QED
    BY <2>1 DEF ThreadShape
<1>3. ASSUME NEW p \in Proc
      PROVE  /\ t[p].put = "test" /\ MayLock(p) = {} /\ LockOf(p)
             /\ Held[<<p, "cwd">>] = cwd[p] /\ Held[<<p, "file">>] = file[p]
             /\ \A k \in Kinds \ {"cwd", "file"} : Held[<<p, k>>] = 0
  <2>1. /\ t[p].put = "test" /\ HeldNow(p, "first") = 0 /\ HeldNow(p, "last") = 0 /\ LockOf(p)
        /\ MayLock(p) = {s \in {t[p].ip}  : t[p].pc \in Locking} \union {s \in {t[p].cur} : t[p].pc = "unlink_child"}
    BY <1>2, Ready
  <2>2. MayLock(p) = {}
    BY <2>1 DEF Locking
  <2>3. HeldNow(p, "cwd") = cwd[p] /\ HeldNow(p, "file") = file[p]
    BY DEF HeldNow, Holding
  <2>4. HeldNow(p, "cur") = 0 /\ HeldNow(p, "ip") = 0
    BY DEF HeldNow, Holding, WithCur, Finds, WithIp, Second
  <2>5. \A k \in Kinds : Held[<<p, k>>] = HeldNow(p, k)
    BY HeldIs
  <2> QED
    BY <2>1, <2>2, <2>3, <2>4, <2>5 DEF Kinds
<1>4. ASSUME NEW s \in Slot
      PROVE  ref[s] = Cardinality(Holders(s))
  <2>1. \A p \in Proc, k \in Kinds : Held[<<p, k>>] = s <=>
          (k = "cwd" /\ cwd[p] = s) \/ (k = "file" /\ file[p] = s)
    BY <1>3, Numbers
  <2>2. {k \in Refs : Held[k] = s} = Holders(s)
    <3>1. ASSUME NEW k \in Refs, Held[k] = s
          PROVE  k \in Holders(s)
      <4>1. PICK p \in Proc, n \in Kinds : k = <<p, n>>
        BY DEF Refs
      <4> QED
        BY <2>1, <3>1, <4>1 DEF Holders
    <3>2. ASSUME NEW k \in Holders(s)
          PROVE  k \in Refs /\ Held[k] = s
      <4>1. "cwd" \in Kinds /\ "file" \in Kinds
        BY DEF Kinds
      <4>2. PICK p \in Proc, n \in Kinds :
              k = <<p, n>> /\ ((n = "cwd" /\ cwd[p] = s) \/ (n = "file" /\ file[p] = s))
        BY <4>1 DEF Holders
      <4>3. k \in Refs
        BY <4>2 DEF Refs
      <4> QED
        BY <2>1, <4>2, <4>3
    <3> QED
      BY <3>1, <3>2
  <2> QED
    BY <1>1, <2>2 DEF RefInv
<1>5. ASSUME NEW s \in Slot
      PROVE  lock[s] = None
  <2>1. \A p \in Proc : lock[s] # p
    BY <1>3 DEF LockOf
  <2> QED
    BY <1>1, <2>1 DEF TypeOK
<1>6. ASSUME NEW i \in Inum, Orphan(i)
      PROVE  \E s \in Slot : ref[s] > 0 /\ inum[s] = i
  <2>1. \A p \in Proc : t[p].put # "free" /\ t[p].pc # "reclaim" /\ t[p].pc # "reclaimed"
    BY <1>3
  <2>2. PICK s \in Slot : inum[s] = i
    BY <1>1, <1>6, <2>1 DEF OrphanInv
  <2>3. ref[s] \in Nat /\ ref[s] # 0
    BY <1>1, <2>2, Numbers DEF TypeOK, TableInv
  <2> QED
    BY <2>2, <2>3
<1> QED
  BY <1>4, <1>5, <1>6

(* What unlink() has found still has a link. *)
LEMMA ChildLinked ==
  ASSUME IInv, NEW p \in Proc, At(p, "unlink_child")
  PROVE  Ip(t[p].ip).nlink >= 1
<1>1. t[p].pc = "unlink_child" /\ t[p].puts = <<>>
  BY DEF At
<1>2. /\ TypeOK /\ RefInv /\ TableInv /\ ThreadInv /\ ThreadShape(t[p]) /\ Knows(p) /\ DirInv /\ EntryInv
  BY <1>1, Ready DEF IInv
<1>3. PICK d, s : d = t[p].cur /\ s = t[p].ip
  OBVIOUS
<1>4. d \in Slot /\ inum[d] \in Inum
  BY <1>1, <1>2, <1>3, CurHeld, HolderRef DEF WithCur, Finds
<1>5. s \in Slot /\ inum[s] \in Inum
  BY <1>1, <1>2, <1>3, IpHeld, HolderRef DEF Second
<1>6. PICK n \in Name : n = t[p].name
  BY <1>1, <1>2 DEF ThreadShape
<1>7. PICK dd \in Inum, i \in Inum : dd = inum[d] /\ i = inum[s]
  BY <1>4, <1>5
<1>8. inode[dd].type = "dir" /\ inode[dd].dir[n] = i
  BY <1>1, <1>2, <1>3, <1>6, <1>7 DEF Knows, Ip
<1>9. dd \in Live
  <2>1. ~ IsDirEmpty(inode[dd])
    BY <1>6, <1>8, EntryNames, Numbers, Sizes DEF IsDirEmpty, Entries
  <2>2. inode[dd].nlink # 0 /\ dd \notin Dying
    BY <1>2, <1>8, <2>1 DEF DirInv
  <2>3. inode[dd].nlink > 0
    BY <1>2, <2>2, InodeTypes, Sizes
  <2> QED
    BY <1>8, <2>2, <2>3 DEF Live, Dirs, Linked
<1>10. Linked(inode, i)
  <2>1. inode[dd].dir[n] # 0 => Linked(inode, inode[dd].dir[n])
    BY <1>2, <1>9, EntryNames DEF EntryInv
  <2> QED
    BY <1>8, <2>1, Numbers
<1>11. inode[i].nlink \in Nat
  BY <1>2, InodeTypes, Sizes
<1> QED
  BY <1>3, <1>7, <1>10, <1>11 DEF Linked, Ip

(* iput() of the last reference does not wait for another's lock. *)
LEMMA LastUnlocked ==
  ASSUME IInv, NEW p \in Proc, Putting(p, "test"), LastRef(PutSlot(p))
  PROVE  lock[PutSlot(p)] \in {None, p}
<1>1. TypeOK /\ ThreadInv /\ LockInv
  BY DEF IInv
<1>2. /\ PutSlot(p) \in Slot
      /\ \A q \in Proc, k \in Kinds : HeldNow(q, k) = PutSlot(p) => q = p
  BY Putter DEF Putting, LastRef
<1>3. PICK s \in Slot : s = PutSlot(p)
  BY <1>2
<1>4. ASSUME NEW q \in Proc, lock[s] = q
      PROVE  q = p
  <2>1. PICK k \in Kinds : HeldNow(q, k) = s
    BY <1>1, <1>4, LockerHolds
  <2> QED
    BY <1>2, <1>3, <2>1
<1>5. lock[s] \in Proc \union {None}
  BY <1>1 DEF TypeOK
<1> QED
  BY <1>3, <1>4, <1>5

(* No panic is reached. *)
LEMMA NoPanicNow == IInv => NoPanic
<1> SUFFICES ASSUME IInv
             PROVE  NoPanic
  OBVIOUS
<1>1. HeldInv /\ BlocksRight(inode, used)
  BY DEF IInv, BlockInv
<1>2. \A s \in Slot : ref[s] > 0 => Ip(s).type # "free"
  BY <1>1 DEF HeldInv
<1>3. \A i \in Inum : Owned(inode[i]) \subseteq used
  BY <1>1 DEF BlocksRight
<1>4. \A i, j \in Inum : i # j => Owned(inode[i]) \cap Owned(inode[j]) = {}
  BY <1>1 DEF BlocksRight
<1>5. \A p \in Proc : At(p, "unlink_child") /\ Unlocked(t[p].ip) => Ip(t[p].ip).nlink >= 1
  BY ChildLinked
<1>6. \A p \in Proc : Putting(p, "test") /\ LastRef(PutSlot(p)) => lock[PutSlot(p)] \in {None, p}
  BY LastUnlocked
<1> QED
  BY <1>2, <1>3, <1>4, <1>5, <1>6 DEF NoPanic

-----------------------------------------------------------------------------
(* The theorems.                                                           *)

(* The invariant holds of every behaviour of the file system, whatever     *)
(* calls its processes make and wherever it crashes.                       *)
THEOREM Invariant == Spec => []IInv
<1>1. Init => IInv
  BY InitBooted, BootedInv
<1> QED
  BY <1>1, NextStep, PTL DEF Spec

(* The tables of fs.c and file.c keep to their ranges, and no inode has    *)
(* two entries in the inode table (iget()).                                *)
THEOREM TypesHold == Spec => []TypeOK
<1>1. IInv => TypeOK
  BY DEF IInv
<1> QED
  BY <1>1, Invariant, PTL

(* What a crash leaves is a file system: links, entries, tree and bitmap   *)
(* agree whichever calls were under way.                                   *)
THEOREM CrashLeavesDisk == Spec => []SavedConsistent
<1>1. IInv => SavedConsistent
  BY DEF IInv
<1> QED
  BY <1>1, Invariant, PTL

(* Between calls iput(), iget() and ireclaim() have neither lost a         *)
(* reference, nor kept a lock, nor leaked an inode without links.          *)
THEOREM TableSettles == Spec => []Settled
BY Invariant, SettledNow, PTL

(* No call, however interleaved, reaches a panic of fs.c or of             *)
(* sys_unlink(), and iput() never waits for a sleep lock.                  *)
THEOREM PanicFree == Spec => []NoPanic
BY Invariant, NoPanicNow, PTL
=============================================================================
