--------------------------------- MODULE Fs ---------------------------------
(***************************************************************************)
(* The xv6 file system above the log: inodes, directories and path lookup  *)
(* (kernel/fs.c), the system calls on files (kernel/sysfile.c,             *)
(* kernel/file.c), and the image mkfs/mkfs.c makes, with crashes.          *)
(*                                                                         *)
(* A section under an inode's sleep lock, or under itable.lock, is one     *)
(* step; a lock held over several steps, or waited for, is state.  The log *)
(* is what Transactions promises: a crash leaves the disk of a moment when *)
(* no call was between begin_op() and end_op().  An in-memory inode is     *)
(* written back by iupdate() before its lock is released, so its copied    *)
(* fields are those on the disk and only ref, inum, valid and lock are     *)
(* kept.  File contents and offsets are left out; the blocks they take are *)
(* not.  A name is shorter than DIRSIZ, a path is a sequence of names, and *)
(* inum 0 is the empty directory entry.                                    *)
(***************************************************************************)
EXTENDS Integers, Sequences, FiniteSets, SequencesExt, FiniteSetsExt

CONSTANTS Proc, None,
          Name,       \* file names other than "." and ".."
          NINODES,    \* inodes on the disk, from 1
          NBLOCKS,    \* data blocks on the disk, from 1
          NINODE,     \* entries of the inode table
          NFILE,      \* open files in the system
          NDIRECT, NINDIRECT,
          EPB,        \* directory entries in a block
          NLINK_MAX,
          Images,     \* the disks the machine may start from
          Calls,      \* the calls the processes make
          MaxOps,     \* bound: calls in a behaviour
          MaxCrashes  \* bound: crashes in a behaviour

ROOTINO == 1
Ops   == {"creat", "mkdir", "mknod", "unlink", "open", "trunc", "chdir", "link"}
Inum  == 1..NINODES
Block == 1..NBLOCKS
Slot  == 1..NINODE
Entry == Name \union {".", ".."}
NoEntries == [n \in Entry |-> 0]
Inode == [type : {"free", "file", "dir", "device"}, nlink : 0..NLINK_MAX,
          data : SUBSET Block, ind : SUBSET Block, dir : [Entry -> 0..NINODES]]
Image == [inode : [Inum -> Inode], used : SUBSET Block]

ASSUME FsAssumption ==
  /\ {NINODES, NBLOCKS, NINODE, NFILE, NDIRECT, NINDIRECT, EPB, NLINK_MAX} \subseteq Nat \ {0}
  /\ NINODE >= NINODES  \* iget: no inodes; see the README
  /\ {".", ".."} \cap Name = {} /\ IsFiniteSet(Name)
  /\ IsFiniteSet(Proc) /\ None \notin Proc
  /\ Calls \subseteq [op : Ops, abs : BOOLEAN, path : Seq(Entry), newabs : BOOLEAN, new : Seq(Entry)]
  /\ {MaxOps, MaxCrashes} \subseteq Nat

VARIABLES
  inode,    \* the inodes: type, nlink, data blocks, indirect block, entries
  used,     \* the block bitmap
  saved,    \* inode and used as the last commit left them
  ref, inum, valid, lock,  \* itable.inode[]
  file,     \* the inode each process has open, or 0
  cwd,      \* p->cwd
  active,   \* processes between begin_op() and end_op()
  t,        \* what each kernel thread is doing
  ops, crashes

vars == <<inode, used, saved, ref, inum, valid, lock, file, cwd, active, t, ops, crashes>>
disk == <<inode, used>>
user == <<file, cwd, ops>>

Free == [type |-> "free", nlink |-> 0, data |-> {}, ind |-> {}, dir |-> NoEntries]
Fresh(type) == [Free EXCEPT !.type = type, !.nlink = 1]

-----------------------------------------------------------------------------
(* Blocks and entries: the parts of fs.c that only compute.                *)

(* balloc(): the first free block, or none. *)
Balloc(u) == IF u = Block THEN {} ELSE {Min(Block \ u)}

(* bmap() of the block after the last one: [ip, used, ok]. *)
Grow(ip, u) ==
  LET b  == Balloc(u)
      ib == IF Cardinality(ip.data) < NDIRECT THEN {} ELSE IF ip.ind # {} THEN ip.ind ELSE b
      c  == IF ib \subseteq u THEN b ELSE Balloc(u \union ib)
  IN IF Cardinality(ip.data) < NDIRECT
     THEN [ip |-> [ip EXCEPT !.data = @ \union b], used |-> u \union b, ok |-> b # {}]
     ELSE IF Cardinality(ip.data) = NDIRECT + NINDIRECT
     THEN [ip |-> ip, used |-> u, ok |-> FALSE]
     ELSE IF ib = {}
     THEN [ip |-> ip, used |-> u, ok |-> FALSE]
     ELSE [ip |-> [ip EXCEPT !.ind = ib, !.data = @ \union c],
           used |-> u \union ib \union c, ok |-> c # {}]

Owned(ip) == ip.data \union ip.ind

Entries(ip) == {n \in Entry : ip.dir[n] # 0}
IsDirEmpty(ip) == Entries(ip) \subseteq {".", ".."}

(* dirlink(): a new entry needs a block only when no record is empty. *)
DirLink(ip, u, name, i) ==
  IF ip.dir[name] # 0 THEN [ip |-> ip, used |-> u, ok |-> FALSE]
  ELSE LET g == IF Cardinality(Entries(ip)) < EPB * Cardinality(ip.data)
                THEN [ip |-> ip, used |-> u, ok |-> TRUE]
                ELSE Grow(ip, u)
       IN IF g.ok THEN [g EXCEPT !.ip.dir[name] = i] ELSE g

(* A directory's first two entries, as create() and mkfs make them. *)
DotLink(ip, u, i, parent) ==
  LET one == DirLink(ip, u, ".", i)
  IN IF one.ok THEN DirLink(one.ip, one.used, "..", parent) ELSE one

(* mkfs: the root directory, then a one-block file per name. *)
Mkfs(names) ==
  LET root == DotLink(Fresh("dir"), {}, ROOTINO, ROOTINO)
      empty == [inode |-> [i \in Inum |-> IF i = ROOTINO THEN root.ip ELSE Free],
                used |-> root.used]
      Add(im, k) ==
        LET dp == DirLink(im.inode[ROOTINO], im.used, names[k], k + 1)
            ip == Grow(Fresh("file"), dp.used)
        IN [inode |-> [im.inode EXCEPT ![ROOTINO] = dp.ip, ![k + 1] = ip.ip],
            used  |-> ip.used]
  IN FoldLeft(Add, empty, [k \in 1..Len(names) |-> k])

-----------------------------------------------------------------------------
(* What makes a disk consistent: the promise of the whole layer.           *)

Linked(ino, i) == ino[i].type # "free" /\ ino[i].nlink > 0
Dirs(ino) == {d \in Inum : Linked(ino, d) /\ ino[d].type = "dir"}

(* The root's ".." is its own, and stands for the link mkfs gives it. *)
Links(ino, i) ==
  Cardinality({e \in Dirs(ino) \X (Entry \ {"."}) : ino[e[1]].dir[e[2]] = i})

LinksRight(ino) ==
  /\ \A i \in Inum : ino[i].nlink = Links(ino, i)
  /\ \A d \in Dirs(ino) : \A n \in Entries(ino[d]) : Linked(ino, ino[d].dir[n])

(* The entries of an inode, "." and ".." left out. *)
Names(ino, i) == {e \in Dirs(ino) \X Name : ino[e[1]].dir[e[2]] = i}

TreeRight(ino) ==
  /\ ROOTINO \in Dirs(ino) /\ ino[ROOTINO].dir[".."] = ROOTINO /\ Names(ino, ROOTINO) = {}
  /\ \A d \in Dirs(ino) : ino[d].dir["."] = d
  /\ \A d \in Dirs(ino) \ {ROOTINO} : \E n \in Name : Names(ino, d) = {<<ino[d].dir[".."], n>>}
  /\ \A i \in Inum : ino[i].type = "dir" /\ ino[i].nlink = 0 => IsDirEmpty(ino[i])
  /\ \A i \in Inum : ino[i].type # "dir" => Entries(ino[i]) = {}

BlocksRight(ino, u) ==
  /\ u = UNION {Owned(ino[i]) : i \in Inum}
  /\ \A i, j \in Inum : i # j => Owned(ino[i]) \cap Owned(ino[j]) = {}
  /\ \A i \in Inum : ino[i].type = "free" => Owned(ino[i]) = {}

Consistent(im) == LinksRight(im.inode) /\ TreeRight(im.inode) /\ BlocksRight(im.inode, im.used)

ASSUME ImagesAssumption == \A im \in Images : im \in Image /\ Consistent(im)

-----------------------------------------------------------------------------
(* Threads.  A thread's puts are the inodes it has still to iput() before  *)
(* it goes on at pc; one it holds the lock of is unlocked first            *)
(* (iunlockput()).                                                         *)

Idle == [pc |-> "idle", call |-> None, path |-> <<>>, cur |-> 0, ip |-> 0, name |-> ".",
         puts |-> <<>>, put |-> "test", inum |-> 0]
Down == [Idle EXCEPT !.pc = "down"]
At(p, l) == t[p].pc = l /\ t[p].puts = <<>>
Go(p, r) == t' = [t EXCEPT ![p] = [f \in DOMAIN Idle |-> IF f \in DOMAIN r THEN r[f] ELSE @[f]]]
Ip(s) == inode[inum[s]]
Unlocked(s) == lock[s] = None
Locks(p, S) == lock' = [s \in Slot |-> IF s \in S THEN p
                                       ELSE IF lock[s] = p THEN None ELSE lock[s]]

(* iget(): the entry of an inode, or the first one that is not in use.     *)
(* Mutant: always one that is not in use.                                  *)
NewSlot(i) == Min({s \in Slot : ref[s] = 0})
SlotOf(i) == LET has == {s \in Slot : ref[s] > 0 /\ inum[s] = i}
             IN IF has # {} THEN Min(has) ELSE Min({s \in Slot : ref[s] = 0})
Iget(i) == /\ ref'  = [ref EXCEPT ![SlotOf(i)] = @ + 1]
           /\ inum' = [inum EXCEPT ![SlotOf(i)] = i]

NoIget == UNCHANGED <<ref, inum>>

(* The machine starts: userinit() gives the first process the root as its  *)
(* directory, and the file system comes up in it.                          *)
RefAtBoot    == [s \in Slot |-> IF s = 1 THEN 1 ELSE 0]
InumAtBoot   == [s \in Slot |-> IF s = 1 THEN ROOTINO ELSE 0]
CwdAtBoot(p) == [q \in Proc |-> IF q = p THEN 1 ELSE 0]
Reclaimer(p) == [q \in Proc |-> IF q = p THEN [Down EXCEPT !.pc = "reclaim", !.inum = 1] ELSE Down]

Init ==
  /\ saved \in Images
  /\ inode = saved.inode /\ used = saved.used
  /\ ref = RefAtBoot /\ inum = InumAtBoot /\ valid = {} /\ lock = [s \in Slot |-> None]
  /\ file = [p \in Proc |-> 0] /\ active = {}
  /\ \E p \in Proc : cwd = CwdAtBoot(p) /\ t = Reclaimer(p)
  /\ ops = 0 /\ crashes = 0

Crash ==
  /\ crashes < MaxCrashes
  /\ crashes' = crashes + 1
  /\ inode' = saved.inode /\ used' = saved.used
  /\ ref' = RefAtBoot /\ inum' = InumAtBoot /\ valid' = {} /\ lock' = [s \in Slot |-> None]
  /\ file' = [p \in Proc |-> 0] /\ active' = {}
  /\ \E p \in Proc : cwd' = CwdAtBoot(p) /\ t' = Reclaimer(p)
  /\ UNCHANGED <<saved, ops>>

(* The log commits when no call is in progress. *)
Commit ==
  /\ active = {}
  /\ saved' = [inode |-> inode, used |-> used]
  /\ saved' # saved
  /\ UNCHANGED <<inode, used, ref, inum, valid, lock, file, cwd, active, t, ops, crashes>>

-----------------------------------------------------------------------------
(* ireclaim(), called by the first process: one inode per step.            *)

Orphan(i) == inode[i].type # "free" /\ inode[i].nlink = 0

(* ilock() and iunlock() read the inode in, which iput() will need. *)
ReadIn(s) == valid' = valid \union {s}

Reclaim(p) ==
  /\ At(p, "reclaim") /\ t[p].inum \in Inum /\ Orphan(t[p].inum)
  /\ active' = active \union {p}
  /\ Iget(t[p].inum)
  /\ ReadIn(SlotOf(t[p].inum))
  /\ Go(p, [pc |-> "reclaimed", puts |-> <<SlotOf(t[p].inum)>>])
  /\ UNCHANGED <<disk, saved, lock, user, crashes>>

ReclaimNext(p) ==
  /\ \/ At(p, "reclaim") /\ t[p].inum \in Inum /\ ~Orphan(t[p].inum)
     \/ At(p, "reclaimed")
  /\ active' = active \ {p}
  /\ Go(p, [pc |-> "reclaim", inum |-> t[p].inum + 1])
  /\ UNCHANGED <<disk, saved, ref, inum, valid, lock, user, crashes>>

(* The file system is up; the other processes are forked. *)
ReclaimDone(p) ==
  /\ At(p, "reclaim") /\ t[p].inum \notin Inum
  /\ ref' = [ref EXCEPT ![cwd[p]] = @ + Cardinality(Proc) - 1]
  /\ cwd' = [q \in Proc |-> cwd[p]]
  /\ t' = [q \in Proc |-> Idle]
  /\ UNCHANGED <<disk, saved, inum, valid, lock, file, active, ops, crashes>>

-----------------------------------------------------------------------------
(* iput(): the last reference of an unlinked inode frees it.               *)

Putting(p, phase) == t[p].puts # <<>> /\ t[p].put = phase
PutSlot(p) == Head(t[p].puts)

Iunlock(p) ==
  /\ Putting(p, "test") /\ lock[PutSlot(p)] = p
  /\ lock' = [lock EXCEPT ![PutSlot(p)] = None]
  /\ UNCHANGED <<disk, saved, ref, inum, valid, user, active, t, crashes>>

(* iput(): this is the last reference to an inode without links.  Mutants: *)
(* tested after the reference is given up, and without it.                 *)
NoRef(s)   == ref[s] = 0 /\ s \in valid /\ Ip(s).nlink = 0
AnyRef(s)  == s \in valid /\ Ip(s).nlink = 0
LastRef(s) == ref[s] = 1 /\ s \in valid /\ Ip(s).nlink = 0

Drop(s) == ref' = [ref EXCEPT ![s] = @ - 1]

(* An entry that falls free keeps no number. *)
Forget(s) == /\ inum'  = [inum EXCEPT ![s] = IF ref[s] = 1 THEN 0 ELSE @]
             /\ valid' = IF ref[s] = 1 THEN valid \ {s} ELSE valid

Put(p) ==
  LET s == PutSlot(p) IN
  /\ Putting(p, "test") /\ lock[s] # p /\ ~LastRef(s)
  /\ Drop(s) /\ Forget(s)
  /\ Go(p, [puts |-> Tail(t[p].puts)])
  /\ UNCHANGED <<disk, saved, lock, user, active, crashes>>

PutLast(p) ==
  LET s == PutSlot(p) IN
  /\ Putting(p, "test") /\ lock[s] # p /\ LastRef(s) /\ Unlocked(s)
  /\ lock' = [lock EXCEPT ![s] = p]
  /\ Go(p, [put |-> "trunc", inum |-> inum[s]])
  /\ UNCHANGED <<disk, saved, ref, inum, valid, user, active, crashes>>

(* itrunc() *)
Trunc(i) == /\ inode' = [inode EXCEPT ![i].data = {}, ![i].ind = {}, ![i].dir = NoEntries]
            /\ used' = used \ Owned(inode[i])

PutTrunc(p) ==
  LET s == PutSlot(p) IN
  /\ Putting(p, "trunc")
  /\ Trunc(inum[s])
  /\ valid' = valid \ {s}
  /\ lock' = [lock EXCEPT ![s] = None]
  /\ Go(p, [put |-> "drop"])
  /\ UNCHANGED <<saved, ref, inum, user, active, crashes>>

PutDrop(p) ==
  LET s == PutSlot(p) IN
  /\ Putting(p, "drop")
  /\ Drop(s) /\ Forget(s)
  /\ Go(p, [put |-> "free"])
  /\ UNCHANGED <<disk, saved, lock, user, active, crashes>>

(* ifree() of the number captured before the entry could be recycled. *)
PutFree(p) ==
  /\ Putting(p, "free")
  /\ inode' = [inode EXCEPT ![t[p].inum] = Free]
  /\ Go(p, [put |-> "test", puts |-> Tail(t[p].puts)])
  /\ UNCHANGED <<used, saved, ref, inum, valid, lock, user, active, crashes>>

Iput(p) == Iunlock(p) \/ Put(p) \/ PutLast(p) \/ PutTrunc(p) \/ PutDrop(p) \/ PutFree(p)

-----------------------------------------------------------------------------
(* A call, from begin_op() to end_op().                                    *)

(* Where namex() starts. *)
From(p, abs) == IF abs THEN ROOTINO ELSE inum[cwd[p]]

Start(p) ==
  /\ At(p, "idle") /\ ops < MaxOps
  /\ ops' = ops + 1
  /\ \E c \in Calls :
       /\ active' = active \union {p}
       /\ Iget(From(p, c.abs))
       /\ Go(p, [pc |-> "walk", call |-> c, path |-> c.path, cur |-> SlotOf(From(p, c.abs))])
  /\ UNCHANGED <<disk, saved, valid, lock, file, cwd, crashes>>

End(p) ==
  /\ At(p, "end")
  /\ active' = active \ {p}
  /\ t' = [t EXCEPT ![p] = Idle]
  /\ UNCHANGED <<disk, saved, ref, inum, valid, lock, user, crashes>>

(* The call gives up: its inodes are put, and then end_op(). *)
Quit(p, puts) == Go(p, [pc |-> "end", puts |-> puts])

(* What follows the walk, and what follows its failure. *)
Creates == {"creat", "mkdir", "mknod"}
Relinking(p) == t[p].call.op = "link" /\ t[p].ip # 0
ToParent(p) == t[p].call.op \in Creates \union {"unlink"} \/ Relinking(p)
Found(p) == CASE t[p].call.op = "link" -> IF t[p].ip # 0 THEN "link_new" ELSE "link_inc"
              [] t[p].call.op \in Creates -> "create"
              [] OTHER -> t[p].call.op
Lost(p, puts) == Go(p, [pc |-> IF Relinking(p) THEN "link_bad" ELSE "end", puts |-> puts])

(* namex(): the end of the path, *)
WalkEnd(p) ==
  /\ At(p, "walk") /\ t[p].path = <<>>
  /\ IF ToParent(p) THEN Lost(p, <<t[p].cur>>) ELSE Go(p, [pc |-> Found(p)])
  /\ UNCHANGED <<disk, saved, ref, inum, valid, lock, user, active, crashes>>

(* or one element of it, under the directory's lock. *)
Searchable(ip) == ip.type = "dir" /\ ip.nlink # 0

Walk(p) ==
  LET s == t[p].cur
      name == Head(t[p].path)
      last == ToParent(p) /\ Len(t[p].path) = 1
      next == Ip(s).dir[name]
  IN /\ At(p, "walk") /\ t[p].path # <<>>
     /\ Unlocked(s) /\ ReadIn(s)
     /\ CASE Searchable(Ip(s)) /\ last ->
                Go(p, [pc |-> Found(p), name |-> name, path |-> <<>>]) /\ NoIget
          [] Searchable(Ip(s)) /\ ~last /\ next # 0 ->
                /\ Iget(next)
                /\ Go(p, [cur |-> SlotOf(next), path |-> Tail(t[p].path), puts |-> <<s>>])
          [] OTHER -> Lost(p, <<s>>) /\ NoIget
     /\ UNCHANGED <<disk, saved, lock, user, active, crashes>>

-----------------------------------------------------------------------------
(* create(): open(O_CREATE), mkdir(), mknod(); the parent is cur.          *)

Type(p) == CASE t[p].call.op = "mkdir" -> "dir" [] t[p].call.op = "mknod" -> "device"
             [] OTHER -> "file"

(* A directory that has been removed takes no entry, and links are         *)
(* counted.  Mutant: without the first test.                               *)
IntoRemoved(p, dp) == Type(p) = "dir" => dp.nlink < NLINK_MAX
MayCreate(p, dp) == dp.nlink # 0 /\ (Type(p) = "dir" => dp.nlink < NLINK_MAX)

CreateRefused(p) ==
  /\ At(p, "create") /\ Unlocked(t[p].cur) /\ ReadIn(t[p].cur)
  /\ \/ ~MayCreate(p, Ip(t[p].cur))
     \/ /\ Ip(t[p].cur).dir[t[p].name] = 0
        /\ \A i \in Inum : inode[i].type # "free"
  /\ Quit(p, <<t[p].cur>>)
  /\ UNCHANGED <<disk, saved, ref, inum, lock, user, active, crashes>>

(* The name is there: the parent is let go before the inode is locked. *)
CreateExists(p) ==
  LET i == Ip(t[p].cur).dir[t[p].name] IN
  /\ At(p, "create") /\ Unlocked(t[p].cur) /\ ReadIn(t[p].cur)
  /\ MayCreate(p, Ip(t[p].cur)) /\ i # 0
  /\ Iget(i)
  /\ Go(p, [pc |-> "exists", ip |-> SlotOf(i), puts |-> <<t[p].cur>>])
  /\ UNCHANGED <<disk, saved, lock, user, active, crashes>>

OpenExisting(p) ==
  LET s == t[p].ip IN
  /\ At(p, "exists") /\ Unlocked(s) /\ ReadIn(s)
  /\ IF t[p].call.op = "creat" /\ Ip(s).type \in {"file", "device"}
     THEN Locks(p, {s}) /\ Go(p, [pc |-> "opened"])
     ELSE Quit(p, <<s>>) /\ UNCHANGED lock
  /\ UNCHANGED <<disk, saved, ref, inum, user, active, crashes>>

(* ialloc() and the entries of the new inode; dp stays locked throughout. *)
NewEntries(p, i) ==
  LET d  == inum[t[p].cur]
      ip == IF Type(p) = "dir" THEN DotLink(Fresh("dir"), used, i, d)
            ELSE [ip |-> Fresh(Type(p)), used |-> used, ok |-> TRUE]
      dp == IF ip.ok THEN DirLink(inode[d], ip.used, t[p].name, i)
            ELSE [ip |-> inode[d], used |-> ip.used, ok |-> FALSE]
  IN [ip |-> IF dp.ok THEN ip.ip ELSE [ip.ip EXCEPT !.nlink = 0],
      dp |-> IF dp.ok /\ Type(p) = "dir" THEN [dp.ip EXCEPT !.nlink = @ + 1] ELSE dp.ip,
      used |-> dp.used, ok |-> dp.ok]

Create(p) ==
  LET free == {i \in Inum : inode[i].type = "free"}
      i == Min(free)
      s == SlotOf(i)
      d == t[p].cur
      new == NewEntries(p, i)
  IN /\ At(p, "create") /\ Unlocked(d)
     /\ MayCreate(p, Ip(d)) /\ Ip(d).dir[t[p].name] = 0 /\ free # {}
     /\ Unlocked(s) /\ Iget(i) /\ valid' = valid \union {d, s}
     /\ inode' = [inode EXCEPT ![i] = new.ip, ![inum[d]] = new.dp]
     /\ used' = new.used
     /\ IF new.ok
        THEN /\ Locks(p, {s})
             /\ Go(p, [pc |-> IF t[p].call.op = "creat" THEN "opened" ELSE "made", ip |-> s,
                       puts |-> <<d>>])
        ELSE Locks(p, {s, d}) /\ Quit(p, <<s, d>>)
     /\ UNCHANGED <<saved, user, active, crashes>>

(* sys_mkdir(), sys_mknod() *)
Made(p) ==
  /\ At(p, "made")
  /\ Quit(p, <<t[p].ip>>)
  /\ UNCHANGED <<disk, saved, ref, inum, valid, lock, user, active, crashes>>

-----------------------------------------------------------------------------
(* sys_open(), sys_close() (fileclose()), sys_read(), sys_write(),         *)
(* sys_chdir().                                                            *)

(* Without O_CREATE; "trunc" is O_WRONLY|O_TRUNC. *)
Open(p) ==
  LET s == t[p].cur IN
  /\ t[p].pc \in {"open", "trunc"} /\ t[p].puts = <<>> /\ Unlocked(s) /\ ReadIn(s)
  /\ IF Ip(s).type = "dir" /\ t[p].call.op = "trunc"
     THEN Quit(p, <<s>>) /\ UNCHANGED lock
     ELSE Locks(p, {s}) /\ Go(p, [pc |-> "opened", ip |-> s])
  /\ UNCHANGED <<disk, saved, ref, inum, user, active, crashes>>

OpenFiles == {p \in Proc : file[p] # 0}

(* filealloc() and fdalloc(); "creat" is O_CREATE|O_TRUNC too. *)
Opened(p) ==
  LET s == t[p].ip IN
  /\ At(p, "opened")
  /\ IF Cardinality(OpenFiles) >= NFILE \/ file[p] # 0
     THEN Quit(p, <<s>>) /\ UNCHANGED <<disk, lock, file>>
     ELSE /\ file' = [file EXCEPT ![p] = s]
          /\ IF t[p].call.op # "open" /\ Ip(s).type = "file" THEN Trunc(inum[s]) ELSE UNCHANGED disk
          /\ lock' = [lock EXCEPT ![s] = None]
          /\ Quit(p, <<>>)
  /\ UNCHANGED <<saved, ref, inum, valid, cwd, ops, active, crashes>>

Close(p) ==
  /\ At(p, "idle") /\ file[p] # 0
  /\ active' = active \union {p}
  /\ file' = [file EXCEPT ![p] = 0]
  /\ Quit(p, <<file[p]>>)
  /\ UNCHANGED <<disk, saved, ref, inum, valid, lock, cwd, ops, crashes>>

(* One transaction of filewrite(), of a block past the end of the file, or *)
(* over what is there. *)
Write(p) ==
  LET s == file[p]
      g == Grow(Ip(s), used)
  IN /\ At(p, "idle") /\ s # 0 /\ Ip(s).type = "file" /\ ops < MaxOps /\ Unlocked(s)
     /\ ops' = ops + 1
     /\ active' = active \union {p}
     /\ inode' = [inode EXCEPT ![inum[s]] = g.ip] /\ used' = g.used
     /\ ReadIn(s)
     /\ Quit(p, <<>>)
     /\ UNCHANGED <<saved, ref, inum, lock, file, cwd, crashes>>

(* fileread(), filestat() *)
Read(p) ==
  /\ At(p, "idle") /\ file[p] # 0 /\ Unlocked(file[p]) /\ ReadIn(file[p])
  /\ UNCHANGED <<disk, saved, ref, inum, lock, user, active, t, crashes>>

Chdir(p) ==
  LET s == t[p].cur IN
  /\ At(p, "chdir") /\ Unlocked(s) /\ ReadIn(s)
  /\ IF Ip(s).type = "dir" THEN Go(p, [pc |-> "moved", puts |-> <<cwd[p]>>])
     ELSE Quit(p, <<s>>)
  /\ UNCHANGED <<disk, saved, ref, inum, lock, user, active, crashes>>

ChdirEnd(p) ==
  /\ At(p, "moved")
  /\ active' = active \ {p}
  /\ cwd' = [cwd EXCEPT ![p] = t[p].cur]
  /\ t' = [t EXCEPT ![p] = Idle]
  /\ UNCHANGED <<disk, saved, ref, inum, valid, lock, file, ops, crashes>>

-----------------------------------------------------------------------------
(* sys_link(): the count goes up first, and down again if that was wrong.  *)

AddLink(i, n) == inode' = [inode EXCEPT ![i].nlink = @ + n]

LinkInc(p) ==
  LET s == t[p].cur
      c == t[p].call
  IN /\ At(p, "link_inc") /\ Unlocked(s) /\ ReadIn(s)
     /\ IF Ip(s).type = "dir" \/ Ip(s).nlink >= NLINK_MAX
        THEN Quit(p, <<s>>) /\ NoIget /\ UNCHANGED inode
        ELSE /\ AddLink(inum[s], 1)
             /\ Iget(From(p, c.newabs))
             /\ Go(p, [pc |-> "walk", ip |-> s, path |-> c.new, cur |-> SlotOf(From(p, c.newabs))])
     /\ UNCHANGED <<used, saved, lock, user, active, crashes>>

LinkNew(p) ==
  LET s == t[p].cur
      g == DirLink(Ip(s), used, t[p].name, inum[t[p].ip])
      alive == Ip(s).nlink # 0
  IN /\ At(p, "link_new") /\ Unlocked(s) /\ ReadIn(s)
     /\ IF alive THEN inode' = [inode EXCEPT ![inum[s]] = g.ip] /\ used' = g.used
        ELSE UNCHANGED disk
     /\ IF alive /\ g.ok THEN Quit(p, <<s, t[p].ip>>)
        ELSE Go(p, [pc |-> "link_bad", puts |-> <<s>>])
     /\ UNCHANGED <<saved, ref, inum, lock, user, active, crashes>>

LinkBad(p) ==
  /\ At(p, "link_bad") /\ Unlocked(t[p].ip)
  /\ AddLink(inum[t[p].ip], -1)
  /\ Quit(p, <<t[p].ip>>)
  /\ UNCHANGED <<used, saved, ref, inum, valid, lock, user, active, crashes>>

-----------------------------------------------------------------------------
(* sys_unlink(): the parent stays locked while the child's lock is awaited. *)

Unlink(p) ==
  LET s == t[p].cur
      i == Ip(s).dir[t[p].name]
  IN /\ At(p, "unlink") /\ Unlocked(s) /\ ReadIn(s)
     /\ IF t[p].name \in {".", ".."} \/ i = 0
        THEN Quit(p, <<s>>) /\ NoIget /\ UNCHANGED lock
        ELSE /\ Iget(i)
             /\ Locks(p, {s})
             /\ Go(p, [pc |-> "unlink_child", ip |-> SlotOf(i)])
     /\ UNCHANGED <<disk, saved, user, active, crashes>>

UnlinkChild(p) ==
  LET d == t[p].cur
      s == t[p].ip
      dp == [Ip(d) EXCEPT !.dir[t[p].name] = 0,
                          !.nlink = IF Ip(s).type = "dir" THEN @ - 1 ELSE @]
  IN /\ At(p, "unlink_child") /\ Unlocked(s) /\ ReadIn(s)
     /\ IF Ip(s).type = "dir" /\ ~IsDirEmpty(Ip(s))
        THEN Quit(p, <<s, d>>) /\ UNCHANGED <<inode, lock>>
        ELSE /\ inode' = [inode EXCEPT ![inum[d]] = dp]
             /\ Locks(p, {s, d})
             /\ Go(p, [pc |-> "unlinked", puts |-> <<d>>])
     /\ UNCHANGED <<used, saved, ref, inum, user, active, crashes>>

Unlinked(p) ==
  /\ At(p, "unlinked")
  /\ AddLink(inum[t[p].ip], -1)
  /\ Quit(p, <<t[p].ip>>)
  /\ UNCHANGED <<used, saved, ref, inum, valid, lock, user, active, crashes>>

-----------------------------------------------------------------------------
(* Every call of the bound has been made and has returned. *)
Done == /\ ops = MaxOps /\ \A p \in Proc : At(p, "idle")
        /\ UNCHANGED vars

Thread(p) ==
  \/ Reclaim(p) \/ ReclaimNext(p) \/ ReclaimDone(p) \/ Iput(p)
  \/ Start(p) \/ End(p) \/ WalkEnd(p) \/ Walk(p)
  \/ CreateRefused(p) \/ CreateExists(p) \/ OpenExisting(p) \/ Create(p) \/ Made(p)
  \/ Open(p) \/ Opened(p) \/ Close(p) \/ Write(p) \/ Read(p) \/ Chdir(p) \/ ChdirEnd(p)
  \/ LinkInc(p) \/ LinkNew(p) \/ LinkBad(p) \/ Unlink(p) \/ UnlinkChild(p) \/ Unlinked(p)

Next == Done \/ Crash \/ Commit \/ \E p \in Proc : Thread(p)
Spec == Init /\ [][Next]_vars

-----------------------------------------------------------------------------
(* Properties                                                              *)

(* The fields of fs.c's and file.c's tables keep to their ranges, and no    *)
(* two entries of the inode table hold the same inode (iget()).             *)
TypeOK ==
  /\ [inode |-> inode, used |-> used] \in Image /\ saved \in Image
  /\ ref \in [Slot -> Nat] /\ inum \in [Slot -> 0..NINODES]
  /\ valid \subseteq Slot /\ lock \in [Slot -> Proc \union {None}]
  /\ file \in [Proc -> 0..NINODE] /\ cwd \in [Proc -> 0..NINODE]
  /\ active \subseteq Proc /\ ops \in 0..MaxOps /\ crashes \in 0..MaxCrashes
  /\ \A s, r \in Slot : ref[s] > 0 /\ ref[r] > 0 /\ inum[s] = inum[r] => s = r

(* Whatever the interleaving of the calls, the disk a crash would leave is  *)
(* a file system: link counts are the entries there are, every entry names  *)
(* an inode that is allocated and linked, a directory has one entry, in the *)
(* directory its ".." names, and the bitmap marks the blocks of the inodes, *)
(* each of one inode.                                                       *)
SavedConsistent == Consistent(saved)

(* When no call is in progress, an entry of the inode table has one         *)
(* reference for each current directory and open file that names it, and an *)
(* inode without links is allocated only as long as one of them does:       *)
(* iput() and ireclaim() neither leak nor free too early.                   *)
Holders(s) == {<<p, "cwd">> : p \in {q \in Proc : cwd[q] = s}}
              \union {<<p, "file">> : p \in {q \in Proc : file[q] = s}}
Settled ==
  (\A p \in Proc : t[p].pc = "idle") =>
    /\ \A s \in Slot : ref[s] = Cardinality(Holders(s)) /\ lock[s] = None
    /\ \A i \in Inum : Orphan(i) => \E s \in Slot : ref[s] > 0 /\ inum[s] = i

(* No panic of fs.c or sys_unlink() is reached: an inode in the table is    *)
(* allocated ("ilock: no type"), blocks have one owner and are in use       *)
(* ("freeing free block"), what is being unlinked has a link ("unlink:      *)
(* nlink < 1"), and iput(), which holds a spin lock, never waits for a      *)
(* sleep lock.                                                              *)
NoPanic ==
  /\ \A s \in Slot : ref[s] > 0 => Ip(s).type # "free"
  /\ \A i \in Inum : Owned(inode[i]) \subseteq used
  /\ \A i, j \in Inum : i # j => Owned(inode[i]) \cap Owned(inode[j]) = {}
  /\ \A p \in Proc : At(p, "unlink_child") /\ Unlocked(t[p].ip) => Ip(t[p].ip).nlink >= 1
  /\ \A p \in Proc : Putting(p, "test") /\ LastRef(PutSlot(p)) => lock[PutSlot(p)] \in {None, p}
=============================================================================
