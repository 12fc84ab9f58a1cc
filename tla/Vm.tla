--------------------------------- MODULE Vm ---------------------------------
(***************************************************************************)
(* Memory of xv6: the page allocator (kernel/kalloc.c), user page tables   *)
(* (kernel/vm.c), and the calls that build, copy, grow and free them:      *)
(* fork, exec, sbrk, page faults and the freeing of a process.             *)
(*                                                                         *)
(* A step takes at most one page of user memory, with the page-table pages *)
(* its mapping needs, so other processes run between two pages of a call   *)
(* and any page may be the one that is not there.  The free list is its    *)
(* length: a page that is lost or freed twice changes the total of pages.  *)
(* A page table is its number of page-table pages (root, DEPTH for the     *)
(* trampoline and the trapframe, then up to DEPTH for user memory) and its *)
(* mapped user pages with their permissions; {} is not mapped.  Sizes are  *)
(* in units of which PGSIZE make a page.  Contents are left out.           *)
(***************************************************************************)
EXTENDS Integers, Sequences, FiniteSetsExt

CONSTANTS Slot,        \* process table slots
          PGSIZE, DEPTH, USERSTACK,
          MaxPages,    \* TRAPFRAME in pages: what a process may grow to
          Programs     \* name of an executable -> the end and the permissions of its segments

ASSUME VmAssumption ==
  /\ PGSIZE \in Nat \ {0} /\ DEPTH \in Nat \ {0} /\ USERSTACK \in Nat /\ MaxPages \in Nat

VARIABLES free,        \* pages on kmem.freelist
          vm,          \* slot -> trapframe pages (0 or 1), pagetable, sz
          call,        \* slot -> the memory call the process is in, with its locals
          panicked     \* "remap" or "freewalk: leaf"

memory == <<free, vm, call, panicked>>

UserPages == 0..(MaxPages - 1)
PGROUNDUP(n) == (n + PGSIZE - 1) \div PGSIZE       \* in pages

NoTable == [dirs |-> 0, perm |-> [a \in UserPages |-> {}]]
NoVm    == [trapframe |-> 0, pagetable |-> NoTable, sz |-> 0]
NoCall  == [kind |-> "none", at |-> 0, to |-> 0, child |-> 0, table |-> NoTable, sz |-> 0,
            args |-> 0, segs |-> <<>>]
Ended(result) == [NoCall EXCEPT !.kind = result]   \* "ok" or "failed", for the caller

Mapped(t, a) == t.perm[a] # {}

----------------------------------------------------------------------------
(* kalloc() and mappages() of one page.  Page-table pages that walk() added  *)
(* stay when one is missing; the user page goes back.                       *)
KeepPage(n) == n                                       \* mutant: page not given back
GiveBack(n) == n + 1

TablePages == 1 + DEPTH                                \* proc_pagetable()
Missing(t) == TablePages + DEPTH - t.dirs

AllocPage(fr, t, a, perm) ==
  CASE fr = 0 -> [ok |-> FALSE, free |-> 0, table |-> t]
    [] fr > Missing(t) ->
         [ok |-> TRUE, free |-> fr - 1 - Missing(t),
          table |-> [dirs |-> t.dirs + Missing(t), perm |-> [t.perm EXCEPT ![a] = perm]]]
    [] OTHER -> [ok |-> FALSE, free |-> GiveBack(0), table |-> [t EXCEPT !.dirs = @ + fr - 1]]

(* uvmunmap(do_free = 1) of the pages from..to-1; unmapped ones are skipped. *)
Unmap(fr, t, from, to) ==
  LET gone == {a \in UserPages : from <= a /\ a < to /\ Mapped(t, a)}
  IN [free  |-> fr + Cardinality(gone),
      table |-> [t EXCEPT !.perm = [a \in UserPages |-> IF a \in gone THEN {} ELSE @[a]]]]

(* uvmdealloc(): a new size that does not shrink, also one that wrapped below *)
(* zero, changes nothing.                                                   *)
Shrinks(oldsz, newsz) == 0 <= newsz /\ newsz < oldsz
Dealloc(fr, t, oldsz, newsz) ==
  IF Shrinks(oldsz, newsz) THEN Unmap(fr, t, PGROUNDUP(newsz), PGROUNDUP(oldsz))
  ELSE [free |-> fr, table |-> t]

(* proc_pagetable() and proc_freepagetable(): uvmfree() of sz, then          *)
(* freewalk(), which panics on a page that is still mapped.                 *)
NewTable == [NoTable EXCEPT !.dirs = TablePages]
FreePagetable(fr, t, sz) ==
  LET u == Unmap(fr, t, 0, PGROUNDUP(sz)) IN
  [free |-> u.free + t.dirs, bad |-> \E a \in UserPages : Mapped(u.table, a)]

(* freeproc() as far as memory goes. *)
Without(fr, m) == FreePagetable(fr + m.trapframe, m.pagetable, m.sz)

----------------------------------------------------------------------------
(* fork: allocproc() in one step (the slot is locked and unknown to others), *)
(* then uvmcopy() page by page.                                             *)

ForkStart(p, c) ==
  /\ vm[c] = NoVm
  /\ IF free > TablePages
     THEN /\ vm' = [vm EXCEPT ![c] = [trapframe |-> 1, pagetable |-> NewTable, sz |-> 0]]
          /\ free' = free - 1 - TablePages
          /\ call' = [call EXCEPT ![p] = [NoCall EXCEPT !.kind = "fork", !.child = c]]
     ELSE /\ call' = [call EXCEPT ![p] = Ended("failed")]
          /\ UNCHANGED <<free, vm>>
  /\ UNCHANGED panicked

CopyPage(p) ==
  LET c == call[p].child
      i == call[p].at
      r == AllocPage(free, vm[c].pagetable, i, vm[p].pagetable.perm[i])
      u == Unmap(r.free, r.table, 0, i)
      f == Without(u.free, [vm[c] EXCEPT !.pagetable = u.table])
  IN /\ call[p].kind = "fork" /\ i < PGROUNDUP(vm[p].sz)
     /\ CASE ~ Mapped(vm[p].pagetable, i) ->
               call' = [call EXCEPT ![p].at = i + 1] /\ UNCHANGED <<free, vm, panicked>>
          [] Mapped(vm[p].pagetable, i) /\ r.ok ->
               /\ free' = r.free
               /\ vm' = [vm EXCEPT ![c].pagetable = r.table]
               /\ call' = [call EXCEPT ![p].at = i + 1]
               /\ UNCHANGED panicked
          [] OTHER ->
               /\ free' = f.free
               /\ vm' = [vm EXCEPT ![c] = NoVm]
               /\ panicked' = (panicked \/ f.bad)
               /\ call' = [call EXCEPT ![p] = Ended("failed")]

CopyDone(p) ==
  /\ call[p].kind = "fork" /\ call[p].at = PGROUNDUP(vm[p].sz)
  /\ vm' = [vm EXCEPT ![call[p].child].sz = vm[p].sz]
  /\ call' = [call EXCEPT ![p] = Ended("ok")]
  /\ UNCHANGED <<free, panicked>>

(* wait() frees the child it has found. *)
FreeProc(c) ==
  /\ free' = Without(free, vm[c]).free
  /\ panicked' = (panicked \/ Without(free, vm[c]).bad)
  /\ vm' = [vm EXCEPT ![c] = NoVm]

----------------------------------------------------------------------------
(* sbrk(n): growproc() at once, or only the size when lazy.  uvmalloc() maps *)
(* the pages at..to-1, one a step.                                          *)

SbrkStart(p, n, lazy) ==
  LET newsz == vm[p].sz + n
      d     == Dealloc(free, vm[p].pagetable, vm[p].sz, newsz)
  IN CASE n < 0 ->
            /\ free' = d.free
            /\ vm' = [vm EXCEPT ![p].pagetable = d.table,
                                ![p].sz = IF Shrinks(@, newsz) THEN newsz ELSE @]
            /\ call' = [call EXCEPT ![p] = Ended("ok")]
            /\ UNCHANGED panicked
       [] n >= 0 /\ newsz > MaxPages * PGSIZE ->
            call' = [call EXCEPT ![p] = Ended("failed")] /\ UNCHANGED <<free, vm, panicked>>
       [] n >= 0 /\ newsz <= MaxPages * PGSIZE /\ lazy ->
            /\ vm' = [vm EXCEPT ![p].sz = newsz]
            /\ call' = [call EXCEPT ![p] = Ended("ok")]
            /\ UNCHANGED <<free, panicked>>
       [] OTHER ->
            /\ call' = [call EXCEPT ![p] = [NoCall EXCEPT !.kind = "sbrk", !.sz = newsz,
                          !.at = PGROUNDUP(vm[p].sz), !.to = PGROUNDUP(newsz)]]
            /\ UNCHANGED <<free, vm, panicked>>

SbrkPage(p) ==
  LET r == AllocPage(free, vm[p].pagetable, call[p].at, {"R", "W", "U"})
      u == Unmap(r.free, r.table, PGROUNDUP(vm[p].sz), call[p].at)
  IN /\ call[p].kind = "sbrk" /\ call[p].at < call[p].to
     /\ panicked' = (panicked \/ Mapped(vm[p].pagetable, call[p].at))
     /\ IF r.ok
        THEN /\ free' = r.free
             /\ vm' = [vm EXCEPT ![p].pagetable = r.table]
             /\ call' = [call EXCEPT ![p].at = @ + 1]
        ELSE /\ free' = u.free
             /\ vm' = [vm EXCEPT ![p].pagetable = u.table]
             /\ call' = [call EXCEPT ![p] = Ended("failed")]

SbrkDone(p) ==
  /\ call[p].kind = "sbrk" /\ call[p].at >= call[p].to
  /\ vm' = [vm EXCEPT ![p].sz = call[p].sz]
  /\ call' = [call EXCEPT ![p] = Ended("ok")]
  /\ UNCHANGED <<free, panicked>>

(* vmfault(): a page below the size that is not mapped gets one; any other    *)
(* address, or no memory, fails.                                            *)
Lazy(p, a) == a * PGSIZE < vm[p].sz /\ ~ Mapped(vm[p].pagetable, a)

Fault(p, a) ==
  LET r == IF Lazy(p, a) THEN AllocPage(free, vm[p].pagetable, a, {"R", "W", "U"})
           ELSE [ok |-> FALSE, free |-> free, table |-> vm[p].pagetable]
  IN /\ free' = r.free
     /\ vm' = [vm EXCEPT ![p].pagetable = r.table]
     /\ call' = [call EXCEPT ![p] = Ended(IF r.ok THEN "ok" ELSE "failed")]
     /\ UNCHANGED panicked

----------------------------------------------------------------------------
(* exec: sys_exec() takes a page per argument, kexec() builds a new table   *)
(* from the segments and the stack, and swaps it in or frees it.            *)

ExecStart(p, name, argc) ==
  /\ call' = [call EXCEPT ![p] = [NoCall EXCEPT !.kind = "args", !.to = argc,
                !.segs = IF name \in DOMAIN Programs THEN Programs[name] ELSE <<>>]]
  /\ UNCHANGED <<free, vm, panicked>>

(* An argument gets a page.  Those of init and of the shell are strings in  *)
(* their memory, at most MAXARGS of them: fetchstr() and the count hold.    *)
ExecArg(p) ==
  /\ call[p].kind = "args" /\ call[p].args < call[p].to
  /\ IF free > 0
     THEN /\ call' = [call EXCEPT ![p].args = @ + 1]
          /\ free' = free - 1
     ELSE /\ call' = [call EXCEPT ![p] = Ended("failed")]
          /\ free' = call[p].args
  /\ UNCHANGED <<vm, panicked>>

(* The `bad' path of kexec(): free the new table with the size it has got,  *)
(* then the arguments.                                                      *)
ExecFails(p, fr, t) ==
  LET f == FreePagetable(fr, t, call[p].sz) IN
  /\ free' = call[p].args + f.free
  /\ panicked' = (panicked \/ f.bad)
  /\ call' = [call EXCEPT ![p] = Ended("failed")]
  /\ UNCHANGED vm

(* The file is missing or no program, or there is no page for a table. *)
ExecTable(p) ==
  /\ call[p].kind = "args" /\ call[p].args = call[p].to
  /\ IF call[p].segs = <<>> \/ free < TablePages
     THEN ExecFails(p, free, NoTable)
     ELSE /\ call' = [call EXCEPT ![p].kind = "load", ![p].table = NewTable]
          /\ free' = free - TablePages
          /\ UNCHANGED <<vm, panicked>>

(* uvmalloc() of one page up to goal; when a table page is missing it takes  *)
(* back what this call has mapped, [PGROUNDUP(sz), a).                       *)
LoadAt(p) == Max({call[p].at, PGROUNDUP(call[p].sz)})

UserPage(p, goal, perm) ==
  LET a == LoadAt(p)
      r == AllocPage(free, call[p].table, a, perm)
      u == Unmap(r.free, r.table, PGROUNDUP(call[p].sz), a)
  IN /\ a < PGROUNDUP(goal)
     /\ IF r.ok THEN /\ free' = r.free
                     /\ call' = [call EXCEPT ![p].table = r.table, ![p].at = a + 1]
                     /\ UNCHANGED <<vm, panicked>>
        ELSE ExecFails(p, u.free, u.table)

Grown(p, goal) ==
  /\ LoadAt(p) >= PGROUNDUP(goal)
  /\ UNCHANGED <<free, vm, panicked>>

ExecLoad(p) ==
  /\ call[p].kind = "load"
  /\ IF call[p].segs # <<>>
     THEN LET seg == Head(call[p].segs) IN
          \/ UserPage(p, seg.end, {"R", "U"} \cup seg.perm)
          \/ /\ Grown(p, seg.end)
             /\ call' = [call EXCEPT ![p].sz = Max({@, seg.end}),
                                     ![p].at = 0, ![p].segs = Tail(@)]
     ELSE /\ call' = [call EXCEPT ![p].kind = "stack", ![p].at = 0,
                                  ![p].sz = PGROUNDUP(@) * PGSIZE]
          /\ UNCHANGED <<free, vm, panicked>>

(* readi() of a segment fails, or of the next header. *)
ExecReadFails(p) ==
  /\ call[p].kind = "load" /\ call[p].at = 0
  /\ ExecFails(p, free, call[p].table)

(* Guard page and stack; then the arguments fit, or not; then the image is   *)
(* committed: the old table is freed with the old size.                     *)
StackTop(p) == call[p].sz + (USERSTACK + 1) * PGSIZE

ExecStack(p) ==
  /\ call[p].kind = "stack"
  /\ \/ UserPage(p, StackTop(p), {"R", "W", "U"})
     \/ /\ Grown(p, StackTop(p))
        /\ call' = [call EXCEPT ![p].kind = "commit", ![p].sz = StackTop(p),
                      ![p].table.perm[PGROUNDUP(call[p].sz)] = {"R", "W"}]

ArgsTooLong(p) == call[p].kind = "commit" /\ ExecFails(p, free, call[p].table)


ExecCommit(p) ==
  LET f == FreePagetable(free, vm[p].pagetable, vm[p].sz) IN
  /\ call[p].kind = "commit"
  /\ vm' = [vm EXCEPT ![p].pagetable = call[p].table, ![p].sz = call[p].sz]
  /\ free' = call[p].args + f.free
  /\ panicked' = (panicked \/ f.bad)
  /\ call' = [call EXCEPT ![p] = Ended("ok")]

MemStep(p) ==
  \/ CopyPage(p)
  \/ SbrkPage(p) \/ SbrkDone(p)
  \/ ExecArg(p) \/ ExecTable(p) \/ ExecLoad(p) \/ ExecReadFails(p)
  \/ ExecStack(p) \/ ArgsTooLong(p) \/ ExecCommit(p)

----------------------------------------------------------------------------
(* Pages a table and a process hold: page-table pages, mapped pages, the      *)
(* trapframe, the arguments of exec.                                        *)
TableSize(t) == t.dirs + Cardinality({a \in UserPages : Mapped(t, a)})
Held(s) == vm[s].trapframe + TableSize(vm[s].pagetable) + TableSize(call[s].table) + call[s].args

(* What a process has mapped is below its size, so that freeing by size       *)
(* leaves nothing for freewalk() to panic on and the next page to allocate   *)
(* is not mapped (vm.c:166, 276).                                           *)
SizeCovers ==
  /\ ~ panicked
  /\ \A s \in Slot : \A a \in UserPages :
       Mapped(vm[s].pagetable, a) =>
         \/ a < PGROUNDUP(vm[s].sz)
         \/ call[s].kind = "sbrk" /\ a < call[s].at
         \/ \E q \in Slot : call[q].kind = "fork" /\ call[q].child = s /\ a < call[q].at
=============================================================================
