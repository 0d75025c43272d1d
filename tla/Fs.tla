--------------------------------- MODULE Fs ---------------------------------
(***************************************************************************)
(* Inodes, directories, path names and open files (fs.c, file.c) under the *)
(* system calls of sysfile.c, several processes at a time.                 *)
(*                                                                         *)
(* A step is a section under itable.lock or ftable.lock, or the part of a  *)
(* call that an inode's sleep lock makes atomic: a lock that is taken and  *)
(* given back with one such section inside leaves no trace.  `lock' holds  *)
(* the locks that are kept from step to step.  An inode in memory is named *)
(* by its number, since iget() keeps one entry per number; file contents   *)
(* are only the blocks they occupy.  begin_op() and end_op() are in Log.   *)
(***************************************************************************)
EXTENDS Integers, Sequences, FiniteSetsExt

CONSTANTS
  Proc,          \* processes
  InitProc,      \* initproc, which never exits
  Inum,          \* inode numbers, 1 .. sb.ninodes - 1
  Blk,           \* data blocks
  Fd,            \* file descriptors of a process, 1 .. NOFILE
  File,          \* entries of ftable
  NINODE,        \* entries of itable
  DirPerBlock,   \* directory entries that fit in a block
  Ops,           \* the path calls the processes make
  Null

ROOTINO == 1

ASSUME FsAssumption ==
  /\ ROOTINO \in Inum /\ Inum \subseteq Nat
  /\ InitProc \in Proc /\ IsFiniteSet(Proc)
  /\ DirPerBlock \in Nat /\ DirPerBlock >= 2
  /\ NINODE \in Nat
  /\ File \subseteq Nat /\ Fd \subseteq Nat /\ IsFiniteSet(File) /\ IsFiniteSet(Fd)
  /\ Ops \subseteq [call : {"open", "chdir", "create", "unlink", "link"}, type : STRING,
                    path : Seq(STRING), new : Seq(STRING)]
  /\ Null \notin Proc \cup Inum \cup File \cup Fd \cup STRING \cup {"none", "dir"}

VARIABLES
  din,       \* inodes on disk
  mem,       \* inodes in memory, Invalid unless ip->valid
  ref,       \* ip->ref
  lock,      \* ip->lock: the process that holds it, or Null
  bitmap,    \* data blocks in use
  file,      \* ftable: reference count and inode of every struct file
  ofile,     \* per process: p->ofile
  cwd,       \* per process: p->cwd
  l,         \* per process: its place in a call, and the call's variables
  panicked   \* the panics of the last step

inodes == <<din, mem, ref, lock, bitmap>>
files == <<file, ofile, cwd>>
vars == <<inodes, files, l, panicked>>

Free == [type |-> "none", nlink |-> 0, ents |-> <<>>, blocks |-> {}]
Invalid == [Free EXCEPT !.type = Null]
\* `lost' is not in the code: namex() has gone through the .. of a removed directory.
Idle == [pc |-> "idle", op |-> Null, path |-> <<>>, name |-> Null, k |-> Null,
         ip |-> Null, dp |-> Null, aux |-> Null, put |-> Null, ret |-> Null, lost |-> FALSE]
Dots == {".", ".."}

\* Directory entries with one more: the name leads to inode i.
Named(ents, name, i) ==
  [n \in DOMAIN ents \cup {name} |-> IF n = name THEN i ELSE ents[n]]

\* A directory with . and .. on block b.
Dir(i, up, nlink, b, ents) ==
  [type |-> "dir", nlink |-> nlink, blocks |-> {b},
   ents |-> Named(Named(ents, "..", up), ".", i)]

\* A file system in which only the root exists (mkfs.c).
Mkfs ==
  [i \in Inum |-> IF i = ROOTINO THEN Dir(ROOTINO, ROOTINO, 1, Min(Blk), <<>>) ELSE Free]

\* The disk holds fs; process p is running in directory dir[p], unless that is Null.
InitFrom(fs, dir) ==
  /\ din = fs
  /\ bitmap = UNION {fs[i].blocks : i \in Inum}
  /\ mem = [i \in Inum |-> Invalid]
  /\ lock = [i \in Inum |-> Null]
  /\ file = [f \in File |-> [ref |-> 0, ip |-> Null]]
  /\ ofile = [p \in Proc |-> [d \in Fd |-> Null]]
  /\ cwd = dir
  /\ l = [p \in Proc |-> IF dir[p] = Null THEN [Idle EXCEPT !.pc = "unused"] ELSE Idle]
  /\ ref = [i \in Inum |-> Cardinality({p \in Proc : dir[p] = i})]
  /\ panicked = {}

Init == InitFrom(Mkfs, [p \in Proc |-> IF p = InitProc THEN ROOTINO ELSE Null])

\* The process goes on with frame r.
Go(p, r) == l' = [l EXCEPT ![p] = r]
Return(p) == l' = [l EXCEPT ![p] = Idle]
At(p, label) == l[p].pc = label

\* The frame of p at a label, and in a call of iput(i) that goes on at ret.
To(p, label) == [l[p] EXCEPT !.pc = label]
Iput(p, i, ret) == [l[p] EXCEPT !.pc = "iput", !.put = i, !.ret = ret]

-----------------------------------------------------------------------------
(* Blocks, inodes *)

Panic(reason, bad) == IF bad THEN {reason} ELSE {}

\* bfree() of the blocks in B; it panics on a free block.
bfree(B) == bitmap' = bitmap \ B /\ panicked' = Panic("bfree", ~(B \subseteq bitmap))

\* ip as ilock() leaves it in memory.
Locked(i) == IF mem[i] = Invalid THEN din[i] ELSE mem[i]

\* ilock() by p of an inode that is d on disk: "ilock: no type".
ilockPanics(p, d) == Panic(IF l[p].lost THEN "lost" ELSE "ilock", d.type = "none")

\* ilock(i) and iunlock(i) around a section that may change the inode to r; with
\* iupdate() the change reaches the disk.
Update(i, r) == mem' = [mem EXCEPT ![i] = r] /\ din' = [din EXCEPT ![i] = r]
Load(i) == mem' = [mem EXCEPT ![i] = Locked(i)] /\ UNCHANGED din

\* iget(): "iget: no inodes".
igetPanics(i) ==
  Panic("iget", ref[i] = 0 /\ Cardinality({j \in Inum : ref[j] > 0}) >= NINODE)

iget(i) == ref' = [ref EXCEPT ![i] = @ + 1]

\* Mutant: the count is not looked at.
LastRef_any(i) == mem[i] # Invalid /\ mem[i].nlink = 0

\* iput(): nothing else refers to the inode.
LastRef(i) == ref[i] = 1 /\ mem[i] # Invalid /\ mem[i].nlink = 0

\* ip->ref--; an entry without references is recycled with ip->valid = 0.
Decrement(i) ==
  /\ ref' = [ref EXCEPT ![i] = @ - 1]
  /\ mem' = IF ref[i] = 1 THEN [mem EXCEPT ![i] = Invalid] ELSE mem

\* iput(), under itable.lock: drop the reference.
IputDrop(p) ==
  /\ (At(p, "iput") /\ ~LastRef(l[p].put)) \/ At(p, "idrop")
  /\ Decrement(l[p].put)
  /\ IF l[p].ret = "done" THEN Return(p)
     ELSE Go(p, [To(p, l[p].ret) EXCEPT !.put = Null, !.ret = Null])
  /\ UNCHANGED <<din, lock, bitmap, files, panicked>>

\* iput(), under itable.lock: the last reference takes the lock to free the inode.
IputLast(p) ==
  /\ At(p, "iput")
  /\ LastRef(l[p].put)
  /\ lock[l[p].put] = Null
  /\ lock' = [lock EXCEPT ![l[p].put] = p]
  /\ Go(p, To(p, "itrunc"))
  /\ UNCHANGED <<din, mem, ref, bitmap, files, panicked>>

\* iput(): itrunc(ip).
IputTrunc(p) ==
  /\ At(p, "itrunc")
  /\ LET i == l[p].put
     IN bfree(mem[i].blocks) /\ Update(i, [mem[i] EXCEPT !.blocks = {}, !.ents = <<>>])
  /\ Go(p, To(p, "itype"))
  /\ UNCHANGED <<ref, lock, files>>

\* iput(): ip->type = 0 goes to the disk, where ialloc() can find it.
IputType(p) ==
  /\ At(p, "itype")
  /\ Update(l[p].put, Free)
  /\ Go(p, To(p, "ivalid"))
  /\ UNCHANGED <<ref, lock, bitmap, files, panicked>>

\* iput(): ip->valid = 0, releasesleep(); the reference goes in a section of its own.
IputValid(p) ==
  /\ At(p, "ivalid")
  /\ mem' = [mem EXCEPT ![l[p].put] = Invalid]
  /\ lock' = [lock EXCEPT ![l[p].put] = Null]
  /\ Go(p, To(p, "idrop"))
  /\ UNCHANGED <<din, ref, bitmap, files, panicked>>

-----------------------------------------------------------------------------
(* Directories, path names *)

\* dirlookup()
Has(d, name) == name \in DOMAIN d.ents

\* dirlink() needs a new block: every slot of the directory's blocks is taken.
Full(d) == Cardinality(DOMAIN d.ents) = DirPerBlock * Cardinality(d.blocks)

\* bmap() with balloc() for n new blocks of an inode: the lowest free ones.
Balloc(n) ==
  CHOOSE B \in kSubset(n, Blk \ bitmap) : \A b \in B, c \in (Blk \ bitmap) \ B : b < c
Room(n) == Cardinality(Blk \ bitmap) >= n

\* namex(): at the root or at the current directory.
Absolute(path) == path # <<>> /\ Head(path) = "/"
Start(p, path) == IF Absolute(path) THEN ROOTINO ELSE cwd[p]

\* namex() begins; it returns to label k.
Namex(p, op, path, k) ==
  /\ iget(Start(p, path))
  /\ panicked' = igetPanics(Start(p, path))
  /\ Go(p, [To(p, "walk") EXCEPT !.op = op, !.ip = Start(p, path), !.k = k, !.lost = FALSE,
                                 !.path = IF Absolute(path) THEN Tail(path) ELSE path])

\* The call wants the parent of the last name.
Parent(p) == l[p].k \in {"create", "unlink", "linknew"}

\* namex() returns i, or puts the inode and returns 0.
Found(p, i, name) ==
  Go(p, [To(p, l[p].k) EXCEPT !.ip = i, !.name = name, !.path = <<>>, !.k = Null])
Fail(p) ==
  Go(p, [Iput(p, l[p].ip, l[p].k) EXCEPT !.ip = Null, !.path = <<>>, !.k = Null])

\* namex(): no name is left.
WalkEnd(p) ==
  /\ At(p, "walk") /\ l[p].path = <<>>
  /\ IF Parent(p) THEN Fail(p) ELSE Found(p, l[p].ip, Null)
  /\ UNCHANGED <<inodes, files, panicked>>

\* Mutant: the directory is put before the next inode is referenced.
NextInode_unreferenced(next) == UNCHANGED ref

\* namex(): dirlookup() gets the next inode while the directory is locked.
NextInode(next) == iget(next)

\* namex(): lock the directory and look for the next name.
Walk(p) ==
  /\ At(p, "walk") /\ l[p].path # <<>>
  /\ lock[l[p].ip] = Null
  /\ Load(l[p].ip)
  /\ LET d == Locked(l[p].ip)
         name == Head(l[p].path)
         last == Parent(p) /\ Len(l[p].path) = 1
     IN \/ /\ d.type # "dir" \/ (~last /\ ~Has(d, name))
           /\ Fail(p)
           /\ panicked' = ilockPanics(p, d)
           /\ UNCHANGED ref
        \/ /\ d.type = "dir" /\ last
           /\ Found(p, l[p].ip, name)
           /\ UNCHANGED <<ref, panicked>>
        \/ /\ d.type = "dir" /\ ~last /\ Has(d, name)
           /\ NextInode(d.ents[name])
           /\ panicked' = igetPanics(d.ents[name])
           /\ Go(p, [Iput(p, l[p].ip, "walk") EXCEPT !.ip = d.ents[name],
                                                    !.path = Tail(l[p].path),
                                                    !.lost = @ \/ (name = ".." /\ d.nlink = 0)])
  /\ UNCHANGED <<lock, bitmap, files>>

\* A call whose path name leads nowhere returns -1.
NotFound(p) ==
  /\ l[p].pc \in {"open", "chdir", "create", "unlink", "link"} /\ l[p].ip = Null
  /\ Return(p)
  /\ UNCHANGED <<inodes, files, panicked>>

-----------------------------------------------------------------------------
(* create(): open with O_CREATE, mkdir, mknod *)

\* create(): look for the name; keep the directory locked if it is not there.
CreateLookup(p) ==
  /\ At(p, "create") /\ l[p].ip # Null
  /\ lock[l[p].ip] = Null
  /\ Load(l[p].ip)
  /\ LET dp == l[p].ip
         d == Locked(dp)
     IN \/ /\ Has(d, l[p].name)
           /\ iget(d.ents[l[p].name])
           /\ panicked' = ilockPanics(p, d) \cup igetPanics(d.ents[l[p].name])
           /\ Go(p, [Iput(p, dp, "found") EXCEPT !.ip = d.ents[l[p].name]])
           /\ UNCHANGED lock
        \/ /\ ~Has(d, l[p].name)
           /\ lock' = [lock EXCEPT ![dp] = p]
           /\ Go(p, [To(p, "ialloc") EXCEPT !.dp = dp, !.ip = Null])
           /\ panicked' = ilockPanics(p, d)
           /\ UNCHANGED ref
  /\ UNCHANGED <<bitmap, files>>

\* create(): the name exists; only a file or a device will do, for open().
CreateFound(p) ==
  /\ At(p, "found")
  /\ lock[l[p].ip] = Null
  /\ Load(l[p].ip)
  /\ LET d == Locked(l[p].ip)
     IN /\ panicked' = ilockPanics(p, d)
        /\ IF l[p].op.type = "file" /\ d.type \in {"file", "dev"}
           THEN /\ lock' = [lock EXCEPT ![l[p].ip] = p]
                /\ Go(p, To(p, "opened"))
           ELSE /\ Go(p, Iput(p, l[p].ip, "done"))
                /\ UNCHANGED lock
  /\ UNCHANGED <<ref, bitmap, files>>

\* ialloc(): mark a free inode, or fail.
Ialloc(p) ==
  /\ At(p, "ialloc")
  /\ LET free == {i \in Inum : din[i].type = "none"}
     IN \/ \E i \in free :
             /\ din' = [din EXCEPT ![i] = [Free EXCEPT !.type = l[p].op.type]]
             /\ Go(p, [To(p, "iget") EXCEPT !.ip = i])
             /\ UNCHANGED lock
        \/ /\ free = {}
           /\ lock' = [lock EXCEPT ![l[p].dp] = Null]
           /\ Go(p, Iput(p, l[p].dp, "done"))
           /\ UNCHANGED din
  /\ UNCHANGED <<mem, ref, bitmap, files, panicked>>

\* ialloc(): iget() of the new inode.
IallocGet(p) ==
  /\ At(p, "iget")
  /\ iget(l[p].ip)
  /\ panicked' = igetPanics(l[p].ip)
  /\ Go(p, To(p, "fill"))
  /\ UNCHANGED <<din, mem, lock, bitmap, files>>

\* create(): the new inode, its "." and "..", and its name in the directory.  When
\* the disk is full dirlink() fails and the inode is given up.
CreateFill(p) ==
  /\ At(p, "fill")
  /\ lock[l[p].ip] = Null
  /\ LET i == l[p].ip
         dp == l[p].dp
         d == mem[dp]
         own == IF l[p].op.type = "dir" THEN 1 ELSE 0
         need == own + (IF Full(d) THEN 1 ELSE 0)
         ok == Room(need)
         B == Balloc(IF ok THEN need ELSE IF Room(own) THEN own ELSE 0)
         mine == IF own = 1 /\ B # {} THEN {Min(B)} ELSE {}
         new == [type |-> Locked(i).type, nlink |-> IF ok THEN 1 ELSE 0, blocks |-> mine,
                 ents |-> IF mine = {} THEN <<>> ELSE Named(Named(<<>>, "..", dp), ".", i)]
         dir == [d EXCEPT !.ents = Named(@, l[p].name, i), !.blocks = @ \cup (B \ mine),
                          !.nlink = @ + own]
     IN /\ panicked' = ilockPanics(p, Locked(i))
        /\ bitmap' = bitmap \cup B
        /\ mem' = [mem EXCEPT ![i] = new, ![dp] = IF ok THEN dir ELSE @]
        /\ din' = [din EXCEPT ![i] = new, ![dp] = IF ok THEN dir ELSE @]
        /\ IF ok
           THEN /\ lock' = [lock EXCEPT ![i] = p, ![dp] = Null]
                /\ Go(p, Iput(p, dp, IF l[p].op.type = "file" THEN "opened" ELSE "made"))
           ELSE /\ Go(p, Iput(p, i, "unlockdp"))
                /\ UNCHANGED lock
  /\ UNCHANGED <<ref, files>>

\* iunlockput(dp), the last thing that create(), sys_unlink() and sys_link() do in
\* the directory when they fail.
UnlockDp(p) ==
  /\ At(p, "unlockdp")
  /\ lock' = [lock EXCEPT ![l[p].dp] = Null]
  /\ Go(p, Iput(p, l[p].dp, IF l[p].op.call = "link" THEN "linkbad" ELSE "done"))
  /\ UNCHANGED <<din, mem, ref, bitmap, files, panicked>>

\* iunlockput(ip) of sys_mkdir() and sys_mknod().
Made(p) ==
  /\ At(p, "made")
  /\ lock' = [lock EXCEPT ![l[p].ip] = Null]
  /\ Go(p, Iput(p, l[p].ip, "done"))
  /\ UNCHANGED <<din, mem, ref, bitmap, files, panicked>>

-----------------------------------------------------------------------------
(* open, chdir *)

\* sys_open() without O_CREATE: a directory may only be read.
OpenLock(p) ==
  /\ At(p, "open") /\ l[p].ip # Null
  /\ lock[l[p].ip] = Null
  /\ Load(l[p].ip)
  /\ LET d == Locked(l[p].ip)
     IN /\ panicked' = ilockPanics(p, d)
        /\ IF d.type = "dir" /\ l[p].op.type # "rdonly"
           THEN Go(p, Iput(p, l[p].ip, "done")) /\ UNCHANGED lock
           ELSE Go(p, To(p, "opened")) /\ lock' = [lock EXCEPT ![l[p].ip] = p]
  /\ UNCHANGED <<ref, bitmap, files>>

\* The entry of ftable that filealloc() takes, and the descriptor of fdalloc(); Null
\* if there is none.
filealloc ==
  LET fs == {f \in File : file[f].ref = 0} IN IF fs = {} THEN Null ELSE Min(fs)
fdalloc(p) ==
  LET ds == {d \in Fd : ofile[p][d] = Null} IN IF ds = {} THEN Null ELSE Min(ds)

\* sys_open(): filealloc() and fdalloc(), with the inode locked; it also gives up on
\* a device whose major number is out of range.
OpenAlloc(p) ==
  /\ At(p, "opened")
  /\ \/ /\ filealloc # Null /\ fdalloc(p) # Null
        /\ file' = [file EXCEPT ![filealloc] = [ref |-> 1, ip |-> l[p].ip]]
        /\ ofile' = [ofile EXCEPT ![p][fdalloc(p)] = filealloc]
        /\ Go(p, To(p, "trunc"))
        /\ UNCHANGED lock
     \/ /\ filealloc # Null /\ fdalloc(p) = Null
        /\ file' = [file EXCEPT ![filealloc].ref = 1]
        /\ Go(p, [To(p, "unfile") EXCEPT !.aux = filealloc])
        /\ UNCHANGED <<ofile, lock>>
     \/ /\ filealloc = Null \/ mem[l[p].ip].type = "dev"
        /\ lock' = [lock EXCEPT ![l[p].ip] = Null]
        /\ Go(p, Iput(p, l[p].ip, "done"))
        /\ UNCHANGED <<file, ofile>>
  /\ UNCHANGED <<din, mem, ref, bitmap, cwd, panicked>>

\* sys_open(): no descriptor; fileclose(f), then iunlockput(ip).
OpenUndo(p) ==
  /\ At(p, "unfile")
  /\ file' = [file EXCEPT ![l[p].aux].ref = 0]
  /\ lock' = [lock EXCEPT ![l[p].ip] = Null]
  /\ Go(p, Iput(p, l[p].ip, "done"))
  /\ UNCHANGED <<din, mem, ref, bitmap, ofile, cwd, panicked>>

\* sys_open(): itrunc() with O_TRUNC, iunlock(ip).
OpenTrunc(p) ==
  /\ At(p, "trunc")
  /\ LET i == l[p].ip
         cut == IF l[p].op.type = "trunc" /\ mem[i].type = "file" THEN mem[i].blocks ELSE {}
     IN /\ bfree(cut)
        /\ Update(i, [mem[i] EXCEPT !.blocks = @ \ cut])
        /\ lock' = [lock EXCEPT ![i] = Null]
  /\ Return(p)
  /\ UNCHANGED <<ref, files>>

\* sys_chdir(): a directory replaces the current one.
Chdir(p) ==
  /\ At(p, "chdir") /\ l[p].ip # Null
  /\ lock[l[p].ip] = Null
  /\ Load(l[p].ip)
  /\ panicked' = ilockPanics(p, Locked(l[p].ip))
  /\ Go(p, IF Locked(l[p].ip).type = "dir" THEN Iput(p, cwd[p], "newcwd")
           ELSE Iput(p, l[p].ip, "done"))
  /\ UNCHANGED <<ref, lock, bitmap, files>>

NewCwd(p) ==
  /\ At(p, "newcwd")
  /\ cwd' = [cwd EXCEPT ![p] = l[p].ip]
  /\ Return(p)
  /\ UNCHANGED <<inodes, file, ofile, panicked>>

-----------------------------------------------------------------------------
(* link, unlink *)

\* Mutant: the link is counted only after the entry is written.
LinkCount_late(n) == n

\* sys_link(): the link is counted before its entry exists.
LinkCount(n) == n + 1

\* Mutant: directories can be linked.
Linkable_any(d) == TRUE

Linkable(d) == d.type # "dir"

\* sys_link(): the old name.
LinkOld(p) ==
  /\ At(p, "link") /\ l[p].ip # Null
  /\ lock[l[p].ip] = Null
  /\ LET i == l[p].ip
         d == Locked(i)
     IN /\ panicked' = ilockPanics(p, d)
        /\ IF ~Linkable(d)
           THEN Load(i) /\ Go(p, Iput(p, i, "done"))
           ELSE /\ Update(i, [d EXCEPT !.nlink = LinkCount(@)])
                /\ Go(p, [To(p, "linkname") EXCEPT !.aux = i])
  /\ UNCHANGED <<ref, lock, bitmap, files>>

\* sys_link(): nameiparent(new).
LinkName(p) ==
  /\ At(p, "linkname")
  /\ Namex(p, l[p].op, l[p].op.new, "linknew")
  /\ UNCHANGED <<din, mem, lock, bitmap, files>>

\* sys_link(): dirlink(dp, name, ip->inum).  A name that exists is put again with
\* the directory locked.
LinkNew(p) ==
  /\ At(p, "linknew") /\ l[p].ip # Null
  /\ lock[l[p].ip] = Null
  /\ LET dp == l[p].ip
         d == Locked(dp)
         B == Balloc(IF Full(d) THEN 1 ELSE 0)
     IN \/ /\ Has(d, l[p].name)
           /\ iget(d.ents[l[p].name])
           /\ panicked' = ilockPanics(p, d) \cup igetPanics(d.ents[l[p].name])
           /\ lock' = [lock EXCEPT ![dp] = p]
           /\ Go(p, [Iput(p, d.ents[l[p].name], "unlockdp") EXCEPT !.dp = dp])
           /\ Load(dp)
           /\ UNCHANGED bitmap
        \/ /\ ~Has(d, l[p].name) /\ (Full(d) => Room(1))
           /\ Update(dp, [d EXCEPT !.ents = Named(@, l[p].name, l[p].aux),
                                   !.blocks = @ \cup B])
           /\ bitmap' = bitmap \cup B
           /\ Go(p, Iput(p, dp, "linkdone"))
           /\ panicked' = ilockPanics(p, d)
           /\ UNCHANGED <<ref, lock>>
        \/ /\ ~Has(d, l[p].name) /\ Full(d) /\ ~Room(1)
           /\ Load(dp)
           /\ Go(p, Iput(p, dp, "linkbad"))
           /\ panicked' = ilockPanics(p, d)
           /\ UNCHANGED <<ref, lock, bitmap>>
  /\ UNCHANGED files

LinkDone(p) ==
  /\ At(p, "linkdone")
  /\ Go(p, Iput(p, l[p].aux, "done"))
  /\ UNCHANGED <<inodes, files, panicked>>

\* sys_link(): bad.
LinkBad(p) ==
  /\ At(p, "linkbad") \/ (At(p, "linknew") /\ l[p].ip = Null)
  /\ lock[l[p].aux] = Null
  /\ LET d == Locked(l[p].aux)
     IN Update(l[p].aux, [d EXCEPT !.nlink = @ - 1]) /\ panicked' = ilockPanics(p, d)
  /\ Go(p, Iput(p, l[p].aux, "done"))
  /\ UNCHANGED <<ref, lock, bitmap, files>>

\* sys_unlink(): lock the directory, find the name.
UnlinkLookup(p) ==
  /\ At(p, "unlink") /\ l[p].ip # Null
  /\ lock[l[p].ip] = Null
  /\ Load(l[p].ip)
  /\ LET dp == l[p].ip
         d == Locked(dp)
     IN \/ /\ l[p].name \in Dots \/ ~Has(d, l[p].name)
           /\ Go(p, Iput(p, dp, "done"))
           /\ panicked' = ilockPanics(p, d)
           /\ UNCHANGED <<ref, lock>>
        \/ /\ l[p].name \notin Dots /\ Has(d, l[p].name)
           /\ iget(d.ents[l[p].name])
           /\ panicked' = ilockPanics(p, d) \cup igetPanics(d.ents[l[p].name])
           /\ lock' = [lock EXCEPT ![dp] = p]
           /\ Go(p, [To(p, "victim") EXCEPT !.dp = dp, !.ip = d.ents[l[p].name]])
  /\ UNCHANGED <<bitmap, files>>

isdirempty(d) == DOMAIN d.ents \subseteq Dots

\* sys_unlink(): lock the inode too, erase its entry, and unlock the directory.
UnlinkErase(p) ==
  /\ At(p, "victim")
  /\ lock[l[p].ip] = Null
  /\ LET i == l[p].ip
         d == Locked(i)
         dp == l[p].dp
         old == mem[dp]
         rest == [old EXCEPT !.ents = [n \in DOMAIN old.ents \ {l[p].name} |-> old.ents[n]],
                             !.nlink = IF d.type = "dir" THEN @ - 1 ELSE @]
     IN /\ panicked' = ilockPanics(p, d) \cup Panic("unlink", d.nlink < 1)
        /\ IF d.type = "dir" /\ ~isdirempty(d)
           THEN /\ Load(i)
                /\ Go(p, Iput(p, i, "unlockdp"))
                /\ UNCHANGED lock
           ELSE /\ mem' = [mem EXCEPT ![i] = d, ![dp] = rest]
                /\ din' = [din EXCEPT ![dp] = rest]
                /\ lock' = [lock EXCEPT ![dp] = Null, ![i] = p]
                /\ Go(p, Iput(p, dp, "drop"))
  /\ UNCHANGED <<ref, bitmap, files>>

\* sys_unlink(): one link less.
UnlinkDrop(p) ==
  /\ At(p, "drop")
  /\ Update(l[p].ip, [mem[l[p].ip] EXCEPT !.nlink = @ - 1])
  /\ lock' = [lock EXCEPT ![l[p].ip] = Null]
  /\ Go(p, Iput(p, l[p].ip, "done"))
  /\ UNCHANGED <<ref, bitmap, files, panicked>>

-----------------------------------------------------------------------------
(* Open files, fork, exit *)

\* Mutant: the last close is not recognised when the file was shared.
LastClose_first(f) == TRUE

\* fileclose(): no reference is left.
LastClose(f) == file[f].ref = 1

\* sys_close() or exit(): fileclose() of a descriptor, then perhaps iput().
Close(p, d, back) ==
  LET f == ofile[p][d]
  IN /\ f # Null
     /\ ofile' = [ofile EXCEPT ![p][d] = Null]
     /\ panicked' = Panic("fileclose", file[f].ref < 1)
     /\ IF LastClose(f)
        THEN /\ file' = [file EXCEPT ![f] = [ref |-> 0, ip |-> Null]]
             /\ Go(p, Iput(p, file[f].ip, back))
        ELSE /\ file' = [file EXCEPT ![f].ref = @ - 1]
             /\ Go(p, To(p, IF back = "done" THEN "idle" ELSE back))
     /\ UNCHANGED <<inodes, cwd>>

\* argfd(): descriptors of open files.
argfd(p) == {d \in Fd : ofile[p][d] # Null}

sys_close(p) == At(p, "idle") /\ \E d \in argfd(p) : Close(p, d, "done")

filedup(f) == file' = [file EXCEPT ![f].ref = @ + 1]

\* sys_dup(): fdalloc() and filedup().
sys_dup(p) ==
  /\ At(p, "idle")
  /\ fdalloc(p) # Null
  /\ \E d \in argfd(p) :
       /\ ofile' = [ofile EXCEPT ![p][fdalloc(p)] = ofile[p][d]]
       /\ filedup(ofile[p][d])
  /\ UNCHANGED <<inodes, cwd, l, panicked>>

\* writei() of an inode: a file without a block gets one, if there is room.
writei(i) ==
  LET B == Balloc(IF Locked(i).blocks = {} /\ Room(1) THEN 1 ELSE 0)
  IN bitmap' = bitmap \cup B /\ Update(i, [Locked(i) EXCEPT !.blocks = @ \cup B])

\* filewrite(), with the inode locked.
sys_write(p) ==
  /\ At(p, "idle")
  /\ \E d \in argfd(p) :
       LET i == file[ofile[p][d]].ip
       IN /\ lock[i] = Null
          /\ Locked(i).type = "file"
          /\ writei(i)
          /\ panicked' = Panic("ilock", ref[i] < 1)
  /\ UNCHANGED <<ref, lock, files, l>>

\* fileread() and filestat() only load the inode.
sys_read(p) ==
  /\ At(p, "idle")
  /\ \E d \in argfd(p) :
       LET i == file[ofile[p][d]].ip
       IN /\ lock[i] = Null
          /\ Load(i)
          /\ panicked' = ilockPanics(p, Locked(i)) \cup Panic("ilock", ref[i] < 1)
  /\ UNCHANGED <<ref, lock, bitmap, files, l>>

\* fork(): filedup() of every open file, idup() of the current directory.
Fork(p, q) ==
  /\ At(p, "idle") /\ At(q, "unused")
  /\ ofile' = [ofile EXCEPT ![q] = ofile[p]]
  /\ file' = [f \in File |->
                [file[f] EXCEPT !.ref = @ + Cardinality({d \in Fd : ofile[p][d] = f})]]
  /\ cwd' = [cwd EXCEPT ![q] = cwd[p]]
  /\ iget(cwd[p])
  /\ l' = [l EXCEPT ![q] = Idle]
  /\ UNCHANGED <<din, mem, lock, bitmap, panicked>>

\* exit(): close the files, put the directory.
ExitStart(p) ==
  /\ At(p, "idle")
  /\ p # InitProc
  /\ Go(p, To(p, "exit"))
  /\ UNCHANGED <<inodes, files, panicked>>

ExitClose(p) ==
  /\ At(p, "exit")
  /\ \E d \in Fd : (\A c \in Fd : c < d => ofile[p][c] = Null) /\ Close(p, d, "exit")

ExitCwd(p) ==
  /\ At(p, "exit") /\ \A d \in Fd : ofile[p][d] = Null
  /\ Go(p, Iput(p, cwd[p], "gone"))
  /\ UNCHANGED <<inodes, files, panicked>>

ExitDone(p) ==
  /\ At(p, "gone")
  /\ cwd' = [cwd EXCEPT ![p] = Null]
  /\ l' = [l EXCEPT ![p] = [Idle EXCEPT !.pc = "unused"]]
  /\ UNCHANGED <<inodes, file, ofile, panicked>>

\* A call with a path name begins.
Call(p, op) ==
  /\ At(p, "idle")
  /\ Namex(p, op, op.path, op.call)
  /\ UNCHANGED <<din, mem, lock, bitmap, files>>

\* A process makes a system call that names a path, or that adds references.
Begin(p) ==
  /\ panicked = {}
  /\ \/ \E op \in Ops : Call(p, op)
     \/ sys_dup(p)
     \/ \E q \in Proc : Fork(p, q)
     \/ ExitStart(p)

\* A step of such a call, or a call on an open file.
Step(p) ==
  /\ panicked = {}
  /\ \/ IputDrop(p) \/ IputLast(p) \/ IputTrunc(p) \/ IputType(p) \/ IputValid(p)
     \/ WalkEnd(p) \/ Walk(p) \/ NotFound(p)
     \/ CreateLookup(p) \/ CreateFound(p) \/ Ialloc(p) \/ IallocGet(p) \/ CreateFill(p)
     \/ UnlockDp(p) \/ Made(p)
     \/ OpenLock(p) \/ OpenAlloc(p) \/ OpenUndo(p) \/ OpenTrunc(p)
     \/ Chdir(p) \/ NewCwd(p)
     \/ LinkOld(p) \/ LinkName(p) \/ LinkNew(p) \/ LinkDone(p) \/ LinkBad(p)
     \/ UnlinkLookup(p) \/ UnlinkErase(p) \/ UnlinkDrop(p)
     \/ sys_close(p) \/ sys_write(p) \/ sys_read(p)
     \/ ExitClose(p) \/ ExitCwd(p) \/ ExitDone(p)

Next == \E p \in Proc : Begin(p) \/ Step(p)

Spec == Init /\ [][Next]_vars

-----------------------------------------------------------------------------
\* The inodes that a process, an open file or a call under way refers to.
Referenced ==
  {cwd[p] : p \in Proc} \cup {file[f].ip : f \in File}
    \cup UNION {{l[p].ip, l[p].dp, l[p].aux, l[p].put} : p \in Proc}

\* The panics in the inode code: the inode a call locks is allocated (ilock), a name's
\* inode has a link (sys_unlink), no block is freed twice (bfree), no file is closed
\* once too often.  Two panics are left, and happen for their reason only: ilock() finds
\* a free inode after namex() has gone through the .. of a removed directory, whose
\* parent may be removed as well; and iget() finds NINODE inodes that are all in use.
NoPanic ==
  /\ panicked \subseteq {"lost", "iget"}
  /\ "iget" \in panicked => \A i \in Inum : ref[i] > 0 => i \in Referenced

\* Directory entries: the directory, the name and the inode it leads to.
Entries ==
  UNION {{<<d, n, din[d].ents[n]>> : n \in DOMAIN din[d].ents \ Dots} : d \in Inum}

\* No entry dangles and no link is lost: an inode that a directory names is
\* allocated, and nlink counts its names and, for a directory, the ".." of its
\* subdirectories, also while link, unlink, create and iput() are half way.
LinksCounted ==
  \A i \in {e[3] : e \in Entries} :
    LET names == {f \in Entries : f[3] = i}
        subdirs == {f \in Entries : f[1] = i /\ din[f[3]].type = "dir"}
    IN /\ din[i].type # "none"
       /\ din[i].nlink >= Cardinality(names) + Cardinality(subdirs)

\* The directories below the root are a tree: a directory that the root leads to
\* has one name, and its ".." is the directory it is in (create, sys_link, sys_unlink).
Below ==
  LET reach[n \in 0 .. Cardinality(Inum)] ==
        IF n = 0 THEN {ROOTINO}
        ELSE LET above == reach[n - 1]
             IN above \cup {e[3] : e \in {f \in Entries : f[1] \in above}}
  IN reach[Cardinality(Inum)]

TreeShape ==
  LET below == Below
      names == {e \in Entries : e[1] \in below}
  IN \A e \in names : din[e[3]].type = "dir" =>
       /\ \A f \in names : f[3] = e[3] => f = e
       /\ e[3] # ROOTINO
       /\ din[e[3]].ents[".."] = e[1]

\* Every data block in use belongs to one inode (balloc, bmap, itrunc, bfree).
BlocksOwned ==
  /\ bitmap = UNION {din[i].blocks : i \in Inum}
  /\ \A i, j \in Inum : i # j => din[i].blocks \cap din[j].blocks = {}

\* When no call is under way, ip->ref counts the open files and the current
\* directories and f->ref the descriptors: no path through a call, failing or not,
\* keeps a reference or drops one twice; nothing is locked, and the copy of an inode
\* in memory is what the disk holds (iget(), iput(), iupdate()).
RefsAccounted ==
  (\A p \in Proc : l[p].pc \in {"idle", "unused"}) =>
    /\ \A i \in Inum :
         /\ ref[i] = Cardinality({p \in Proc : cwd[p] = i})
                     + Cardinality({f \in File : file[f].ip = i})
         /\ lock[i] = Null
         /\ mem[i] \in {Invalid, din[i]}
    /\ \A f \in File :
         file[f].ref = Cardinality({pd \in Proc \X Fd : ofile[pd[1]][pd[2]] = f})

\* "iput() frees if the reference and link counts have fallen to zero": an inode
\* without names and references is free when no call is under way.
UnlinkedIsFreed ==
  (\A p \in Proc : l[p].pc \in {"idle", "unused"}) =>
    \A i \in Inum : ref[i] = 0 /\ din[i].nlink = 0 => din[i].type = "none"

\* The inode whose lock the process has to wait for.
Target(p) ==
  CASE l[p].pc \in {"create", "open", "chdir", "link", "unlink", "linknew"} -> l[p].ip
    [] l[p].pc \in {"found", "fill", "victim"} -> l[p].ip
    [] l[p].pc = "walk" /\ l[p].path # <<>> -> l[p].ip
    [] l[p].pc = "linkbad" -> l[p].aux
    [] l[p].pc = "iput" /\ LastRef(l[p].put) -> l[p].put
    [] OTHER -> Null

\* iput() never waits for the lock of the inode it frees: "this acquiresleep() won't
\* block (or deadlock)".
IputNeverWaits ==
  \A p \in Proc : At(p, "iput") /\ LastRef(l[p].put) => lock[l[p].put] = Null

\* Calls that lock two inodes lock the directory first, and path lookup holds one
\* lock at a time: no processes wait for each other's inode locks in a circle.  And
\* iput() never waits.
NoLockCycle ==
  /\ \A S \in SUBSET Proc \ {{}} :
       ~\A p \in S : Target(p) # Null /\ lock[Target(p)] \in S
  /\ IputNeverWaits
=============================================================================
