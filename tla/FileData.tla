------------------------------ MODULE FileData ------------------------------
(***************************************************************************)
(* The bytes of files in blocks: mkfs.c makes the image, and then the      *)
(* kernel (bmap, readi, writei, itrunc of fs.c; fileread, filewrite of     *)
(* file.c) reads and writes it.  A byte stands for as many as a directory  *)
(* entry has; block numbers in an indirect block take one each.            *)
(***************************************************************************)
EXTENDS Integers, Sequences, FiniteSets, FiniteSetsExt, SequencesExt

CONSTANTS
  BSIZE, NDIRECT, NINDIRECT,
  NMETA,         \* nmeta: blocks before the data blocks
  FSSIZE,
  BPB,           \* bits, so blocks, per block of the bitmap
  MAXOPBLOCKS,
  MaxFiles,      \* bound: files given to mkfs
  MaxCall        \* bound: bytes of a call of read() or write()

MAXFILE == NDIRECT + NINDIRECT
Block == 0 .. FSSIZE - 1
Sector == 0 .. FSSIZE + 2    \* the file that mkfs writes grows when an append passes FSSIZE
Ino == 1 .. MaxFiles + 1
Root == 1
Unsure == -1       \* a byte that a failed copy may have changed or not

VARIABLES
  img,       \* the disk: inodes (size, addrs), blocks, bitmap; mkfs's freeblock; and the
             \* blocks that a round of filewrite() logs
  made,      \* mkfs has made the image
  freeinode, \* of mkfs
  content,   \* the bytes of each file, for comparison
  foff,      \* f->off of the one open file, of the last inode that mkfs made
  pending    \* filewrite() under way: the bytes left, and what they are

datavars == <<img, made, freeinode, content, foff, pending>>

NoBlock == [k \in 0 .. BSIZE - 1 |-> 0]
NoInode == [size |-> 0, addrs |-> [n \in 0 .. NDIRECT |-> 0]]
Least(a, b) == IF a < b THEN a ELSE b
-----------------------------------------------------------------------------
\* An allocation yields the disk m and the block number a, 0 if there is none.
\* mkfs: freeblock++.
NextBlock(m) == [m |-> [m EXCEPT !.freeblock = @ + 1], a |-> m.freeblock]

\* balloc(): the first free block, zeroed; its bit and its bytes are logged.
balloc(m) ==
  LET free_ == Block \ m.bitmap
      a == Min(free_)
  IN IF free_ = {} THEN [m |-> m, a |-> 0]
     ELSE [m |-> [m EXCEPT !.bitmap = @ \cup {a}, !.blk[a] = NoBlock,
                           !.log = @ \cup {<<"bitmap", a \div BPB>>, <<"block", a>>}],
           a |-> a]

\* bmap(), and the same steps in iappend(), which differ in how they allocate.
Map(alloc(_), m, i, bn) ==
  LET direct == m.ino[i].addrs[bn]
      new == alloc(m)
      x == m.ino[i].addrs[NDIRECT]
      ind == IF x # 0 THEN [m |-> m, a |-> x]
             ELSE [new EXCEPT !.m.ino[i].addrs[NDIRECT] = new.a]
      entry == ind.m.blk[ind.a][bn - NDIRECT]
      last == alloc(ind.m)
  IN CASE bn < NDIRECT /\ direct # 0 -> [m |-> m, a |-> direct]
       [] bn < NDIRECT /\ direct = 0 -> [new EXCEPT !.m.ino[i].addrs[bn] = new.a]
       [] bn >= NDIRECT /\ ind.a = 0 -> ind
       [] bn >= NDIRECT /\ ind.a # 0 /\ entry # 0 -> [ind EXCEPT !.a = entry]
       [] OTHER -> IF last.a = 0 THEN last
                   ELSE [last EXCEPT !.m.blk[ind.a][bn - NDIRECT] = last.a,
                                     !.m.log = @ \cup {<<"block", ind.a>>}]
bmap(m, i, bn) == Map(balloc, m, i, bn)

\* Mutant: a piece does not stop at the end of the block that its offset is in.
Piece_whole(off, n) == Least(n, BSIZE)

\* The bytes of one round of the loops: not past the end of the block.
Piece(off, n) == Least(n, BSIZE - (off % BSIZE))

\* The offsets where the rounds for n bytes from off on begin.
Rounds_(off, n) ==
  LET at[k \in 0 .. n] == IF k = 0 THEN off
                          ELSE at[k - 1] + Piece(at[k - 1], off + n - at[k - 1])
      count == Min({k \in 0 .. n : at[k] = off + n})
  IN [k \in 1 .. count |-> at[k - 1]]

\* n bytes of value v at offset off of block a.
Put(m, a, off, n, v) ==
  LET o == off % BSIZE IN [m EXCEPT !.blk[a] = [k \in o .. o + n - 1 |-> v] @@ @]
-----------------------------------------------------------------------------
\* mkfs: iappend() of n bytes of value v.
iappend(m, i, n, v) ==
  LET off == m.ino[i].size
      step(d, o) == LET r == Map(NextBlock, d, i, o \div BSIZE)
                    IN Put(r.m, r.a, o, Piece(o, off + n - o), v)
  IN [FoldLeft(step, m, Rounds_(off, n)) EXCEPT !.ino[i].size = off + n]

\* The zeroed image with the root directory and its entries . and .. .
DataInit ==
  /\ img = LET m == [ino |-> [i \in Ino |-> NoInode], blk |-> [b \in Sector |-> NoBlock],
                     bitmap |-> {}, freeblock |-> NMETA, log |-> {}]
           IN iappend(iappend(m, Root, 1, Root), Root, 1, Root)
  /\ content = [i \in Ino |-> IF i = Root THEN <<Root, Root>> ELSE <<>>]
  /\ freeinode = 2 /\ made = FALSE
  /\ foff = 0 /\ pending = [n |-> 0, v |-> 0]

\* assert(fbn < MAXFILE); and the files fit in the image, which mkfs does not check.
Append_(i, n, v) ==
  /\ ~made /\ img.ino[i].size + n <= MAXFILE * BSIZE
  /\ img' = iappend(img, i, n, v)
  /\ img'.freeblock <= FSSIZE
  /\ content' = [content EXCEPT ![i] = @ \o [k \in 1 .. n |-> v]]
  /\ UNCHANGED <<made, foff, pending>>

\* A file of the command line: ialloc(T_FILE) and its entry in the root.
MkfsFile ==
  /\ freeinode <= MaxFiles + 1
  /\ Append_(Root, 1, freeinode)
  /\ freeinode' = freeinode + 1

\* read() returns up to BSIZE bytes of it.
MkfsRead ==
  /\ freeinode > 2
  /\ \E n \in 1 .. BSIZE : Append_(freeinode - 1, n, 1)
  /\ UNCHANGED freeinode

\* The size of the root rounded up, and the bitmap: the first freeblock blocks.
MkfsEnd ==
  /\ ~made /\ freeinode > 2
  /\ LET size == (img.ino[Root].size \div BSIZE + 1) * BSIZE
     IN /\ img' = [img EXCEPT !.ino[Root].size = size, !.bitmap = 0 .. img.freeblock - 1, !.freeblock = 0]
        /\ content' = [content EXCEPT ![Root] = [k \in 1 .. size |-> IF k <= Len(@) THEN @[k] ELSE 0]]
  /\ made' = TRUE
  /\ UNCHANGED <<freeinode, foff, pending>>
-----------------------------------------------------------------------------
Opened == freeinode - 1

\* readi(): the disk after it (bmap() may allocate), and the bytes read.
readi(m, i, off, n) ==
  LET size == m.ino[i].size
      n1 == IF off > size THEN 0 ELSE Least(n, size - off)
      step(r, o) ==
        LET b == bmap(r.m, i, o \div BSIZE)
            len == Piece(o, off + n1 - o)
        IN IF b.a = 0 \/ off + Len(r.data) # o THEN [r EXCEPT !.m = b.m]
           ELSE [m |-> b.m, data |-> r.data \o [k \in 1 .. len |-> b.m.blk[b.a][(o + k - 1) % BSIZE]]]
  IN FoldLeft(step, [m |-> m, data |-> <<>>], Rounds_(off, n1))

\* writei() of n bytes v: the disk, and how far it comes.  In the round at offset bad
\* copyin() fails, after `part' bytes.
writei_(m, i, off, n, v, bad, part_) ==
  LET step(r, o) ==
        LET b == bmap(r.m, i, o \div BSIZE)
            len == Piece(o, off + n - o)
        IN CASE r.end # o -> r
             [] r.end = o /\ b.a = 0 -> [r EXCEPT !.m = b.m]
             [] r.end = o /\ b.a # 0 /\ o = bad -> [r EXCEPT !.m = Put(b.m, b.a, o, part_, v)]
             [] OTHER -> [m |-> [Put(b.m, b.a, o, len, v) EXCEPT !.log = @ \cup {<<"block", b.a>>}],
                          end |-> o + len]
      r == FoldLeft(step, [m |-> [m EXCEPT !.log = {<<"inode", i>>}], end |-> off], Rounds_(off, n))
  IN [r EXCEPT !.m.ino[i].size = IF r.end > @ THEN r.end ELSE @]

\* filewrite()'s max.
MaxChunk == ((MAXOPBLOCKS - 1 - 1 - 2) \div 2) * BSIZE

Write_ ==
  /\ made /\ pending.n = 0
  /\ pending' \in [n : 1 .. MaxCall, v : {1, 2}]
  /\ UNCHANGED <<img, made, freeinode, content, foff>>

\* A round of filewrite()'s loop, in a transaction and with the inode locked.
WriteChunk ==
  LET n1 == Least(pending.n, MaxChunk)
      off == foff
      i == Opened
      fails == off > img.ino[i].size \/ off + n1 > MAXFILE * BSIZE
  IN /\ pending.n > 0
     /\ \/ fails /\ pending' = [n |-> 0, v |-> 0] /\ UNCHANGED <<img, content, foff>>
        \/ /\ ~fails
           /\ \E bad \in {-1} \cup Range(Rounds_(off, n1)), p \in 0 .. BSIZE - 1 :
                /\ (bad = -1 => p = 0) /\ (bad # -1 => p < Piece(bad, off + n1 - bad))
                /\ LET r == writei_(img, i, off, n1, pending.v, bad, p)
                       size == r.m.ino[i].size
                       byte(k) == CASE k > off /\ k <= r.end -> pending.v
                                    [] k > r.end /\ k <= bad + p -> Unsure
                                    [] OTHER -> content[i][k]
                   IN /\ img' = r.m
                      /\ content' = [content EXCEPT ![i] = [k \in 1 .. size |-> byte(k)]]
                      /\ foff' = r.end
                      /\ pending' = IF r.end = off + n1 /\ pending.n > n1
                                    THEN [pending EXCEPT !.n = @ - n1] ELSE [n |-> 0, v |-> 0]
     /\ UNCHANGED <<made, freeinode>>

\* fileread() of the file, and a directory being searched.
Read_ ==
  /\ made
  /\ \/ \E n \in 1 .. MaxCall :
          LET r == readi(img, Opened, foff, n)
          IN pending.n = 0 /\ img' = [r.m EXCEPT !.log = {}] /\ foff' = foff + Len(r.data)
     \/ \E off \in 0 .. img.ino[Root].size - 1 :
          img' = [readi(img, Root, off, 1).m EXCEPT !.log = {}] /\ UNCHANGED foff
  /\ UNCHANGED <<made, freeinode, content, pending>>

\* itrunc(), by an open() of the file with O_TRUNC, whose own offset is 0.
itrunc ==
  /\ made
  /\ LET i == Opened
         a == img.ino[i].addrs
         listed == IF a[NDIRECT] = 0 THEN {} ELSE {img.blk[a[NDIRECT]][k] : k \in 0 .. NINDIRECT - 1}
     IN /\ img' = [img EXCEPT !.bitmap = @ \ (({a[n] : n \in 0 .. NDIRECT} \cup listed) \ {0}),
                              !.ino[i] = NoInode, !.log = {}]
        /\ content' = [content EXCEPT ![i] = <<>>]
  /\ UNCHANGED <<made, freeinode, foff, pending>>

DataNext == MkfsFile \/ MkfsRead \/ MkfsEnd \/ Write_ \/ WriteChunk \/ Read_ \/ itrunc
-----------------------------------------------------------------------------
\* The blocks that an inode refers to, as <<where, block>>.
Refers(i) ==
  LET a == img.ino[i].addrs
  IN {<<n, a[n]>> : n \in {n \in 0 .. NDIRECT : a[n] # 0}}
     \cup IF a[NDIRECT] = 0 THEN {}
          ELSE {<<NDIRECT + 1 + k, img.blk[a[NDIRECT]][k]>> :
                  k \in {k \in 0 .. NINDIRECT - 1 : img.blk[a[NDIRECT]][k] # 0}}

\* Every read() of a file that mkfs, then write() and O_TRUNC made yields the bytes that
\* were written there (a directory search may come short only when the rounded-up block
\* of the root is missing and the disk is full).  Every block has one use and the bitmap
\* tells which are used.  A round of filewrite() logs no more than MAXOPBLOCKS blocks.
FileDataExact ==
  /\ \A i \in Ino :
       /\ img.ino[i].size = Len(content[i])
       /\ \A off \in 0 .. Len(content[i]), n \in 1 .. MaxCall :
            LET got == readi(img, i, off, n).data
            IN /\ \A k \in DOMAIN got : content[i][off + k] \in {got[k], Unsure}
               /\ Len(got) = Least(n, Len(content[i]) - off)
                    \/ (i = Root /\ img.bitmap = Block)
  /\ \A i, j \in Ino : \A x \in Refers(i), y \in Refers(j) : x[2] = y[2] => i = j /\ x = y
  /\ LET used == 0 .. NMETA - 1 \cup {x[2] : x \in UNION {Refers(i) : i \in Ino}}
     IN used = IF made THEN img.bitmap ELSE 0 .. img.freeblock - 1
  /\ Cardinality(img.log) <= MAXOPBLOCKS
=============================================================================
