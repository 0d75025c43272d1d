------------------------------ MODULE MCParts -------------------------------
(***************************************************************************)
(* Parts of the kernel and of the user programs that share no state, one   *)
(* at a time, for TLC: `part' says which of them runs.                     *)
(***************************************************************************)
EXTENDS Memory, Console, Clock, Spinlock, FileData, Grammar, Umalloc, Grep, Strings

VARIABLE part

uservars == <<gvars, uvars, grepvars, memvars, namevars, numvars>>
kernelvars == <<mvars, consvars, clockvars, lockvars, datavars>>

PInit ==
  /\ part \in {"memory", "console", "clock", "locks", "files", "parser", "heap", "grep", "memmove",
              "names", "numbers"}
  /\ MInit /\ CInit /\ ClockInit /\ LockInit /\ DataInit
  /\ GInit /\ UInit /\ GrInit /\ MoveInit /\ NameInit /\ NumInit

PNext ==
  /\ UNCHANGED part
  /\ \/ part = "memory" /\ MNext /\ UNCHANGED <<consvars, clockvars, lockvars, datavars, uservars>>
     \/ part = "console" /\ CNext /\ UNCHANGED <<mvars, clockvars, lockvars, datavars, uservars>>
     \/ part = "clock" /\ ClockNext /\ UNCHANGED <<mvars, consvars, lockvars, datavars, uservars>>
     \/ part = "locks" /\ LockNext /\ UNCHANGED <<mvars, consvars, clockvars, datavars, uservars>>
     \/ part = "files" /\ DataNext /\ UNCHANGED <<mvars, consvars, clockvars, lockvars, uservars>>
     \/ /\ part = "parser" /\ GNext
        /\ UNCHANGED <<kernelvars, uvars, grepvars, memvars, namevars, numvars>>
     \/ /\ part = "heap" /\ UNext
        /\ UNCHANGED <<kernelvars, gvars, grepvars, memvars, namevars, numvars>>
     \/ /\ part = "grep" /\ GrNext
        /\ UNCHANGED <<kernelvars, gvars, uvars, memvars, namevars, numvars>>
     \/ /\ part = "memmove" /\ MoveNext
        /\ UNCHANGED <<kernelvars, gvars, uvars, grepvars, namevars, numvars>>
     \/ /\ part = "names" /\ NameNext
        /\ UNCHANGED <<kernelvars, gvars, uvars, grepvars, memvars, numvars>>
     \/ /\ part = "numbers" /\ Count
        /\ UNCHANGED <<kernelvars, gvars, uvars, grepvars, memvars, namevars>>

PSpec == PInit /\ [][PNext]_<<part, kernelvars, uservars>>

\* Programs with one segment and with two of odd sizes; arguments of sleep().
Seg(vaddr, memsz, w_) == [vaddr |-> vaddr, memsz |-> memsz, w |-> w_]
SmallPrograms == {<<Seg(0, 1, FALSE)>>, <<Seg(0, 1, FALSE), Seg(2, 1, TRUE)>>}
Args == {-1, 0, 1, 3}

\* States that differ only in which pages are used are the same: while every page
\* has one use, this shape determines the state up to a renaming of pages.
Shape ==
  <<Cardinality(freelist), panicked, PagesAccounted,
    [p \in Proc |->
       IF proc[p] = Null THEN Null
       ELSE [sz |-> proc[p].sz, nodes |-> DOMAIN proc[p].nodes,
             map |-> [v \in DOMAIN proc[p].map |-> <<proc[p].map[v].u, proc[p].map[v].w>>]]]>>
\* Of the other parts, the variables of the one that runs.
View ==
  <<part, img,
    CASE part = "memory" -> Shape
      [] part = "console" -> consvars
      [] part = "locks" -> LockView
      [] part = "files" -> datavars
      [] OTHER -> <<clockvars, uservars>>>>
-----------------------------------------------------------------------------
(* The invariants of the parts, each where its part runs.                  *)

\* kalloc.c, vm.c: every page has one use, p->sz is what is mapped, and copyin() and
\* copyout() copy exactly what the user may read or write.
MemoryChecked == part = "memory" => PagesAccounted /\ CopySafe

\* spinlock.c, sched(): critical sections exclude each other and interrupts, everywhere.
LocksChecked == part = "locks" => LocksSafe

\* mkfs.c, fs.c, file.c: files hold what was written, blocks have one use, logs suffice.
FilesChecked == part = "files" => FileDataExact

\* sh.c: the parser builds the tree of the grammar and ends every word.
ParserChecked == part = "parser" => ParserCorrect

\* umalloc.c: free list and used blocks partition the heap, in order.
HeapChecked == part = "heap" => HeapPartitioned

\* grep.c, memmove(), path names, printint(): they compute what they are for, wherever
\* reads, overlaps and the limits of buffers cut.
TextChecked ==
  /\ part = "grep" => GrepExact
  /\ part \in {"memmove", "names", "numbers"} => StringsExact
=============================================================================
