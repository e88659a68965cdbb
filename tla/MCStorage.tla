------------------------------- MODULE MCStorage -------------------------------
(***************************************************************************)
(* An instance, for TLC, of the log, of the contents of files, of exec(), of *)
(* the spinlocks, of the allocator of the user programs and of the parser of *)
(* the shell.  They are checked side by side: active says which one runs,    *)
(* the others rest.                                                         *)
(***************************************************************************)
EXTENDS Log, Spinlock, Exec, TLC

CONSTANTS File, Byte, NBLOCKS, BSIZE, NDIRECT, MaxWrite, Lengths,  \* FileData
          NUNITS, Start, Limit, Sizes,                                     \* Heap
          Word, MAXARGS,                                                   \* ShellParser
          MaxLine       \* bound: tokens of a line

VARIABLES active,
          used, data, stored, filepins, addrs, size, off, io,
          heap, malloced, mine,
          line

\* A program with a part that is not loaded; one whose segments are out of order and
\* whose file is too short; one with more in the file than in memory; an empty one; and
\* no program.
Load(vaddr, memsz, filesz, there) ==
  [load |-> TRUE, vaddr |-> vaddr, memsz |-> memsz, filesz |-> filesz, there |-> there]
Note == [Load(0, 0, 0, 0) EXCEPT !.load = FALSE]
MCProgram ==
  {[elf |-> TRUE, segs |-> <<Load(0, 5, 4, 4), Note, Load(8, 3, 2, 2)>>],
   [elf |-> TRUE, segs |-> <<Load(8, 1, 1, 1), Load(0, 13, 4, 2)>>],
   [elf |-> TRUE, segs |-> <<Load(0, 3, 3, 3), Load(4, 2, 3, 3)>>],
   [elf |-> TRUE, segs |-> <<Load(0, 0, 0, 0)>>],
   [elf |-> FALSE, segs |-> <<>>]}

D == INSTANCE FileData WITH Proc <- Caller, pinned <- filepins
H == INSTANCE Heap WITH used <- malloced
P == INSTANCE ShellParser

ASSUME D!FileDataAssumption /\ H!HeapAssumption
ASSUME P!ParserAssumption

fileVars == <<used, data, stored, filepins, addrs, size, off, io>>
heapVars == <<heap, malloced, mine>>

OfFiles == active \in {"files", "calls"}
FilesRest ==
  /\ used = "-" /\ data = "-" /\ stored = "-" /\ filepins = "-"
  /\ addrs = "-" /\ size = "-" /\ off = "-" /\ io = "-"
HeapRests == heap = "-" /\ malloced = "-" /\ mine = "-"

\* Bounds: one call at a time when there are two files, and no commit, so that the buffers
\* stay pinned; one file when there are two calls.
OneCall == Cardinality({p \in Caller : io[p].pc # "idle"}) <= 1
NoCommit == filepins \subseteq filepins'
Touched(f) == addrs[f] # D!NoAddrs \/ off[f] # 0 \/ \E p \in Caller : io[p].f = f
OneFile == Cardinality({f \in File : Touched(f)}) <= 1

\* A line is typed one token after the other.
Type ==
  /\ Len(line) < MaxLine
  /\ \E t \in P!Token : line' = Append(line, t)

StorageInit ==
  /\ active \in {"log", "files", "calls", "exec", "spinlocks", "heap", "parser"}
  /\ Init /\ (active # "log" => \A b \in Block : home[b] = dlog[1] /\ dlog[1] = CHOOSE v \in Value : TRUE)
  /\ IF OfFiles THEN D!FileInit ELSE FilesRest
  /\ ExecInit
  /\ SpinInit
  /\ IF active = "heap" THEN H!HeapInit ELSE HeapRests
  /\ line = <<>>

StorageNext ==
  /\ UNCHANGED active
  /\ IF active = "log" THEN Next ELSE UNCHANGED vars
  /\ CASE active = "files" -> D!FileNext /\ OneCall' /\ NoCommit
       [] active = "calls" -> D!FileNext /\ OneFile'
       [] OTHER -> UNCHANGED fileVars
  /\ IF active = "exec" THEN ExecNext ELSE UNCHANGED execVars
  /\ IF active = "spinlocks" THEN SpinNext ELSE UNCHANGED spinVars
  /\ IF active = "heap" THEN H!HeapNext ELSE UNCHANGED heapVars
  /\ IF active = "parser" THEN Type ELSE UNCHANGED line

StorageSpec ==
  StorageInit /\ [][StorageNext]_<<active, vars, fileVars, execVars, spinVars, heapVars, line>>

\* The processes are alike, and so are the blocks and the files.  Files are named as the
\* blocks of the log are: only one of the two parts runs, and one set of permutations is
\* enough for both.
Alike ==
  Permutations(Proc) \cup Permutations(Block) \cup Permutations(Caller)

\* What a free block holds is no part of a state, for balloc() clears it and logs it.
Held(blocks) == [b \in used |-> blocks[b]]
FileShape ==
  IF OfFiles
  THEN <<used, Held(data), Held(stored), filepins \cap used, addrs, size, off, io>>
  ELSE "-"
Shape == <<active, vars, FileShape, execVars, spinVars, heapVars, line>>

-----------------------------------------------------------------------------

\* A file reads as it was written: the specification of FileStore, whose step need
\* not be looked for when nothing of the files changes.
IsFileStore == (OfFiles => D!Store!StoreInit) /\ [][fileVars' # fileVars => D!Store!StoreNext]_(D!Store!storeVars)

\* Every unit of the heap is in one block.
HeapExact == active = "heap" => H!HeapExact

\* The parser accepts the lines of the grammar, and finds what they stand for.
ParserExact == P!Recognises(line)

=============================================================================
