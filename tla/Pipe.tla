---------------------------------- MODULE Pipe ----------------------------------
(***************************************************************************)
(* Pipes under the file table and the descriptors of processes: pipe.c,     *)
(* file.c and the system calls of sysfile.c on descriptors, with fork(),    *)
(* exit() and kill() as they meet them.  One page is left for pipes, so     *)
(* that a pipe that was freed is the next one to be allocated.              *)
(*                                                                         *)
(* The table of descriptors belongs to its process; ftable.lock makes a     *)
(* step of each change of a count; pi->lock is held from one step to the    *)
(* next by a writer only, for killed() may change under it.                 *)
(***************************************************************************)
EXTENDS Integers, Sequences, FiniteSets

CONSTANTS Client, Byte,
          NOFILE, NFILE,   \* descriptors of a process, entries of ftable
          PIPESIZE,
          Wrap,            \* the counters nread and nwrite are counted modulo Wrap
          MaxN,            \* bound: bytes a call asks for
          Nil

PipeAssumption ==
  /\ NOFILE \in Nat /\ NFILE \in Nat /\ MaxN \in Nat /\ PIPESIZE \in Nat \ {0}
  /\ Wrap \in Nat /\ Wrap > PIPESIZE /\ Wrap % PIPESIZE = 0
  /\ IsFiniteSet(Client) /\ Nil \notin Client

ASSUME PipeConstants == PipeAssumption

VARIABLES ofile,           \* proc[p].ofile: a file, or 0
          ref, end,        \* per file: f->ref, and which end of the pipe it is
          alive, data, nread, nwrite, readopen, writeopen,   \* *pi
          lock,            \* who holds pi->lock
          at, left,        \* where a process is; the bytes it still has to write
          todo,            \* the files it has still to fileclose()
          ff,              \* the copy of a file whose last reference it dropped
          killed,
          unwoken          \* history: a killed writer left without wakeup(&pi->nread)

pi == <<alive, data, nread, nwrite, readopen, writeopen>>
table == <<ofile, ref, end>>
pipeVars == <<table, pi, lock, at, left, todo, ff, killed, unwoken>>

Fds == 1 .. NOFILE
Files == 1 .. NFILE
Occupied(p) == {fd \in Fds : ofile[p][fd] # 0}
Least(S) == CHOOSE n \in S : \A m \in S : n <= m

\* No descriptor and no pipe.
PipeIdle ==
  /\ ofile = [p \in Client |-> [fd \in Fds |-> 0]]
  /\ ref = [f \in Files |-> 0] /\ end = [f \in Files |-> "none"]
  /\ alive = FALSE /\ data = [i \in 0 .. PIPESIZE - 1 |-> Nil]
  /\ nread = 0 /\ nwrite = 0 /\ readopen = FALSE /\ writeopen = FALSE
  /\ lock = Nil
  /\ left = [p \in Client |-> 0] /\ todo = [p \in Client |-> <<>>] /\ ff = [p \in Client |-> "none"]
  /\ killed = [p \in Client |-> FALSE] /\ unwoken = FALSE

\* One process is alive.
PipeInit ==
  PipeIdle /\ \E p \in Client : at = [q \in Client |-> IF q = p THEN "user" ELSE "dead"]

Empty == nread = nwrite
FullLate == nwrite = (nread + PIPESIZE + 1) % Wrap   \* mutant: one byte too many
Full == nwrite = (nread + PIPESIZE) % Wrap
Length == (nwrite - nread) % Wrap

\* at' once p is at q and the sleepers of one channel are RUNNABLE again.
Woken(sleep, loop) == [p \in Client |-> IF at[p] = sleep THEN loop ELSE at[p]]
WakeReaders == Woken("rsleep", "read")
WakeNobody == at   \* mutant: a forgotten wakeup()
WakeWriters == Woken("wsleep", "write")

\* usertrap() lets a process that is not killed into a system call.
Calls(p) == at[p] = "user" /\ ~killed[p]

\* sys_pipe(): pipealloc() takes two files and the page, fdalloc() as many
\* descriptors as there are.  Where pipealloc() fails nothing is left of it.
SysPipe(p) ==
  LET free == {f \in Files : ref[f] = 0}
      rf == Least(free)
      wf == Least(free \ {rf})
      room == Fds \ Occupied(p)
      fd0 == Least(room)
      fd1 == Least(room \ {fd0})
  IN /\ Calls(p) /\ Cardinality(free) >= 2 /\ ~alive
     /\ ref' = [ref EXCEPT ![rf] = 1, ![wf] = 1]
     /\ end' = [end EXCEPT ![rf] = "read", ![wf] = "write"]
     /\ alive' = TRUE /\ readopen' = TRUE /\ writeopen' = TRUE
     /\ nread' = 0 /\ nwrite' = 0
     /\ \/ /\ Cardinality(room) >= 2
           /\ ofile' = [ofile EXCEPT ![p][fd0] = rf, ![p][fd1] = wf]
           /\ UNCHANGED <<at, todo>>
        \/ \* no second descriptor, or copyout() fails
           /\ at' = [at EXCEPT ![p] = "close"]
           /\ todo' = [todo EXCEPT ![p] = <<rf, wf>>]
           /\ UNCHANGED ofile
     /\ UNCHANGED <<data, lock, left, ff, killed, unwoken>>

\* sys_dup(): fdalloc() first, filedup() after it.
Fdalloc(p, f) ==
  LET room == Fds \ Occupied(p) IN
  /\ Calls(p) /\ f \in {ofile[p][fd] : fd \in Occupied(p)} /\ room # {}
  /\ ofile' = [ofile EXCEPT ![p][Least(room)] = f]
  /\ todo' = [todo EXCEPT ![p] = <<f>>]
  /\ at' = [at EXCEPT ![p] = "dup"]
  /\ UNCHANGED <<ref, end, pi, lock, left, ff, killed, unwoken>>

Filedup(p) ==
  /\ at[p] = "dup"
  /\ ref' = [ref EXCEPT ![todo[p][1]] = @ + 1]
  /\ todo' = [todo EXCEPT ![p] = <<>>]
  /\ at' = [at EXCEPT ![p] = "user"]
  /\ UNCHANGED <<ofile, end, pi, lock, left, ff, killed, unwoken>>

\* sys_close(), and a turn of the loop of exit().
Close(p, fd) ==
  /\ fd \in Occupied(p) /\ todo[p] = <<>>
  /\ \/ Calls(p) /\ at' = [at EXCEPT ![p] = "close"]
     \/ at[p] = "exit" /\ fd = Least(Occupied(p)) /\ UNCHANGED at
  /\ ofile' = [ofile EXCEPT ![p][fd] = 0]
  /\ todo' = [todo EXCEPT ![p] = <<ofile[p][fd]>>]
  /\ UNCHANGED <<ref, end, pi, lock, left, ff, killed, unwoken>>

\* What follows a fileclose(): the other file of a failed sys_pipe(), or the return.
Closed(p, st) ==
  /\ todo' = [todo EXCEPT ![p] = Tail(@)]
  /\ at' = [st EXCEPT ![p] = IF @ = "close" /\ Len(todo[p]) = 1 THEN "user" ELSE @]

FileClose(p) ==
  /\ at[p] \in {"close", "exit"} /\ todo[p] # <<>> /\ ff[p] = "none"
  /\ LET f == Head(todo[p]) IN
     /\ ref' = [ref EXCEPT ![f] = @ - 1]
     /\ IF ref[f] > 1 THEN Closed(p, at) /\ UNCHANGED <<end, ff>>
        ELSE /\ ff' = [ff EXCEPT ![p] = end[f]]
             /\ end' = [end EXCEPT ![f] = "none"]
             /\ UNCHANGED <<at, todo>>
  /\ UNCHANGED <<ofile, pi, lock, left, killed, unwoken>>

\* The last reference is gone: pipeclose() on the copy ff.
PipeClose(p) ==
  /\ lock = Nil
  /\ \/ /\ ff[p] = "write"
        /\ writeopen' = FALSE /\ alive' = readopen
        /\ Closed(p, WakeReaders) /\ unwoken' = FALSE
        /\ UNCHANGED readopen
     \/ /\ ff[p] = "read"
        /\ readopen' = FALSE /\ alive' = writeopen
        /\ Closed(p, WakeWriters)
        /\ UNCHANGED <<writeopen, unwoken>>
  /\ ff' = [ff EXCEPT ![p] = "none"]
  /\ UNCHANGED <<table, data, nread, nwrite, lock, left, killed>>

Call(p, e, n) ==
  /\ Calls(p)
  /\ \E fd \in Occupied(p) : end[ofile[p][fd]] = e
  /\ at' = [at EXCEPT ![p] = e]
  /\ left' = [left EXCEPT ![p] = n]
  /\ UNCHANGED <<table, pi, lock, todo, ff, killed, unwoken>>

Leave(p, st) == at' = [st EXCEPT ![p] = "user"] /\ left' = [left EXCEPT ![p] = 0]

\* piperead() waits for bytes, or for the last writer to go ...
ReadWait(p) ==
  /\ at[p] = "read" /\ lock = Nil
  /\ Empty /\ writeopen
  /\ IF killed[p] THEN Leave(p, at) ELSE at' = [at EXCEPT ![p] = "rsleep"] /\ UNCHANGED left
  /\ UNCHANGED <<table, pi, lock, todo, ff, killed, unwoken>>

\* ... and takes what there is, less if copyout() fails, with the byte it failed for.
ReadCopy(p) ==
  /\ at[p] = "read" /\ lock = Nil
  /\ ~(Empty /\ writeopen)
  /\ \E k \in 0 .. Length :
       /\ k <= left[p] /\ (Length > 0 /\ left[p] > 0 => k > 0)
       /\ nread' = (nread + k) % Wrap
  /\ Leave(p, WakeWriters)
  /\ UNCHANGED <<table, alive, data, nwrite, readopen, writeopen, lock, todo, ff, killed, unwoken>>

\* pipewrite(), one turn of the loop after the other.
Writing(p) == at[p] = "write" /\ lock \in {Nil, p}
Refused(p) == left[p] > 0 /\ (~readopen \/ killed[p])

WriteRefused(p) ==
  /\ Writing(p) /\ Refused(p)
  /\ Leave(p, at)
  /\ lock' = Nil
  /\ unwoken' = (unwoken \/ ~Empty)
  /\ UNCHANGED <<table, pi, todo, ff, killed>>

WriteFull(p) ==
  /\ Writing(p) /\ ~Refused(p) /\ left[p] > 0 /\ Full
  /\ at' = [WakeReaders EXCEPT ![p] = "wsleep"]
  /\ lock' = Nil /\ unwoken' = FALSE
  /\ UNCHANGED <<table, pi, left, todo, ff, killed>>

WriteByte(p, b) ==
  /\ Writing(p) /\ ~Refused(p) /\ left[p] > 0 /\ ~Full
  /\ data' = [data EXCEPT ![nwrite % PIPESIZE] = b]
  /\ nwrite' = (nwrite + 1) % Wrap
  /\ left' = [left EXCEPT ![p] = @ - 1]
  /\ lock' = p
  /\ UNCHANGED <<table, alive, nread, readopen, writeopen, at, todo, ff, killed, unwoken>>

\* All is written, or copyin() fails.
WriteDone(p) ==
  /\ Writing(p) /\ ~Refused(p) /\ (left[p] > 0 => ~Full)
  /\ Leave(p, WakeReaders)
  /\ lock' = Nil /\ unwoken' = FALSE
  /\ UNCHANGED <<table, pi, todo, ff, killed>>

\* Mutant: a file that has two descriptors is counted once.
ForkFilesOnce(p, c) ==
  /\ Calls(p) /\ at[c] = "dead"
  /\ ofile' = [ofile EXCEPT ![c] = ofile[p]]
  /\ ref' = [f \in Files |-> IF f \in {ofile[p][fd] : fd \in Fds} THEN ref[f] + 1 ELSE ref[f]]
  /\ at' = [at EXCEPT ![c] = "user"]
  /\ UNCHANGED <<end, pi, lock, left, todo, ff, killed, unwoken>>

\* fork() gives the child the files of its parent, each counted by filedup().
ForkFiles(p, c) ==
  /\ Calls(p) /\ at[c] = "dead"
  /\ ofile' = [ofile EXCEPT ![c] = ofile[p]]
  /\ ref' = [f \in Files |-> ref[f] + Cardinality({fd \in Fds : ofile[p][fd] = f})]
  /\ at' = [at EXCEPT ![c] = "user"]
  /\ UNCHANGED <<end, pi, lock, left, todo, ff, killed, unwoken>>

Kill(p) ==
  /\ at[p] # "dead" /\ ~killed[p]
  /\ killed' = [killed EXCEPT ![p] = TRUE]
  /\ at' = [at EXCEPT ![p] = CASE @ = "rsleep" -> "read" [] @ = "wsleep" -> "write" [] OTHER -> @]
  /\ UNCHANGED <<table, pi, lock, left, todo, ff, unwoken>>

\* exit(), called, or by usertrap() when the process is killed.
ExitFiles(p) ==
  /\ at[p] = "user"
  /\ at' = [at EXCEPT ![p] = "exit"]
  /\ UNCHANGED <<table, pi, lock, left, todo, ff, killed, unwoken>>

Exited(p) ==
  /\ at[p] = "exit" /\ Occupied(p) = {} /\ todo[p] = <<>>
  /\ at' = [at EXCEPT ![p] = "dead"]
  /\ killed' = [killed EXCEPT ![p] = FALSE]
  /\ UNCHANGED <<table, pi, lock, left, todo, ff, unwoken>>

PipeNext ==
  \E p \in Client :
    \/ SysPipe(p) \/ Filedup(p) \/ FileClose(p) \/ PipeClose(p)
    \/ \E f \in Files : Fdalloc(p, f)
    \/ \E fd \in Fds : Close(p, fd)
    \/ \E e \in {"read", "write"}, n \in 1 .. MaxN : Call(p, e, n)
    \/ ReadWait(p) \/ ReadCopy(p)
    \/ WriteRefused(p) \/ WriteFull(p) \/ WriteDone(p)
    \/ \E b \in Byte : WriteByte(p, b)
    \/ \E c \in Client : ForkFiles(p, c)
    \/ Kill(p) \/ ExitFiles(p) \/ Exited(p)

PipeSpec == PipeInit /\ [][PipeNext]_pipeVars

-----------------------------------------------------------------------------

\* A file's count is the number of descriptors that name it, with those a process
\* is just about to close and without those sys_dup() has yet to count; an end of
\* the pipe is open until the last close of its file; and whoever reads or writes,
\* or sleeps in it, finds its own end open, so that the page is not freed under it.
Pends(p, f) == \E i \in DOMAIN todo[p] : todo[p][i] = f /\ (i = 1 => ff[p] = "none")
Closing(f) == {p \in Client : Pends(p, f) /\ at[p] # "dup"}
Counting(f) == {p \in Client : Pends(p, f) /\ at[p] = "dup"}
Naming(f) == {x \in Client \X Fds : ofile[x[1]][x[2]] = f}
Count(f) == Cardinality(Naming(f)) + Cardinality(Closing(f)) - Cardinality(Counting(f))
IsOpen(e) == (\E f \in Files : end[f] = e) \/ (\E p \in Client : ff[p] = e)
FilesExact ==
  /\ \A f \in Files : ref[f] = Count(f) /\ (ref[f] = 0 <=> end[f] = "none")
  /\ readopen = IsOpen("read") /\ writeopen = IsOpen("write")
  /\ alive = (readopen \/ writeopen)
  /\ \A p \in Client : /\ at[p] \in {"read", "rsleep"} => readopen
                       /\ at[p] \in {"write", "wsleep"} => writeopen

\* Nobody sleeps over what it waits for: a reader only in an empty pipe with a
\* writer left, unless a writer is at it, a writer only in a full pipe with a
\* reader left.  The exception is a killed writer: it returns without a wakeup(),
\* with the bytes it has written already, and a reader sleeps beside them.
NoneOversleeps ==
  \A p \in Client :
    /\ at[p] = "rsleep" => (Empty /\ writeopen) \/ lock # Nil \/ unwoken
    /\ at[p] = "wsleep" => Full /\ readopen

\* A pipe is a bounded queue of bytes between its ends.
Queue == [i \in 1 .. IF alive THEN Length ELSE 0 |-> data[(nread + i - 1) % PIPESIZE]]
Chan == INSTANCE Channel WITH queue <- Queue, Capacity <- PIPESIZE
IsChannel == Chan!ChanSpec

=============================================================================
