--------------------------------- MODULE Shell ---------------------------------
(***************************************************************************)
(* init (user/init.c) and the shell (user/sh.c): the processes that a        *)
(* command line becomes, and their file descriptors.  A step is a system     *)
(* call, with what the process does on the way to it.  What a pipe and       *)
(* wait() do is from the kernel, in Pipe and ProcTable; here a pipe holds    *)
(* one line.                                                                 *)
(*                                                                         *)
(* The programs are two: echo writes a line, cat copies what it reads.      *)
(***************************************************************************)
EXTENDS ShellParser, FiniteSets

CONSTANTS NENTRY,        \* entries of the process table
          Pipe,          \* pipes there can be
          Line,          \* the command lines that are typed
          Missing,       \* words that are no program, and files that do not open
          MaxFails       \* bound: fork() and pipe() that fail for want of memory

ShellAssumption ==
  /\ ParserAssumption /\ NENTRY \in Nat \ {0}
  /\ Line \subseteq Seq(Token) /\ Missing \subseteq Word /\ MaxFails \in Nat

VARIABLES proc,      \* per process: where it is, its command, descriptors, parent
          full,      \* per pipe: it holds a line
          fails,     \* how many calls have failed
          panicked   \* exit() has panicked: init is gone

shellVars == <<proc, full, fails, panicked>>

Entry == 1 .. NENTRY
Init1 == 1                   \* initproc
Fd == 0 .. 4                 \* bound: no process here has more descriptors open
Closed == <<"closed", "">>
Console == <<"console", "">>
Std == [n \in Fd |-> IF n <= 2 THEN Console ELSE Closed]

\* p holds what pipe() returned; for init, the process that is the shell.
Unused == [pc |-> "unused", cmd |-> NoCmd, fd |-> [n \in Fd |-> Closed], p |-> <<>>,
           want |-> <<>>, lines |-> 0, parent |-> 0]

\* want is history: what descriptors 0 and 1 are to be when the command is run.
ShellInit ==
  /\ proc = [e \in Entry |-> IF e = Init1 THEN [Unused EXCEPT !.pc = "init", !.fd = Std] ELSE Unused]
  /\ full = [i \in Pipe |-> FALSE]
  /\ fails = 0 /\ panicked = FALSE

AtPc(p, l) == proc[p].pc = l /\ ~panicked
Runs(p, type) == AtPc(p, "runcmd") /\ proc[p].cmd.type = type

(* Descriptors                                                             *)
Lowest(fd) == CHOOSE n \in Fd : fd[n] = Closed /\ \A k \in Fd : fd[k] = Closed => n <= k
Open(fd, f) == [fd EXCEPT ![Lowest(fd)] = f]
Close(fd, ns) == [n \in Fd |-> IF n \in ns THEN Closed ELSE fd[n]]
Dup(fd, n) == Open(fd, fd[n])
Opened(f) == \E p \in Entry, n \in Fd : proc[p].fd[n] = f
FreePipes == {i \in Pipe : ~Opened(<<"r", i>>) /\ ~Opened(<<"w", i>>)}

(* Processes                                                               *)
FreeEntries == {e \in Entry : proc[e].pc = "unused"}
NextEntry == CHOOSE e \in FreeEntries : \A f \in FreeEntries : e <= f
Children(p) == {q \in Entry : proc[q].parent = p}

\* fork(): p becomes the first, and its child, with the same descriptors, the second.
Fork(p, parent, child) ==
  /\ FreeEntries # {}
  /\ proc' = [proc EXCEPT ![p] = parent, ![NextEntry] = [child EXCEPT !.parent = p]]

\* exit(): the descriptors are closed, the children go to init.
Exits(p) ==
  proc' = [q \in Entry |->
             IF q = p THEN [Unused EXCEPT !.pc = "zombie", !.parent = proc[p].parent]
             ELSE IF proc[q].parent = p THEN [proc[q] EXCEPT !.parent = Init1] ELSE proc[q]]

Fails == fails < MaxFails /\ fails' = fails + 1
NoFork == (FreeEntries = {} /\ UNCHANGED fails) \/ Fails

\* fork1(): if fork() fails, the shell that called it exits.
Fork1(p, parent, child) ==
  /\ \/ Fork(p, parent, child) /\ UNCHANGED fails
     \/ NoFork /\ Exits(p)
  /\ UNCHANGED <<full, panicked>>

\* wait(): a child that is dead is freed, whichever it is; without a child it does
\* not wait.
Wait(p, l, after) ==
  /\ AtPc(p, l)
  /\ \/ \E q \in Children(p) :
          proc[q].pc = "zombie" /\ proc' = [proc EXCEPT ![p] = after, ![q] = Unused]
     \/ Children(p) = {} /\ proc' = [proc EXCEPT ![p] = after]
  /\ UNCHANGED <<full, fails, panicked>>

-----------------------------------------------------------------------------
(* init, and the loop of the shell                                         *)

StartShell ==
  /\ AtPc(Init1, "init")
  /\ Fork(Init1, [proc[Init1] EXCEPT !.pc = "reap", !.p = <<NextEntry>>],
          [Unused EXCEPT !.pc = "getcmd", !.fd = Std, !.want = <<Console, Console>>])
  /\ UNCHANGED <<full, fails, panicked>>

\* init exits, and exit() panics.
StartFails ==
  /\ AtPc(Init1, "init")
  /\ NoFork
  /\ panicked' = TRUE
  /\ UNCHANGED <<proc, full>>

\* The shell, which is started again, or a process whose parent is dead.
Reap ==
  /\ AtPc(Init1, "reap")
  /\ \E q \in Children(Init1) :
       /\ proc[q].pc = "zombie"
       /\ proc' = [proc EXCEPT ![q] = Unused, ![Init1].pc = IF <<q>> = proc[Init1].p THEN "init" ELSE "reap"]
  /\ UNCHANGED <<full, fails, panicked>>

\* The child parses the line: after a syntax error it has no command.
Prompt(p, line) ==
  /\ AtPc(p, "getcmd")
  /\ Fork1(p, [proc[p] EXCEPT !.pc = "waitcmd"],
           [proc[p] EXCEPT !.pc = "runcmd", !.cmd = Parsecmd(line)])

EndOfFile(p) ==
  /\ AtPc(p, "getcmd")
  /\ Exits(p)
  /\ UNCHANGED <<full, fails, panicked>>

WaitCmd(p) == Wait(p, "waitcmd", [proc[p] EXCEPT !.pc = "getcmd"])

-----------------------------------------------------------------------------
(* runcmd()                                                                *)

Sub(p, cmd) == [proc[p] EXCEPT !.pc = "runcmd", !.cmd = cmd]

\* exec() keeps the descriptors, or fails and the shell exits.
RunExec(p) ==
  LET argv == proc[p].cmd.argv IN
  /\ Runs(p, "EXEC")
  /\ IF argv = <<>> \/ Head(argv) \in Missing THEN Exits(p)
     ELSE proc' = [proc EXCEPT ![p].pc = IF Head(argv) = "echo" THEN "write" ELSE "read",
                               ![p].lines = 1]
  /\ UNCHANGED <<full, fails, panicked>>

RunNothing(p) ==
  /\ Runs(p, "none") \/ AtPc(p, "done")
  /\ Exits(p)
  /\ UNCHANGED <<full, fails, panicked>>

\* Mutant: the descriptor is not closed first.
RunRedirOpens(p) ==
  LET c == proc[p].cmd n == IF c.mode = "<" THEN 0 ELSE 1 f == <<"file", c.file>> IN
  /\ Runs(p, "REDIR")
  /\ IF c.file \in Missing THEN Exits(p)
     ELSE proc' = [proc EXCEPT ![p] = [Sub(p, c.cmd) EXCEPT !.fd = Open(@, f), !.want[n + 1] = f]]
  /\ UNCHANGED <<full, fails, panicked>>

\* open() returns the lowest descriptor that is closed.
RunRedir(p) ==
  LET c == proc[p].cmd n == IF c.mode = "<" THEN 0 ELSE 1 f == <<"file", c.file>> IN
  /\ Runs(p, "REDIR")
  /\ IF c.file \in Missing THEN Exits(p)
     ELSE proc' = [proc EXCEPT ![p] = [Sub(p, c.cmd) EXCEPT !.fd = Open(Close(@, {n}), f),
                                                            !.want[n + 1] = f]]
  /\ UNCHANGED <<full, fails, panicked>>

RunList(p) ==
  /\ Runs(p, "LIST")
  /\ Fork1(p, [proc[p] EXCEPT !.pc = "list"], Sub(p, proc[p].cmd.left))
WaitLeft(p) == Wait(p, "list", Sub(p, proc[p].cmd.right))

RunBack(p) ==
  /\ Runs(p, "BACK")
  /\ Fork1(p, [proc[p] EXCEPT !.pc = "done"], Sub(p, proc[p].cmd.cmd))

RunPipe(p) ==
  LET fd == proc[p].fd IN
  /\ Runs(p, "PIPE")
  /\ \/ /\ FreePipes # {} /\ UNCHANGED fails
        /\ LET i == CHOOSE i \in FreePipes : TRUE
               r == Open(fd, <<"r", i>>)
           IN /\ proc' = [proc EXCEPT ![p].pc = "left", ![p].p = <<Lowest(fd), Lowest(r)>>,
                                      ![p].fd = Open(r, <<"w", i>>)]
              /\ full' = [full EXCEPT ![i] = FALSE]
     \/ /\ (FreePipes = {} /\ UNCHANGED fails) \/ Fails
        /\ Exits(p) /\ UNCHANGED full
  /\ UNCHANGED panicked

ForkLeft(p) ==
  /\ AtPc(p, "left")
  /\ Fork1(p, [proc[p] EXCEPT !.pc = "right"], [proc[p] EXCEPT !.pc = "wire left"])
ForkRight(p) ==
  /\ AtPc(p, "right")
  /\ Fork1(p, [proc[p] EXCEPT !.pc = "both"], [proc[p] EXCEPT !.pc = "wire right"])

\* The child puts its end of the pipe in the place of descriptor n.
Wire(p, n, cmd) ==
  LET mine == proc[p].p[IF n = 1 THEN 2 ELSE 1]
      fd == Dup(Close(proc[p].fd, {n}), mine)
  IN proc' = [proc EXCEPT ![p] = [Sub(p, cmd) EXCEPT
                !.fd = Close(fd, {proc[p].p[1], proc[p].p[2]}), !.want[n + 1] = proc[p].fd[mine]]]
WireLeft(p) ==
  AtPc(p, "wire left") /\ Wire(p, 1, proc[p].cmd.left) /\ UNCHANGED <<full, fails, panicked>>
WireRight(p) ==
  AtPc(p, "wire right") /\ Wire(p, 0, proc[p].cmd.right) /\ UNCHANGED <<full, fails, panicked>>

\* Mutant: the parent keeps the end it could write to.
CloseRead(p) ==
  /\ AtPc(p, "both")
  /\ proc' = [proc EXCEPT ![p].pc = "first", ![p].fd = Close(@, {proc[p].p[1]})]
  /\ UNCHANGED <<full, fails, panicked>>

CloseBoth(p) ==
  /\ AtPc(p, "both")
  /\ proc' = [proc EXCEPT ![p].pc = "first", ![p].fd = Close(@, {proc[p].p[1], proc[p].p[2]})]
  /\ UNCHANGED <<full, fails, panicked>>

WaitFirst(p) == Wait(p, "first", [proc[p] EXCEPT !.pc = "second"])
WaitSecond(p) == Wait(p, "second", [proc[p] EXCEPT !.pc = "done"])

-----------------------------------------------------------------------------
(* The programs: user/cat.c and user/echo.c                                *)

\* read(): a line of a pipe or its end, one line of the console or of a file.
Read(p) ==
  LET f == proc[p].fd[0] IN
  /\ AtPc(p, "read")
  /\ IF f[1] = "r"
     THEN \/ full[f[2]] /\ full' = [full EXCEPT ![f[2]] = FALSE] /\ proc' = [proc EXCEPT ![p].pc = "write"]
          \/ ~full[f[2]] /\ ~Opened(<<"w", f[2]>>) /\ proc' = [proc EXCEPT ![p].pc = "done"] /\ UNCHANGED full
     ELSE /\ proc' = [proc EXCEPT ![p].pc = IF proc[p].lines = 1 THEN "write" ELSE "done", ![p].lines = 0]
          /\ UNCHANGED full
  /\ UNCHANGED <<fails, panicked>>

\* write(): it fails when nobody can read.
Write(p) ==
  LET f == proc[p].fd[1]
      next == [proc EXCEPT ![p].pc = IF proc[p].cmd.argv[1] = "echo" THEN "done" ELSE "read"]
  IN
  /\ AtPc(p, "write")
  /\ IF f[1] = "w"
     THEN IF Opened(<<"r", f[2]>>)
          THEN ~full[f[2]] /\ full' = [full EXCEPT ![f[2]] = TRUE] /\ proc' = next
          ELSE proc' = [proc EXCEPT ![p].pc = "done"] /\ UNCHANGED full
     ELSE proc' = next /\ UNCHANGED full
  /\ UNCHANGED <<fails, panicked>>

Command(p) ==
  \/ RunExec(p) \/ RunNothing(p) \/ RunRedir(p) \/ RunList(p) \/ WaitLeft(p) \/ RunBack(p)
  \/ RunPipe(p) \/ ForkLeft(p) \/ ForkRight(p) \/ WireLeft(p) \/ WireRight(p)
  \/ CloseBoth(p) \/ WaitFirst(p) \/ WaitSecond(p) \/ WaitCmd(p) \/ Read(p) \/ Write(p)

ShellNext ==
  \/ StartShell \/ StartFails \/ Reap
  \/ \E p \in Entry :
       \/ \E line \in Line : Prompt(p, line)
       \/ EndOfFile(p) \/ Command(p)

\* Nobody has to type; as long as some process can go on, one does.
ShellFair == WF_shellVars(StartShell \/ Reap \/ \E p \in Entry \ FreeEntries : Command(p))

ShellSpec == ShellInit /\ [][ShellNext]_shellVars /\ ShellFair

-----------------------------------------------------------------------------

\* A program is run with the descriptors that its command line asks for, and with no
\* end of a pipe besides.
Wired ==
  \A p \in Entry : proc[p].pc \in {"read", "write"} =>
    /\ <<proc[p].fd[0], proc[p].fd[1]>> = proc[p].want
    /\ \A n \in Fd \ {0, 1} : proc[p].fd[n] = Std[n]

\* Whatever fails in it, a command line comes to its end, and the shell is ready for
\* the next: no program waits for ever at a pipe that nobody will write to or read.
PromptReturns ==
  (\E p \in Entry : proc[p].pc = "waitcmd") ~> (panicked \/ \E p \in Entry : proc[p].pc = "getcmd")

=============================================================================
