--------------------------------- MODULE Alarm ---------------------------------
(***************************************************************************)
(* sigalarm() and sigreturn() of XV6-1 for one process: the counter, the    *)
(* copy of the trapframe that usertrap() keeps while the handler runs, and  *)
(* the page it is kept in.  A context is what the trapframe says user code  *)
(* is doing: a step of the main program or of the handler.                  *)
(*                                                                         *)
(* The kernel does not look at what a program does with these calls, so a   *)
(* program here may do anything.  kept is a history variable: so far it has *)
(* done as alarmtest.c does.  It left its handler only by sigreturn(),      *)
(* called that nowhere else, and called sigalarm() there only to turn the   *)
(* alarm off.                                                               *)
(***************************************************************************)
EXTENDS Integers

CONSTANTS Main, Handler,   \* contexts of the main program and of the handler
          MaxInterval,     \* intervals asked for: 0 .. MaxInterval
          NPAGES,          \* pages that kalloc() has, if nobody else has them
          NoContext        \* in place of a context, where there is none

AlarmAssumption ==
  /\ Main # {} /\ Handler # {} /\ Main \cap Handler = {}
  /\ MaxInterval \in Nat /\ NPAGES \in Nat
  /\ NoContext \notin Main \cup Handler

ASSUME AlarmConstants == AlarmAssumption

VARIABLES tf,              \* p->trapframe
          alarm_tf,        \* *p->alarm_tf, if there is a page for it
          alarm_on, nticks, cur_ticks,
          scause,          \* the last trap of the hart was the timer, or another
          at,              \* user code, a system call, the end of usertrap(), two panics
          held,            \* pages taken from kalloc() for it and not given back
          interrupted,     \* history: what the main program was doing
          kept             \* history: see above

alarmVars ==
  <<tf, alarm_tf, alarm_on, nticks, cur_ticks, scause, at, held, interrupted, kept>>

\* allocproc().
AlarmInit ==
  /\ tf \in Main
  /\ alarm_tf = NoContext /\ alarm_on = FALSE
  /\ nticks = 0 /\ cur_ticks = 0
  /\ scause = "other" /\ at = "user"
  /\ held = 0
  /\ interrupted = NoContext /\ kept = TRUE

InUser == at = "user"

\* User code goes on; it may jump out of the handler, or into it.
Compute ==
  /\ InUser
  /\ tf' \in Main \cup Handler
  /\ kept' = (kept /\ (tf \in Main <=> tf' \in Main))
  /\ UNCHANGED <<alarm_tf, alarm_on, nticks, cur_ticks, scause, at, held, interrupted>>

\* An interrupt takes user code into usertrap(), a system call into syscall(),
\* where further interrupts change scause.
Trap(cause) ==
  /\ InUser
  /\ scause' = cause /\ at' = "tail"
  /\ UNCHANGED <<tf, alarm_tf, alarm_on, nticks, cur_ticks, held, interrupted, kept>>

Ecall ==
  /\ InUser
  /\ scause' = "other" /\ at' = "kernel"
  /\ UNCHANGED <<tf, alarm_tf, alarm_on, nticks, cur_ticks, held, interrupted, kept>>

KernelTrap(cause) ==
  /\ at = "kernel"
  /\ scause' = cause
  /\ UNCHANGED <<tf, alarm_tf, alarm_on, nticks, cur_ticks, at, held, interrupted, kept>>

OtherSyscall ==
  /\ at = "kernel"
  /\ at' = "tail"
  /\ UNCHANGED <<tf, alarm_tf, alarm_on, nticks, cur_ticks, scause, held, interrupted, kept>>

\* It may be called in the handler too: alarm_tf stays, and alarm_on is cleared.
SysSigalarm(n) ==
  /\ at = "kernel"
  /\ nticks' = n /\ cur_ticks' = 0 /\ alarm_on' = FALSE
  /\ kept' = (kept /\ (tf \in Handler => n = 0))
  /\ at' = "tail"
  /\ UNCHANGED <<tf, alarm_tf, scause, held, interrupted>>

SysSigreturn ==
  /\ at = "kernel" /\ alarm_tf # NoContext
  /\ tf' = alarm_tf
  /\ alarm_tf' = NoContext /\ held' = held - 1
  /\ alarm_on' = FALSE /\ cur_ticks' = 0
  /\ kept' = (kept /\ tf \in Handler)
  /\ at' = "tail"
  /\ UNCHANGED <<nticks, scause, interrupted>>

\* There is no saved trapframe: memmove() from address 0 faults in the kernel.
SigreturnNoFrame ==
  /\ at = "kernel" /\ alarm_tf = NoContext
  /\ kept' = (kept /\ tf \in Handler)
  /\ at' = "noframe"
  /\ UNCHANGED <<tf, alarm_tf, alarm_on, nticks, cur_ticks, scause, held, interrupted>>

\* exec() leaves alone all that is about the alarm.
Exec ==
  /\ at = "kernel"
  /\ tf' \in Main
  /\ kept' = (kept /\ tf \in Main)
  /\ at' = "tail"
  /\ UNCHANGED <<alarm_tf, alarm_on, nticks, cur_ticks, scause, held, interrupted>>

\* The process exits, or is killed, and allocproc() gives the entry to the next one,
\* whose parent may have called fork() in its handler.  Nobody calls kfree(alarm_tf).
Allocproc ==
  /\ at \in {"kernel", "tail"}
  /\ tf' \in Main \cup Handler
  /\ alarm_tf' = NoContext /\ alarm_on' = FALSE /\ nticks' = 0 /\ cur_ticks' = 0
  /\ kept' = (kept /\ tf \in Main /\ tf' \in Main)
  /\ at' = "user"
  /\ UNCHANGED <<scause, held, interrupted>>

\* The end of usertrap(): the second devintr() says whether this counts as a tick,
\* whatever took the process into the kernel.
Counts == at = "tail" /\ scause = "timer" /\ nticks > 0
FiresAgain == cur_ticks + 1 >= nticks   \* mutant: also while the handler runs
Fires == ~alarm_on /\ cur_ticks + 1 >= nticks

\* cur_ticks is not looked at while the handler runs, and cleared after it.
CountTick ==
  /\ Counts /\ ~Fires
  /\ cur_ticks' = IF cur_ticks < MaxInterval THEN cur_ticks + 1 ELSE cur_ticks
  /\ at' = "user"
  /\ UNCHANGED <<tf, alarm_tf, alarm_on, nticks, scause, held, interrupted, kept>>

\* alarm_tf is overwritten, whatever it points to.
Fire ==
  /\ Counts /\ Fires /\ held < NPAGES
  /\ alarm_on' = TRUE /\ cur_ticks' = 0
  /\ alarm_tf' = tf /\ held' = held + 1
  /\ tf' \in Handler
  /\ interrupted' = IF tf \in Main THEN tf ELSE interrupted
  /\ at' = "user"
  /\ UNCHANGED <<nticks, scause, kept>>

\* kalloc() returned 0: memmove() to address 0 faults in the kernel.
FireNoPage ==
  /\ Counts /\ Fires
  /\ alarm_on' = TRUE /\ cur_ticks' = 0
  /\ at' = "nopage"
  /\ UNCHANGED <<tf, alarm_tf, nticks, scause, held, interrupted, kept>>

Return ==
  /\ at = "tail" /\ ~(scause = "timer" /\ nticks > 0)
  /\ at' = "user"
  /\ UNCHANGED <<tf, alarm_tf, alarm_on, nticks, cur_ticks, scause, held, interrupted, kept>>

AlarmNext ==
  \/ Compute \/ Ecall \/ OtherSyscall \/ Exec \/ Allocproc \/ SysSigreturn \/ SigreturnNoFrame
  \/ \E cause \in {"timer", "other"} : Trap(cause) \/ KernelTrap(cause)
  \/ \E n \in 0 .. MaxInterval : SysSigalarm(n)
  \/ CountTick \/ Fire \/ FireNoPage \/ Return

AlarmSpec == AlarmInit /\ [][AlarmNext]_alarmVars

-----------------------------------------------------------------------------

\* For a program that has kept to what alarmtest.c does: while the handler runs, the saved
\* trapframe is what the main program was doing when the alarm went off.  A tick in the
\* handler, in a system call of the handler or at the end of sigreturn() does not save the
\* handler's own context over it; sigreturn() finds it; and its page is taken and given back
\* once.  Without kept all of this is false.  For every program: what sigreturn() gives
\* back is a page that was taken and not given back yet.
AlarmRestores ==
  /\ kept => /\ tf \in Handler => alarm_tf = interrupted /\ alarm_tf \in Main
             /\ held = IF alarm_tf = NoContext THEN 0 ELSE 1
             /\ (alarm_tf = NoContext) <=> (tf \in Main)
             /\ at # "noframe"
  /\ alarm_tf # NoContext => held > 0

=============================================================================
