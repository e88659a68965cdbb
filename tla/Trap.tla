---------------------------------- MODULE Trap ----------------------------------
(***************************************************************************)
(* Traps from user code and from the kernel on several harts: uservec and   *)
(* userret (trampoline.S), kernelvec, usertrap(), usertrapret() and         *)
(* kerneltrap(), with the switches between threads that come in between.    *)
(* What runs with interrupts off is one step, as long as the registers of   *)
(* traps are not touched twice in it.                                       *)
(*                                                                         *)
(* Locks, and the interrupt flag under them, are in Spinlock; what killed   *)
(* processes do is in ProcTable, and the store fault in CowMemory.          *)
(***************************************************************************)
EXTENDS Integers

CONSTANTS Process, Hart,
          NINSN,       \* bound: instructions of a program, which begins again
          Null

TrapAssumption ==
  NINSN \in Nat \ {0} /\ Process \cap Hart = {} /\ Null \notin Process \cup Hart \cup BOOLEAN

ASSUME TrapConstants == TrapAssumption

VARIABLES hart,      \* per hart: its registers
          proc,      \* per hart: c->proc
          tf,        \* per process: p->trapframe
          context,   \* per thread: what it is to go on with when it is switched to
          frame,     \* per thread: what kernelvec and kerneltrap() keep on its stack
          user,      \* history, per process: what its program has come to
          left       \* history, per thread: what an interrupt found in the kernel

trapVars == <<hart, proc, tf, context, frame, user, left>>

\* The scheduler of a hart is a thread, named as the hart.
Thread == Process \cup Hart

\* A pc is in user code, at its n-th instruction, or at a place in the kernel.
UserPc(n) == <<"user", n>>
KernelPc(place) == <<place, 0>>
\* The general registers have the values of a program after n instructions, or those
\* of a thread in the kernel, or in the handler of an interrupt of the kernel.
Computed(p, n) == <<p, "user", n>>
KernelRegs(t) == <<t, "kernel", 0>>
HandlerRegs(t) == <<t, "handler", 0>>
After1(n) == (n + 1) % NINSN

\* tp is the general register that the kernel keeps the number of its hart in.
TrapInit ==
  /\ hart = [h \in Hart |->
       [pc |-> KernelPc("loop"), regs |-> KernelRegs(h), tp |-> h, satp |-> "kernel",
        stvec |-> "kernelvec", sepc |-> KernelPc("loop"), scause |-> "timer",
        sie |-> TRUE, spie |-> TRUE, spp |-> "S"]]
  /\ proc = [h \in Hart |-> Null]
  /\ tf = [p \in Process |-> [epc |-> 0, regs |-> Computed(p, 0), hartid |-> Null]]
  /\ context = [t \in Thread |->
       [place |-> IF t \in Process THEN "usertrapret" ELSE "loop", regs |-> KernelRegs(t), sie |-> Null]]
  /\ frame = [t \in Thread |-> Null]
  /\ user = [p \in Process |-> 0]
  /\ left = [t \in Thread |-> Null]

AtPlace(h, place) == hart[h].pc = KernelPc(place)
UserMode(h) == hart[h].pc[1] = "user"
\* The thread whose stack the hart uses, and the process that mycpu()->proc is.
ThreadOn(h) == IF proc[h] = Null THEN h ELSE proc[h]
Myproc(h) == proc[hart[h].tp]
Becomes(h, r) == hart' = [hart EXCEPT ![h] = r]
Goes(h, place) == Becomes(h, [hart[h] EXCEPT !.pc = KernelPc(place)])

-----------------------------------------------------------------------------
(* The hardware                                                            *)

Instruction(h) ==
  /\ UserMode(h)
  /\ LET p == proc[h] IN
       /\ Becomes(h, [hart[h] EXCEPT !.pc = UserPc(After1(@[2])), !.regs = Computed(p, After1(@[3]))])
       /\ user' = [user EXCEPT ![p] = After1(@)]
  /\ UNCHANGED <<proc, tf, context, frame, left>>

TakesTrap(h, cause) ==
  [hart[h] EXCEPT !.sepc = hart[h].pc, !.scause = cause, !.spie = hart[h].sie, !.sie = FALSE,
                  !.spp = IF UserMode(h) THEN "U" ELSE "S", !.pc = KernelPc(hart[h].stvec)]

\* An ecall, or an interrupt, which user code cannot turn off; a store fault is one of
\* a device here: user code goes on where it was.
UserTrap(h) ==
  /\ UserMode(h)
  /\ \E cause \in {"ecall", "timer", "device"} :
       /\ Becomes(h, TakesTrap(h, cause))
       /\ user' = IF cause = "ecall" THEN [user EXCEPT ![proc[h]] = After1(@)] ELSE user
  /\ UNCHANGED <<proc, tf, context, frame, left>>

Interrupt(h) ==
  /\ ~UserMode(h) /\ hart[h].sie
  /\ \E cause \in {"timer", "device"} : Becomes(h, TakesTrap(h, cause))
  /\ left' = [left EXCEPT ![ThreadOn(h)] = [pc |-> hart[h].pc, regs |-> hart[h].regs]]
  /\ UNCHANGED <<proc, tf, context, frame, user>>

-----------------------------------------------------------------------------
(* From user code and back                                                 *)

\* uservec finds the trapframe where the page table of the process has it.
Uservec(h) ==
  /\ AtPlace(h, "uservec")
  /\ LET p == hart[h].satp IN
       /\ tf' = [tf EXCEPT ![p].regs = hart[h].regs]
       /\ Becomes(h, [hart[h] EXCEPT !.pc = KernelPc("usertrap"), !.regs = KernelRegs(p),
                                     !.tp = tf[p].hartid, !.satp = "kernel"])
  /\ UNCHANGED <<proc, context, frame, user, left>>

\* devintr() or cowhandler() has served what was no system call.
Usertrap(h) ==
  /\ AtPlace(h, "usertrap")
  /\ LET p == Myproc(h)
         syscall == hart[h].scause = "ecall"
         place == CASE syscall -> "syscall"
                    [] hart[h].scause = "timer" -> "yield"
                    [] OTHER -> "usertrapret"
     IN /\ tf' = [tf EXCEPT ![p].epc = IF syscall THEN After1(hart[h].sepc[2]) ELSE hart[h].sepc[2]]
        /\ Becomes(h, [hart[h] EXCEPT !.pc = KernelPc(place), !.stvec = "kernelvec",
                                      !.sie = syscall])
  /\ UNCHANGED <<proc, context, frame, user, left>>

\* syscall() puts the result into the trapframe.
Syscall(h) ==
  /\ AtPlace(h, "syscall")
  /\ tf' = [tf EXCEPT ![Myproc(h)].regs = Computed(@[1], After1(@[3]))]
  /\ Goes(h, "usertrapret")
  /\ UNCHANGED <<proc, context, frame, user, left>>

Usertrapret(h) ==
  /\ AtPlace(h, "usertrapret")
  /\ Becomes(h, [hart[h] EXCEPT !.pc = KernelPc("leaving"), !.sie = FALSE])
  /\ UNCHANGED <<proc, tf, context, frame, user, left>>

Leaving(h) ==
  /\ AtPlace(h, "leaving")
  /\ LET p == Myproc(h) IN
       /\ tf' = [tf EXCEPT ![p].hartid = hart[h].tp]
       /\ Becomes(h, [hart[h] EXCEPT !.pc = KernelPc("userret"), !.stvec = "uservec", !.spp = "U",
                                     !.spie = TRUE, !.sepc = UserPc(tf[p].epc)])
  /\ UNCHANGED <<proc, context, frame, user, left>>

\* userret: the user has tp, too; sret.
Userret(h) ==
  /\ AtPlace(h, "userret")
  /\ LET p == ThreadOn(h) IN
       Becomes(h, [hart[h] EXCEPT !.pc = hart[h].sepc, !.regs = tf[p].regs, !.tp = Null,
                                  !.satp = p, !.sie = hart[h].spie])
  /\ UNCHANGED <<proc, tf, context, frame, user, left>>

-----------------------------------------------------------------------------
(* From the kernel and back                                                *)

\* kernelvec saves the general registers, and kerneltrap() those that traps change.
Kernelvec(h) ==
  /\ AtPlace(h, "kernelvec")
  /\ LET t == ThreadOn(h)
         place == IF hart[h].scause = "timer" /\ Myproc(h) # Null THEN "kernelyield" ELSE "restore"
     IN /\ frame' = [frame EXCEPT ![t] = [regs |-> hart[h].regs, sepc |-> hart[h].sepc,
                                          spie |-> hart[h].spie, spp |-> hart[h].spp]]
        /\ Becomes(h, [hart[h] EXCEPT !.pc = KernelPc(place), !.regs = HandlerRegs(t)])
  /\ UNCHANGED <<proc, tf, context, user, left>>

\* Mutant: kerneltrap() does not restore sepc and sstatus.
RestoreNothing(h) ==
  /\ AtPlace(h, "restore")
  /\ Goes(h, "sret")
  /\ UNCHANGED <<proc, tf, context, frame, user, left>>

Restore(h) ==
  /\ AtPlace(h, "restore")
  /\ LET f == frame[ThreadOn(h)] IN
       Becomes(h, [hart[h] EXCEPT !.pc = KernelPc("sret"), !.sepc = f.sepc, !.spie = f.spie,
                                  !.spp = f.spp])
  /\ UNCHANGED <<proc, tf, context, frame, user, left>>

\* The end of kernelvec: all registers but tp, and sret.
Sret(h) ==
  /\ AtPlace(h, "sret")
  /\ LET t == ThreadOn(h) IN
       /\ Becomes(h, [hart[h] EXCEPT !.pc = hart[h].sepc, !.regs = frame[t].regs,
                                     !.sie = hart[h].spie])
       /\ frame' = [frame EXCEPT ![t] = Null]
       /\ left' = [left EXCEPT ![t] = Null]
  /\ UNCHANGED <<proc, tf, context, user>>

-----------------------------------------------------------------------------
(* Switching between threads                                               *)

\* yield() in a trap, or sleep() in a system call, and where they return to.
GoesOn == [yield |-> "usertrapret", kernelyield |-> "restore", syscall |-> "syscall"]

\* The two halves of swtch().  A process keeps its intena behind it, on its stack.
Saved(h, place, intena) == [place |-> place, regs |-> hart[h].regs, sie |-> intena]
Loaded(h, t) == [hart[h] EXCEPT !.pc = KernelPc(context[t].place), !.regs = context[t].regs]

\* acquire(&p->lock) and sched() on one hart; the scheduler it switches to, that of
\* mycpu(), lets go of the lock, but interrupts stay as that acquire() found them.
Sched(h) ==
  /\ \E place \in DOMAIN GoesOn :
       /\ AtPlace(h, place)
       /\ context' = [context EXCEPT ![ThreadOn(h)] = Saved(h, GoesOn[place], hart[h].sie)]
  /\ LET c == hart[h].tp IN
       /\ Becomes(h, Loaded(h, c))
       /\ proc' = [proc EXCEPT ![c] = Null]
  /\ UNCHANGED <<tf, frame, user, left>>

\* scheduler() turns interrupts on before it looks through the table again.
NextScan(h) ==
  /\ AtPlace(h, "loop") /\ ~hart[h].sie
  /\ Becomes(h, [hart[h] EXCEPT !.sie = TRUE])
  /\ UNCHANGED <<proc, tf, context, frame, user, left>>

\* scheduler() switches to a process that no hart runs, which goes on behind sched()
\* with the interrupts it had (intena), or in forkret() with those of the scheduler.
Scheduler(h) ==
  /\ AtPlace(h, "loop")
  /\ \E p \in Process \ {proc[g] : g \in Hart} :
       /\ proc' = [proc EXCEPT ![h] = p]
       /\ context' = [context EXCEPT ![h] = Saved(h, "loop", Null)]
       /\ Becomes(h, [Loaded(h, p) EXCEPT !.sie = IF context[p].sie = Null THEN @ ELSE context[p].sie])
  /\ UNCHANGED <<tf, frame, user, left>>

TrapNext ==
  \E h \in Hart :
    \/ Instruction(h) \/ UserTrap(h) \/ Interrupt(h)
    \/ Uservec(h) \/ Usertrap(h) \/ Syscall(h) \/ Usertrapret(h) \/ Leaving(h) \/ Userret(h)
    \/ Kernelvec(h) \/ Restore(h) \/ Sret(h)
    \/ Sched(h) \/ NextScan(h) \/ Scheduler(h)

TrapSpec == TrapInit /\ [][TrapNext]_trapVars

-----------------------------------------------------------------------------

\* Whatever traps come and wherever a thread goes on: user code has its own registers,
\* pc and page table, and a trap from it finds the way to usertrap() on this hart; a
\* trap comes to kernelvec from the kernel only; the kernel knows its hart by tp; and
\* what an interrupt of the kernel found is what it returns to, with interrupts on.
TrapsExact ==
  \A h \in Hart :
    LET r == hart[h]
        t == ThreadOn(h)
    IN /\ UserMode(h) =>
            /\ r.pc = UserPc(user[t]) /\ r.regs = Computed(t, user[t]) /\ r.satp = t
            /\ r.stvec = "uservec" /\ tf[t].hartid = h
       /\ AtPlace(h, "uservec") => r.spp = "U" /\ r.satp = t
       /\ ~UserMode(h) /\ ~AtPlace(h, "uservec") => r.satp = "kernel" /\ r.tp = h
       /\ ~UserMode(h) /\ r.sie => r.stvec = "kernelvec" /\ r.regs = KernelRegs(t)
       /\ AtPlace(h, "kernelvec") => r.spp = "S"
       /\ AtPlace(h, "sret") => [pc |-> r.sepc, regs |-> frame[t].regs] = left[t] /\ r.spp = "S" /\ r.spie
       /\ AtPlace(h, "syscall") => r.sie

=============================================================================
