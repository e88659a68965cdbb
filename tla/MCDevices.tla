-------------------------------- MODULE MCDevices --------------------------------
(***************************************************************************)
(* An instance, for TLC, of the memory of XV6-1, of pipes and descriptors,   *)
(* of the buffer cache over the disk driver, and of the console over the    *)
(* UART.  They are checked side by side: active says which one runs, the    *)
(* others rest.  The cache runs with a ring of descriptors for one request   *)
(* ("narrow") and with one for two ("wide").                                *)
(***************************************************************************)
EXTENDS EagerMemory, Pipe, BufferCache, TLC

CONSTANTS root, leaf0, NumFrames,                               \* EagerMemory
          Third,                                                \* BufferCache
          INPUT_BUF_SIZE, UART_TX_BUF_SIZE, ConsoleWrap, ConsoleN

VARIABLES active,
          inbuf, r, w, e, tx, busy, irq, intr, cpc, n, got, dying

\* The first program has its text, mapped read-only by exec(), in frame 4; frames 1, 2
\* and 3 hold its trapframe and its page table.  kalloc() pops the least free page.
MCFrame == 1 .. NumFrames
MCHeads(S) == {f \in S : \A g \in S : f <= g}
OneLeaf == [v \in Page |-> leaf0]
TextFirst == [v \in Page |-> IF v = 0 THEN {"PTE_U"} ELSE {"PTE_U", "PTE_W"}]
MCInitPa ==
  [s \in Slot |-> CASE s = Trapframe -> 1 [] s = root -> 2 [] s = leaf0 -> 3 [] s = 0 -> 4
                    [] OTHER -> None]

\* Every other page is free, or only some of them are.
SomeFree == {(k .. NumFrames) \ 1 .. 4 : k \in MCFrame}

MCChar == {"c", "newline", "eof"}

Wide == INSTANCE BufferCache WITH NUM <- 6
C == INSTANCE Console WITH Proc <- Client, Char <- MCChar, Newline <- "newline", Eof <- "eof",
                           Wrap <- ConsoleWrap, MaxN <- ConsoleN

ASSUME C!ConsoleAssumption /\ Wide!BufferAssumption

consoleVars == <<inbuf, r, w, e, tx, busy, irq, intr, cpc, n, got, dying>>
vars == <<active, eagerVars, pipeVars, bufferVars, consoleVars>>

\* A pipe that rests has no process, and a cache that rests one content everywhere.  The
\* variables of a console that rests have no value, so that symmetry has nothing to permute.
PipeRests == PipeIdle /\ at = [p \in Client |-> "dead"]
OneContent == CHOOSE v \in Content : TRUE
BuffersRest ==
  BufferInit /\ disk = [b \in Block |-> OneContent] /\ bdata = [i \in Buf |-> OneContent]
ConsoleRests ==
  /\ inbuf = "-" /\ r = "-" /\ w = "-" /\ e = "-" /\ tx = "-" /\ busy = "-" /\ irq = "-"
  /\ intr = "-" /\ cpc = "-" /\ n = "-" /\ got = "-" /\ dying = "-"

\* Bound: the third process at the cache only ever finds no buffer left.
ThirdWaits == io'[Third] = "idle"

MemoryRests == EagerInit /\ elsewhere = {}
DevicesRest == PipeRests /\ BuffersRest /\ ConsoleRests

SpecInit ==
  \/ active = "memory" /\ EagerInit /\ DevicesRest
  \/ active = "pipe" /\ PipeInit /\ MemoryRests /\ BuffersRest /\ ConsoleRests
  \/ active = "narrow" /\ BufferInit /\ MemoryRests /\ PipeRests /\ ConsoleRests
  \/ active = "wide" /\ Wide!BufferInit /\ MemoryRests /\ PipeRests /\ ConsoleRests
  \/ active = "console" /\ C!ConsoleInit /\ MemoryRests /\ PipeRests /\ BuffersRest

SpecNext ==
  /\ UNCHANGED active
  /\ \/ active = "memory" /\ EagerNext /\ UNCHANGED <<pipeVars, bufferVars, consoleVars>>
     \/ active = "pipe" /\ PipeNext /\ UNCHANGED <<eagerVars, bufferVars, consoleVars>>
     \/ active = "narrow" /\ BufferNext /\ ThirdWaits /\ UNCHANGED <<eagerVars, pipeVars, consoleVars>>
     \/ active = "wide" /\ Wide!BufferNext /\ ThirdWaits /\ UNCHANGED <<eagerVars, pipeVars, consoleVars>>
     \/ active = "console" /\ C!ConsoleNext /\ UNCHANGED <<eagerVars, pipeVars, bufferVars>>

Spec == SpecInit /\ [][SpecNext]_vars

\* The two clients are alike, at a pipe and at the cache.  Bytes of a pipe or of the console that
\* were read already are no part of a state, nor is the answer of a read() that has returned;
\* and which page holds what is none either.
Alike == Permutations(Client)
Refs(f) == {<<p, s>> \in Proc \X Slot : pa[p][s] = f}
Shape ==
  <<active,
    CASE active = "memory" ->
           <<{<<Refs(f), mem[f]>> : f \in {g \in Frame : Refs(g) # {}}}, Cardinality(freelist),
             Cardinality(elsewhere), flags, sz, parent, pc, loc>>
      [] active = "pipe" ->
           <<ofile, ref, end, alive, Queue, nread, readopen, writeopen, lock, at, left, todo,
             ff, killed, unwoken>>
      [] active = "console" ->
           <<C!Bytes(r, e), r, w, e, tx, busy, irq, intr, cpc, n, dying,
             [p \in Client |-> IF cpc[p] = "user" THEN <<>> ELSE got[p]]>>
      [] OTHER -> bufferVars>>

-----------------------------------------------------------------------------

\* The console keeps lines apart, and nobody sleeps over a line or over room for output.
Lines == INSTANCE LineDiscipline WITH
  Proc <- Client, Char <- MCChar, Newline <- "newline", Eof <- "eof", Size <- INPUT_BUF_SIZE,
  lines <- IF active = "console" THEN C!Bytes(r, w) ELSE <<>>,
  editing <- IF active = "console" THEN C!Bytes(w, e) ELSE <<>>,
  result <- IF active = "console" THEN got ELSE [p \in Client |-> <<>>]
ConsoleServes == Lines!LineSpec /\ [](active = "console" => C!ConsoleAwake)

=============================================================================
