-------------------------------- MODULE Console --------------------------------
(***************************************************************************)
(* The console (console.c) on its UART (uart.c): readers of lines, writers  *)
(* of bytes, and the interrupt handler that serves both.  A step is what    *)
(* cons.lock or uart_tx_lock protects.  The bytes on their way out are      *)
(* counted only; uartputc_sync() spins until the UART is idle, so that its  *)
(* caller's step waits.                                                     *)
(***************************************************************************)
EXTENDS Integers, Sequences

CONSTANTS Proc, Char, Newline, Eof,
          INPUT_BUF_SIZE, UART_TX_BUF_SIZE,
          Wrap,       \* r, w and e are counted modulo Wrap
          MaxN,       \* bound: bytes a call asks for
          None

ConsoleAssumption ==
  /\ {Newline, Eof} \subseteq Char /\ MaxN \in Nat
  /\ INPUT_BUF_SIZE \in Nat \ {0} /\ UART_TX_BUF_SIZE \in Nat \ {0}
  /\ Wrap \in Nat /\ Wrap > INPUT_BUF_SIZE /\ Wrap % INPUT_BUF_SIZE = 0

VARIABLES inbuf, r, w, e,     \* cons
          tx,                 \* uart_tx_w - uart_tx_r
          busy,               \* the UART sends a byte: LSR_TX_IDLE is clear
          irq,                \* it has an interrupt to be served
          intr,               \* where uartintr() is: "off", "input", "output"
          cpc, n,             \* per process: where it is, the bytes still asked for
          got,                \* and those the last read has brought
          dying               \* p->killed

input == <<inbuf, r, w, e>>
uart == <<tx, busy, irq>>
consoleVars == <<input, uart, intr, cpc, n, got, dying>>

ConsoleInit ==
  /\ inbuf = [i \in 0 .. INPUT_BUF_SIZE - 1 |-> None]
  /\ r = 0 /\ w = 0 /\ e = 0
  /\ tx = 0 /\ busy = FALSE /\ irq = FALSE /\ intr = "off"
  /\ cpc = [p \in Proc |-> "user"] /\ n = [p \in Proc |-> 0]
  /\ got = [p \in Proc |-> <<>>] /\ dying = [p \in Proc |-> FALSE]

Bytes(from, to) == [i \in 1 .. (to - from) % Wrap |-> inbuf[(from + i - 1) % INPUT_BUF_SIZE]]
Typed == (e - r) % Wrap
Woken(sleep, loop) == [p \in Proc |-> IF cpc[p] = sleep THEN loop ELSE cpc[p]]

-----------------------------------------------------------------------------
(* consoleread()                                                           *)

Read(p, k) ==
  /\ cpc[p] = "user" /\ ~dying[p]
  /\ cpc' = [cpc EXCEPT ![p] = "read"] /\ n' = [n EXCEPT ![p] = k]
  /\ got' = [got EXCEPT ![p] = <<>>]
  /\ UNCHANGED <<input, uart, intr, dying>>

\* p takes k bytes, the first c of which reach its buffer.
Ready == Bytes(r, w)
Plain(k) == k <= Len(Ready) /\ \A j \in 1 .. k : Ready[j] \notin {Newline, Eof}
Take(p, k, c) ==
  /\ r' = (r + k) % Wrap
  /\ got' = [got EXCEPT ![p] = @ \o SubSeq(Ready, 1, c)]
  /\ UNCHANGED <<inbuf, w, e, uart, intr, dying>>
Returns(p) == cpc' = [cpc EXCEPT ![p] = "user"] /\ n' = [n EXCEPT ![p] = 0]

ReadLine(p, k) ==
  /\ cpc[p] = "read" /\ k \in DOMAIN Ready /\ k <= n[p]
  /\ Plain(k - 1) /\ (Ready[k] = Newline \/ (k = n[p] /\ Plain(k)))
  /\ Take(p, k, k) /\ Returns(p)

\* Mutant: an end of file is always consumed.
ReadEofDrops(p, k) ==
  /\ cpc[p] = "read" /\ k \in DOMAIN Ready /\ k <= n[p]
  /\ Plain(k - 1) /\ Ready[k] = Eof
  /\ Take(p, k, k - 1) /\ Returns(p)

\* An end of file stays for the next read if this one has something to return.
ReadEof(p, k) ==
  /\ cpc[p] = "read" /\ k \in DOMAIN Ready /\ k <= n[p]
  /\ Plain(k - 1) /\ Ready[k] = Eof
  /\ Take(p, IF k > 1 \/ got[p] # <<>> THEN k - 1 ELSE 1, k - 1) /\ Returns(p)

\* copyout() fails for byte k.
ReadFault(p, k) ==
  /\ cpc[p] = "read" /\ k \in DOMAIN Ready /\ k <= n[p]
  /\ Plain(k - 1) /\ Ready[k] # Eof
  /\ Take(p, k, k - 1) /\ Returns(p)

\* A line that filled the buffer has no end: what there is of it is taken, and the
\* reader waits for the rest with part of its answer, which it forgets if killed.
ReadSleep(p) ==
  /\ cpc[p] = "read" /\ Plain(Len(Ready)) /\ Len(Ready) < n[p]
  /\ Take(p, Len(Ready), Len(Ready))
  /\ IF dying[p] THEN Returns(p)
     ELSE /\ cpc' = [cpc EXCEPT ![p] = "rsleep"]
          /\ n' = [n EXCEPT ![p] = @ - Len(Ready)]

-----------------------------------------------------------------------------
(* uartputc(), uartstart() and the device                                  *)

Write(p, k) ==
  /\ cpc[p] = "user" /\ ~dying[p]
  /\ cpc' = [cpc EXCEPT ![p] = "write"] /\ n' = [n EXCEPT ![p] = k]
  /\ got' = [got EXCEPT ![p] = <<>>]
  /\ UNCHANGED <<input, uart, intr, dying>>

\* With t bytes in the buffer: as many as the UART takes, at least one if it is idle.
Uartstart(t, pcs) ==
  IF busy \/ t = 0 THEN tx' = t /\ cpc' = pcs /\ UNCHANGED busy
  ELSE /\ tx' \in 0 .. t - 1 /\ busy' = TRUE
       /\ cpc' = [p \in Proc |-> IF pcs[p] = "wsleep" THEN "write" ELSE pcs[p]]

Uartputc(p) ==
  /\ cpc[p] = "write" /\ tx < UART_TX_BUF_SIZE
  /\ n' = [n EXCEPT ![p] = @ - 1]
  /\ Uartstart(tx + 1, IF n[p] = 1 THEN [cpc EXCEPT ![p] = "user"] ELSE cpc)
  /\ UNCHANGED <<input, irq, intr, got, dying>>

UartputcSleeps(p) ==
  /\ cpc[p] = "write" /\ tx = UART_TX_BUF_SIZE
  /\ cpc' = [cpc EXCEPT ![p] = "wsleep"]
  /\ UNCHANGED <<input, uart, intr, n, got, dying>>

Sent ==
  /\ busy /\ busy' = FALSE /\ irq' = TRUE
  /\ UNCHANGED <<input, tx, intr, cpc, n, got, dying>>

\* A byte has come in.
Arrival ==
  /\ ~irq /\ irq' = TRUE
  /\ UNCHANGED <<input, tx, busy, intr, cpc, n, got, dying>>

-----------------------------------------------------------------------------
(* uartintr() and consoleintr()                                            *)

Uartintr ==
  /\ irq /\ intr = "off"
  /\ irq' = FALSE /\ intr' = "input"
  /\ UNCHANGED <<input, tx, busy, cpc, n, got, dying>>

Echo == ~busy /\ busy' = TRUE /\ UNCHANGED <<tx, irq>>

Store(c) ==
  /\ intr = "input" /\ Typed < INPUT_BUF_SIZE
  /\ Echo
  /\ inbuf' = [inbuf EXCEPT ![e % INPUT_BUF_SIZE] = c]
  /\ e' = (e + 1) % Wrap
  /\ IF c \in {Newline, Eof} \/ Typed + 1 = INPUT_BUF_SIZE
     THEN w' = e' /\ cpc' = Woken("rsleep", "read")
     ELSE UNCHANGED <<w, cpc>>
  /\ UNCHANGED <<r, intr, n, got, dying>>

Backspace ==
  /\ intr = "input" /\ e # w
  /\ Echo
  /\ e' = (e - 1) % Wrap
  /\ UNCHANGED <<inbuf, r, w, intr, cpc, n, got, dying>>

\* ^U goes back to w, or to a newline before it.
KillTo == {k \in 0 .. (e - w) % Wrap :
             \A j \in k + 1 .. (e - w) % Wrap : inbuf[(w + j - 1) % INPUT_BUF_SIZE] # Newline}
KillLine ==
  /\ intr = "input" /\ e # w
  /\ Echo
  /\ \E k \in KillTo : (\A j \in KillTo : k <= j) /\ e' = (w + k) % Wrap
  /\ UNCHANGED <<inbuf, r, w, intr, cpc, n, got, dying>>

\* No more input; then the output.
InputDone ==
  /\ intr = "input" /\ intr' = "output"
  /\ UNCHANGED <<input, uart, cpc, n, got, dying>>

OutputDone ==
  /\ intr = "output" /\ intr' = "off"
  /\ Uartstart(tx, cpc)
  /\ UNCHANGED <<input, irq, n, got, dying>>

\* kill() makes a sleeper runnable; a process that was killed is gone at its return.
Kill(p) ==
  /\ ~dying[p] /\ dying' = [dying EXCEPT ![p] = TRUE]
  /\ cpc' = [cpc EXCEPT ![p] = CASE @ = "rsleep" -> "read" [] @ = "wsleep" -> "write" [] OTHER -> @]
  /\ UNCHANGED <<input, uart, intr, n, got>>

ConsoleNext ==
  \/ \E p \in Proc :
       \/ \E k \in 1 .. MaxN : Read(p, k) \/ Write(p, k)
       \/ \E k \in 1 .. INPUT_BUF_SIZE : ReadLine(p, k) \/ ReadEof(p, k) \/ ReadFault(p, k)
       \/ ReadSleep(p) \/ Uartputc(p) \/ UartputcSleeps(p) \/ Kill(p)
  \/ Sent \/ Arrival \/ Uartintr \/ InputDone \/ OutputDone
  \/ \E c \in Char : Store(c)
  \/ Backspace \/ KillLine

ConsoleSpec == ConsoleInit /\ [][ConsoleNext]_consoleVars

-----------------------------------------------------------------------------

\* The buffer with its three indices is a line discipline, although readers take a
\* line while the next one is edited and all of it may go round the buffer.
L == INSTANCE LineDiscipline WITH lines <- Bytes(r, w), editing <- Bytes(w, e),
                                  result <- got, Size <- INPUT_BUF_SIZE
IsLineDiscipline == L!LineSpec

\* Nobody sleeps beside what it waits for: a reader only when no line is complete,
\* a writer only when the buffer is full; and bytes wait to be sent only while the
\* UART will interrupt for them or the handler is still on its way to them.
ConsoleAwake ==
  /\ \A p \in Proc : /\ cpc[p] = "rsleep" => r = w
                     /\ cpc[p] = "wsleep" => tx = UART_TX_BUF_SIZE
  /\ tx > 0 => busy \/ irq \/ intr # "off"

=============================================================================
