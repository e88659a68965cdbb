--------------------------------- MODULE MCSched ---------------------------------
(***************************************************************************)
(* An instance, for TLC, of the schedulers that scan the table, of the      *)
(* feedback queue, of the alarm, and of the shell.  They are checked side by *)
(* side: active says which one runs, the others rest, so that the numbers of *)
(* their states add up.                                                     *)
(***************************************************************************)
EXTENDS ScanScheduler, Alarm

CONSTANTS Proc, LastQue, AgeTicks,                         \* Mlfq
          NENTRY, Pipe, Word, MAXARGS, Missing, MaxFails   \* Shell

VARIABLES active,
          state, que, wtime, qtime, mode, turn, next, min_que, cur, cause, ticked,  \* Mlfq
          proc, full, fails, panicked                                               \* Shell

\* Two ticks are a slice of either queue.
MCSlice == [q \in 0 .. LastQue |-> 1]

\* The lines that are run: every kind of command, with words that are no programs.
MCLine ==
  {<<"echo", "|", "cat", ">", "f">>, <<"cat", "<", "f", ";", "none", "|", "cat">>,
   <<"echo", "|", "none">>, <<"cat", "<", "none", ">", "f">>, <<"cat", "&">>}

Queue == INSTANCE Mlfq WITH Slice <- MCSlice, scause <- cause
Shell == INSTANCE Shell WITH Line <- MCLine

ASSUME Queue!MlfqAssumption /\ Shell!ShellAssumption

queueVars == <<state, que, wtime, qtime, mode, turn, next, min_que, cur, cause, ticked>>
shellVars == <<proc, full, fails, panicked>>
vars == <<active, scanVars, queueVars, alarmVars, shellVars>>

\* A scheduler that rests has no process.
QueueRests ==
  /\ state = [p \in Proc |-> "UNUSED"]
  /\ que = [p \in Proc |-> 0] /\ wtime = [p \in Proc |-> 0] /\ qtime = [p \in Proc |-> 0]
  /\ mode = [p \in Proc |-> "user"] /\ turn = "rests"
  /\ next = 1 /\ min_que = LastQue /\ cur = None /\ cause = "other" /\ ticked = FALSE

\* A shell that rests has no process either.
ShellRests ==
  /\ proc = [e \in Shell!Entry |-> Shell!Unused]
  /\ full = [i \in Pipe |-> FALSE] /\ fails = 0 /\ panicked = FALSE

SpecInit ==
  /\ active \in {"scan", "queue", "alarm", "shell"}
  /\ ScanInit /\ (active # "scan" => policy = CHOOSE s \in Policies : TRUE)
  /\ IF active = "queue" THEN Queue!MlfqInit ELSE QueueRests
  /\ AlarmInit /\ (active # "alarm" => tf = CHOOSE m \in Main : TRUE)
  /\ IF active = "shell" THEN Shell!ShellInit ELSE ShellRests

SpecNext ==
  /\ UNCHANGED active
  /\ \/ /\ active = "scan" /\ ScanNext
        /\ UNCHANGED <<queueVars, alarmVars, shellVars>>
     \/ /\ active = "queue" /\ Queue!MlfqNext
        /\ UNCHANGED <<scanVars, alarmVars, shellVars>>
     \/ /\ active = "alarm" /\ AlarmNext
        /\ UNCHANGED <<scanVars, queueVars, shellVars>>
     \/ /\ active = "shell" /\ Shell!ShellNext
        /\ UNCHANGED <<scanVars, queueVars, alarmVars>>

Spec == SpecInit /\ [][SpecNext]_vars /\ Queue!MlfqFair /\ Shell!ShellFair

\* Whatever the others do, a process that is ready to run is run: the last one of the
\* table, which loses every tie.
Last == CHOOSE p \in Proc : \A q \in Proc : q <= p
NoStarvation == Queue!RunsAgain(Last)

\* A program is run with the descriptors that its command line asks for.
Wired == Shell!Wired

\* A command line comes to its end, whatever fails in it.
PromptReturns == Shell!PromptReturns

=============================================================================
