------------------------------- MODULE System -------------------------------
(***************************************************************************)
(* The system processes and the programs they run: GPID_PROCESS            *)
(* (sys_proc.c), GPID_TERMINAL (sys_terminal.c), GPID_FILE (sys_file.c),   *)
(* GPID_SHELL (sys_shell.c) and user programs calling the library          *)
(* (servers.c).  They talk by Rendezvous, which the kernel implements      *)
(* (KernelIpcProofs); the scheduler is any interleaving of the processes.  *)
(*                                                                         *)
(* An action is the code of one process from the return of one system call *)
(* to the start of the next, so pc names the call a process is in or has   *)
(* returned from.                                                          *)
(***************************************************************************)
EXTENDS Integers

CONSTANTS
  MAX_NPROCESS,
  ElfReads,          \* blocks that elf_load() reads from a program's file
  MaxCalls           \* bound: requests a user program makes before it exits

ASSUME SystemAssumption ==
  MAX_NPROCESS \in Nat /\ MAX_NPROCESS > 5 /\ ElfReads \in Nat \ {0} /\ MaxCalls \in Nat

VARIABLES
  call,            \* the system call each process is in, see Rendezvous
  pc,              \* where each process is in its program
  table,           \* proc_set[].status: unused, loading, or beyond that
  req,             \* GPID_PROCESS: the command in *req
  reads,           \* GPID_PROCESS: file_read() calls made for that command
  app_pid,         \* GPID_PROCESS: app_pid
  shell_waiting,   \* GPID_PROCESS: shell_waiting
  client,          \* GPID_TERMINAL: sender
  cmd,             \* GPID_SHELL: the command in req.argv
  calls            \* requests each user program may still make

procLocals == <<req, reads, app_pid, shell_waiting>>
vars == <<call, pc, table, procLocals, client, cmd, calls>>

GPID_ALL == -1
GPID_PROCESS == 1
GPID_TERMINAL == 2
GPID_FILE == 3
GPID_SHELL == 4
GPID_USER_START == 5

Pids == 1..MAX_NPROCESS
Apps == GPID_USER_START..MAX_NPROCESS

(* Commands: a program that is in bin/, in the foreground or with '&', and *)
(* a name that is not there.                                               *)
Commands == {"fg", "bg", "bad"}

Msg == Commands \cup {"FINISH", "PROC_EXIT", "PROC_KILLALL", "CMD_OK", "CMD_ERROR",
                      "AWAKE", "FILE_READ", "TERM_INPUT", "TERM_OUTPUT", "REPLY"}

R == INSTANCE Rendezvous WITH Proc <- Pids, Any <- GPID_ALL

(* The last call of p has returned, or p has made none yet.                *)
Back(p) == call[p].op \in {"idle", "sent", "got"}

At(p, loc) == Back(p) /\ pc[p] = loc

(* p runs on to its next system call c, or computes (c = R!Idle).          *)
Do(p, c, loc) ==
  /\ call' = [call EXCEPT ![p] = c]
  /\ pc' = [pc EXCEPT ![p] = loc]

-----------------------------------------------------------------------------
(* GPID_PROCESS                                                            *)

FirstUnused(i) ==
  table[i] = "UNUSED" /\ \A j \in Pids : j < i => table[j] # "UNUSED"

(* sys_spawn(): the program comes from the disk directly, so no message is *)
(* involved; then GPID_PROCESS goes on to its next receive.                *)
SysSpawn(from, next) ==
  \E i \in Pids :
    /\ FirstUnused(i)
    /\ table' = [table EXCEPT ![i] = "LIVE"]
    /\ call' = [call EXCEPT ![i] = R!Idle, ![GPID_PROCESS] = R!Receiving(from)]
    /\ pc' = [pc EXCEPT ![i] = "main", ![GPID_PROCESS] = next]
    /\ UNCHANGED <<procLocals, client, cmd, calls>>

ProcBoot ==
  \/ At(GPID_PROCESS, "main") /\ SysSpawn(GPID_TERMINAL, "term_up")
  \/ At(GPID_PROCESS, "term_up") /\ SysSpawn(GPID_FILE, "file_up")
  \/ At(GPID_PROCESS, "file_up") /\ SysSpawn(GPID_ALL, "loop")

ProcRequest(m) ==
  At(GPID_PROCESS, "loop") /\ call[GPID_PROCESS].msg = m

(* PROC_SPAWN: app_spawn() up to the first request of dir_lookup().        *)
ProcSpawn ==
  \E c \in Commands :
    /\ ProcRequest(c)
    /\ req' = c
    /\ reads' = 1
    /\ Do(GPID_PROCESS, R!Sending(GPID_FILE, "FILE_READ"), "file_asked")
    /\ UNCHANGED <<table, app_pid, shell_waiting, client, cmd, calls>>

(* file_read(): the request is sent, receive the answer.                   *)
ProcFileAsked ==
  /\ At(GPID_PROCESS, "file_asked")
  /\ Do(GPID_PROCESS, R!Receiving(GPID_FILE), "file_read")
  /\ UNCHANGED <<table, procLocals, client, cmd, calls>>

Lookups == 2         \* app_spawn(): dir_lookup() of bin/ and of argv[0]

(* Another block: of the second directory, or of the program.              *)
ProcReadMore ==
  /\ At(GPID_PROCESS, "file_read")
  /\ reads # Lookups
  /\ reads < Lookups + ElfReads
  /\ reads' = reads + 1
  /\ Do(GPID_PROCESS, R!Sending(GPID_FILE, "FILE_READ"), "file_asked")
  /\ UNCHANGED <<table, req, app_pid, shell_waiting, client, cmd, calls>>

(* Mutant: GPID_PROCESS does not answer a command it does not find.        *)
ProcNotFound_silent ==
  /\ At(GPID_PROCESS, "file_read")
  /\ reads = Lookups /\ req = "bad"
  /\ shell_waiting' = FALSE
  /\ Do(GPID_PROCESS, R!Receiving(GPID_ALL), "loop")
  /\ UNCHANGED <<table, req, reads, app_pid, client, cmd, calls>>

(* app_spawn() returns CMD_ERROR.                                          *)
ProcNotFound ==
  /\ At(GPID_PROCESS, "file_read")
  /\ reads = Lookups /\ req = "bad"
  /\ shell_waiting' = FALSE
  /\ Do(GPID_PROCESS, R!Sending(GPID_SHELL, "CMD_ERROR"), "answered")
  /\ UNCHANGED <<table, req, reads, app_pid, client, cmd, calls>>

(* proc_alloc(), and on to the first block of the program.                 *)
ProcAlloc ==
  /\ At(GPID_PROCESS, "file_read")
  /\ reads = Lookups /\ req # "bad"
  /\ \E i \in Pids :
       /\ FirstUnused(i)
       /\ app_pid' = i
       /\ table' = [table EXCEPT ![i] = "LOADING"]
  /\ reads' = reads + 1
  /\ Do(GPID_PROCESS, R!Sending(GPID_FILE, "FILE_READ"), "file_asked")
  /\ UNCHANGED <<req, shell_waiting, client, cmd, calls>>

(* Mutant: proc_alloc() reports a full table with -1 instead of FATAL(),   *)
(* and app_spawn(), which does not test for it, loads process -1.          *)
ProcAllocFull_returns ==
  /\ At(GPID_PROCESS, "file_read")
  /\ reads = Lookups /\ req # "bad"
  /\ \A i \in Pids : table[i] # "UNUSED"
  /\ app_pid' = -1
  /\ reads' = reads + 1
  /\ Do(GPID_PROCESS, R!Sending(GPID_FILE, "FILE_READ"), "file_asked")
  /\ UNCHANGED <<table, req, shell_waiting, client, cmd, calls>>

(* proc_alloc() finds no slot: FATAL() loops in GPID_PROCESS.              *)
ProcAllocFull ==
  /\ At(GPID_PROCESS, "file_read")
  /\ reads = Lookups /\ req # "bad"
  /\ \A i \in Pids : table[i] # "UNUSED"
  /\ Do(GPID_PROCESS, R!Idle, "full")
  /\ UNCHANGED <<table, procLocals, client, cmd, calls>>

(* Mutant: the test for '&' is the wrong way round.                        *)
ShellWaits_swapped(c) == c = "bg"

ShellWaits(c) == c = "fg"

(* elf_load() is done: proc_set_ready(), which does not reach the last     *)
(* slot, and CMD_OK to the shell.                                          *)
ProcReady ==
  /\ At(GPID_PROCESS, "file_read")
  /\ reads = Lookups + ElfReads
  /\ shell_waiting' = ShellWaits(req)
  /\ IF app_pid < MAX_NPROCESS
     THEN /\ table' = [table EXCEPT ![app_pid] = "LIVE"]
          /\ calls' = [calls EXCEPT ![app_pid] = MaxCalls]
          /\ call' = [call EXCEPT ![app_pid] = R!Idle,
                                  ![GPID_PROCESS] = R!Sending(GPID_SHELL, "CMD_OK")]
          /\ pc' = [pc EXCEPT ![app_pid] = "run", ![GPID_PROCESS] = "answered"]
     ELSE /\ Do(GPID_PROCESS, R!Sending(GPID_SHELL, "CMD_OK"), "answered")
          /\ UNCHANGED <<table, calls>>
  /\ UNCHANGED <<req, reads, app_pid, client, cmd>>

ProcAnswered ==
  /\ At(GPID_PROCESS, "answered")
  /\ Do(GPID_PROCESS, R!Receiving(GPID_ALL), "loop")
  /\ UNCHANGED <<table, procLocals, client, cmd, calls>>

(* Mutant: any process that exits ends the shell's wait.                   *)
ProcExit_anyone ==
  /\ ProcRequest("PROC_EXIT")
  /\ LET s == call[GPID_PROCESS].from IN
       /\ table' = [table EXCEPT ![s] = "UNUSED"]
       /\ call' = [call EXCEPT ![s] = R!Dead,
            ![GPID_PROCESS] = IF shell_waiting THEN R!Sending(GPID_SHELL, "AWAKE")
                                               ELSE R!Receiving(GPID_ALL)]
       /\ pc' = [pc EXCEPT ![s] = "none",
                           ![GPID_PROCESS] = IF shell_waiting THEN "answered" ELSE "loop"]
  /\ UNCHANGED <<procLocals, client, cmd, calls>>

(* PROC_EXIT: proc_free(sender), and the shell is told when it waits for   *)
(* this process.                                                           *)
ProcExit ==
  /\ ProcRequest("PROC_EXIT")
  /\ LET s == call[GPID_PROCESS].from
         tell == shell_waiting /\ app_pid = s
     IN /\ table' = [table EXCEPT ![s] = "UNUSED"]
        /\ call' = [call EXCEPT ![s] = R!Dead,
             ![GPID_PROCESS] = IF tell THEN R!Sending(GPID_SHELL, "AWAKE")
                                       ELSE R!Receiving(GPID_ALL)]
        /\ pc' = [pc EXCEPT ![s] = "none",
                            ![GPID_PROCESS] = IF tell THEN "answered" ELSE "loop"]
        /\ calls' = [calls EXCEPT ![s] = 0]
  /\ UNCHANGED <<procLocals, client, cmd>>

(* PROC_KILLALL: proc_free(GPID_ALL), one user process at a time.          *)
ProcKillAll ==
  /\ ProcRequest("PROC_KILLALL")
  /\ Do(GPID_PROCESS, R!Idle, "killing")
  /\ UNCHANGED <<table, procLocals, client, cmd, calls>>

Killable == {i \in Apps : i < MAX_NPROCESS /\ table[i] # "UNUSED"}

ProcKillOne ==
  /\ At(GPID_PROCESS, "killing")
  /\ \E i \in Killable :
       /\ \A j \in Killable : i <= j
       /\ table' = [table EXCEPT ![i] = "UNUSED"]
       /\ call' = [call EXCEPT ![i] = R!Dead]
       /\ pc' = [pc EXCEPT ![i] = "none"]
       /\ calls' = [calls EXCEPT ![i] = 0]
  /\ UNCHANGED <<procLocals, client, cmd>>

ProcKillDone ==
  /\ At(GPID_PROCESS, "killing")
  /\ Killable = {}
  /\ Do(GPID_PROCESS, R!Receiving(GPID_ALL), "loop")
  /\ UNCHANGED <<table, procLocals, client, cmd, calls>>

ProcStep ==
  \/ ProcBoot \/ ProcSpawn \/ ProcFileAsked \/ ProcReadMore \/ ProcNotFound
  \/ ProcAlloc \/ ProcAllocFull \/ ProcReady \/ ProcAnswered \/ ProcExit
  \/ ProcKillAll \/ ProcKillOne \/ ProcKillDone
-----------------------------------------------------------------------------
(* GPID_TERMINAL                                                           *)

Locals == <<table, procLocals, client, cmd, calls>>

(* Both servers report to GPID_PROCESS first ...                           *)
ServerStart(p) ==
  /\ At(p, "main")
  /\ Do(p, R!Sending(GPID_PROCESS, "FINISH"), "answered")
  /\ UNCHANGED Locals

(* ... and wait for a request whenever their last message is taken.        *)
ServerLoop(p) ==
  /\ At(p, "answered")
  /\ Do(p, R!Receiving(GPID_ALL), "loop")
  /\ UNCHANGED Locals

(* TERM_INPUT: term_read() polls the tty.  The two FATAL() of this loop    *)
(* are left out: no client sends an unknown type, and a length is taken to *)
(* be at most TERM_BUF_SIZE, the size of the buffer in printf() too.       *)
TermInput ==
  /\ At(GPID_TERMINAL, "loop")
  /\ call[GPID_TERMINAL].msg = "TERM_INPUT"
  /\ client' = call[GPID_TERMINAL].from
  /\ Do(GPID_TERMINAL, R!Idle, "tty")
  /\ UNCHANGED <<table, procLocals, cmd, calls>>

(* A line has been typed.                                                  *)
TermLine ==
  /\ At(GPID_TERMINAL, "tty")
  /\ Do(GPID_TERMINAL, R!Sending(client, "REPLY"), "answered")
  /\ UNCHANGED Locals

(* Mutant: output requests are answered like input requests.               *)
TermOutput_answered ==
  /\ At(GPID_TERMINAL, "loop")
  /\ call[GPID_TERMINAL].msg = "TERM_OUTPUT"
  /\ Do(GPID_TERMINAL, R!Sending(call[GPID_TERMINAL].from, "REPLY"), "answered")
  /\ UNCHANGED Locals

(* TERM_OUTPUT: written, with no answer to the sender.                     *)
TermOutput ==
  /\ At(GPID_TERMINAL, "loop")
  /\ call[GPID_TERMINAL].msg = "TERM_OUTPUT"
  /\ Do(GPID_TERMINAL, R!Receiving(GPID_ALL), "loop")
  /\ UNCHANGED Locals

(* The terminal's steps that do not wait for a key.                        *)
TermServes ==
  ServerStart(GPID_TERMINAL) \/ ServerLoop(GPID_TERMINAL) \/ TermInput \/ TermOutput

TermStep == TermServes \/ TermLine

-----------------------------------------------------------------------------
(* GPID_FILE                                                               *)

(* FILE_READ: the block, to the sender.                                    *)
FileRead ==
  /\ At(GPID_FILE, "loop")
  /\ call[GPID_FILE].msg = "FILE_READ"
  /\ Do(GPID_FILE, R!Sending(call[GPID_FILE].from, "REPLY"), "answered")
  /\ UNCHANGED Locals

FileStep == ServerStart(GPID_FILE) \/ ServerLoop(GPID_FILE) \/ FileRead

-----------------------------------------------------------------------------
(* GPID_SHELL                                                              *)

(* The next command that is not run by the shell itself: "cd" at first,    *)
(* then what is typed at the prompt.                                       *)
ShellSpawn ==
  /\ \/ At(GPID_SHELL, "main") /\ cmd' = "fg"
     \/ At(GPID_SHELL, "prompt") /\ cmd' \in Commands
  /\ Do(GPID_SHELL, R!Sending(GPID_PROCESS, cmd'), "asked")
  /\ UNCHANGED <<table, procLocals, client, calls>>

ShellAsked ==
  /\ At(GPID_SHELL, "asked")
  /\ Do(GPID_SHELL, R!Receiving(GPID_PROCESS), "reply")
  /\ UNCHANGED Locals

ShellReply ==
  /\ At(GPID_SHELL, "reply")
  /\ IF call[GPID_SHELL].msg = "CMD_OK" /\ cmd = "fg"
     THEN Do(GPID_SHELL, R!Receiving(GPID_PROCESS), "wait")
     ELSE Do(GPID_SHELL, R!Idle, "prompt")
  /\ UNCHANGED Locals

(* The foreground command has terminated.                                  *)
ShellAwake ==
  /\ At(GPID_SHELL, "wait")
  /\ Do(GPID_SHELL, R!Idle, "prompt")
  /\ UNCHANGED Locals

(* "killall" is sent and not answered.                                     *)
ShellKillAll ==
  /\ At(GPID_SHELL, "prompt")
  /\ Do(GPID_SHELL, R!Sending(GPID_PROCESS, "PROC_KILLALL"), "prompt")
  /\ UNCHANGED Locals

ShellStep == ShellSpawn \/ ShellAsked \/ ShellReply \/ ShellAwake

-----------------------------------------------------------------------------
(* A user program: any requests of the library, then exit().               *)

Request(p, server, m, next) ==
  /\ At(p, "run")
  /\ calls[p] > 0
  /\ calls' = [calls EXCEPT ![p] = @ - 1]
  /\ Do(p, R!Sending(server, m), next)
  /\ UNCHANGED <<table, procLocals, client, cmd>>

(* term_write(), as for printf().                                          *)
AppWrite(p) == Request(p, GPID_TERMINAL, "TERM_OUTPUT", "run")

(* file_read() and term_read() up to their receive.                        *)
AppFileRead(p) == Request(p, GPID_FILE, "FILE_READ", "file_asked")

AppTermRead(p) == Request(p, GPID_TERMINAL, "TERM_INPUT", "term_asked")

(* Mutant: file_read() and term_read() do not wait for their answer.       *)
AppReceive_skipped(p) ==
  /\ At(p, "file_asked") \/ At(p, "term_asked")
  /\ Do(p, R!Idle, "run")
  /\ UNCHANGED Locals

(* Their receive, from the server that was asked.                          *)
AppReceive(p) ==
  /\ \/ At(p, "file_asked") /\ Do(p, R!Receiving(GPID_FILE), "run")
     \/ At(p, "term_asked") /\ Do(p, R!Receiving(GPID_TERMINAL), "run")
  /\ UNCHANGED Locals

(* exit(), from app.S when main() returns; it loops once the message is    *)
(* taken.                                                                  *)
AppExit(p) ==
  /\ At(p, "run")
  /\ Do(p, R!Sending(GPID_PROCESS, "PROC_EXIT"), "exit")
  /\ UNCHANGED Locals

(* Control-C while p has the core: it resumes at the call of exit().       *)
CtrlC(p) ==
  /\ Back(p)
  /\ call' = [call EXCEPT ![p] = R!Idle]
  /\ pc' = [pc EXCEPT ![p] = "run"]
  /\ calls' = [calls EXCEPT ![p] = 0]
  /\ UNCHANGED <<table, procLocals, client, cmd>>

AppStep(p) == AppWrite(p) \/ AppFileRead(p) \/ AppTermRead(p) \/ AppReceive(p) \/ AppExit(p)

-----------------------------------------------------------------------------
(* What the kernel does with the calls: see KernelIpc.                     *)

Transfer == \E s, d \in Pids : R!Transfer(s, d) /\ UNCHANGED <<pc, Locals>>

(* A blocked sender whose receiver is not in the process table: the next   *)
(* trap of any process finds it and proc_try_send() stops the machine.     *)
UnknownReceiver ==
  \E p \in Pids : call[p].op = "send" /\ table[call[p].to] = "UNUSED"

CanRun(p) == table[p] = "LIVE" /\ (Back(p) \/ \E q \in Pids : R!Meet(p, q) \/ R!Meet(q, p))

(* Control never returns to a process from FATAL() in the kernel; a        *)
(* process that loops in exit() or FATAL() stays runnable.                 *)
Spin ==
  /\ \/ UnknownReceiver
     \/ \A p \in Pids : ~CanRun(p)
     \/ At(GPID_PROCESS, "full")
  /\ UNCHANGED vars

-----------------------------------------------------------------------------
(* GPID_PROCESS is entered first; shell_waiting is an uninitialised local. *)
Init ==
  /\ call = [p \in Pids |-> IF p = GPID_PROCESS THEN R!Idle ELSE R!Dead]
  /\ pc = [p \in Pids |-> IF p = GPID_PROCESS THEN "main" ELSE "none"]
  /\ table = [p \in Pids |-> IF p = GPID_PROCESS THEN "LIVE" ELSE "UNUSED"]
  /\ req = "fg"
  /\ reads = 0
  /\ app_pid = 0
  /\ shell_waiting \in BOOLEAN
  /\ client = 0
  /\ cmd = "fg"
  /\ calls = [p \in Pids |-> 0]

(* One step of a system on which nobody kills a process.                   *)
Step ==
  \/ ProcStep \/ TermStep \/ FileStep \/ ShellStep \/ Transfer
  \/ \E p \in Apps : AppStep(p)

Next == (~UnknownReceiver /\ Step) \/ Spin

Spec == Init /\ [][Next]_vars

(* The kernel lets every process that can run do so and completes every    *)
(* call that has met its partner (EveryoneRuns and NoLostWakeup of         *)
(* Kernel), so the servers and the shell go on to their next call, and so  *)
(* does a program inside file_read() or term_read().  Nothing is assumed   *)
(* of who types, neither commands nor the lines that programs read, nor    *)
(* of what a program does between its calls: it may loop.                  *)
Fairness ==
  /\ WF_vars(ProcStep) /\ WF_vars(TermServes) /\ WF_vars(FileStep)
  /\ WF_vars(ShellAsked \/ ShellReply \/ ShellAwake)
  /\ WF_vars(Transfer)
  /\ \A p \in Apps : WF_vars(AppReceive(p))

FairSpec == Spec /\ Fairness

(* Control-C and killall as well.                                          *)
Kill == ShellKillAll \/ \E p \in Apps : CtrlC(p)

KillSpec == Init /\ [][(~UnknownReceiver /\ (Step \/ Kill)) \/ Spin]_vars

-----------------------------------------------------------------------------
Locations == {"none", "main", "term_up", "file_up", "loop", "answered", "file_asked",
              "file_read", "full", "killing", "tty", "prompt", "asked", "reply",
              "wait", "run", "term_asked", "exit"}

Calls == {R!Dead, R!Idle, R!Sent}
           \cup {R!Sending(r, m) : r \in Pids, m \in Msg}
           \cup {R!Receiving(f) : f \in Pids \cup {GPID_ALL}}
           \cup {R!Got(s, m) : s \in Pids, m \in Msg}

(* Type correctness of the processes' calls and local variables.           *)
TypeOK ==
  /\ call \in [Pids -> Calls]
  /\ pc \in [Pids -> Locations]
  /\ table \in [Pids -> {"UNUSED", "LOADING", "LIVE"}]
  /\ req \in Commands /\ cmd \in Commands
  /\ reads \in 0..(Lookups + ElfReads)
  /\ app_pid \in Pids \cup {0} /\ client \in Pids \cup {0}
  /\ shell_waiting \in BOOLEAN
  /\ calls \in [Pids -> 0..MaxCalls]

(* FATAL("proc_try_send: unknown receiver") is unreachable: whoever a      *)
(* server or GPID_PROCESS is sending to is still there to receive.         *)
KnownReceiver == ~UnknownReceiver

(* ASSERT(next_idx < MAX_NPROCESS, "proc_yield: no process to run") holds: *)
(* unless it has stopped already, the machine always has a process whose   *)
(* call is not waiting for that of another.                                *)
SomeoneCanRun == UnknownReceiver \/ \E p \in Pids : CanRun(p)

(* The shell's two receives get the messages meant for them: the first the *)
(* result of its own command, the second the news that the foreground      *)
(* process, and no other, is gone from the process table.  Both are        *)
(* receives from GPID_PROCESS and nothing in a message says which it is.   *)
ForegroundDone ==
  call[GPID_SHELL].op = "got" =>
    /\ pc[GPID_SHELL] = "reply" => call[GPID_SHELL].msg \in {"CMD_OK", "CMD_ERROR"}
    /\ pc[GPID_SHELL] = "wait" =>
         call[GPID_SHELL].msg = "AWAKE" /\ table[app_pid] = "UNUSED"

(* A command is answered, though GPID_PROCESS asks GPID_FILE for blocks    *)
(* while user programs do, and takes no other request meanwhile.           *)
SpawnIsAnswered ==
  pc[GPID_SHELL] = "asked" ~> (pc[GPID_SHELL] \in {"wait", "prompt"} \/ pc[GPID_PROCESS] = "full")

(* A foreground program that exits gives the prompt back.                  *)
PromptReturns ==
  (pc[GPID_SHELL] = "wait" /\ pc[app_pid] = "exit") ~> pc[GPID_SHELL] = "prompt"
=============================================================================
