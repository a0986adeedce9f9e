----------------------------- MODULE ShellExec ------------------------------
(***************************************************************************)
(* A submitted line becomes a command (kernel/shell.c): run in the shell's *)
(* own task or, when it is privileged and the shell is not, in the helper  *)
(* task, its output optionally redirected through /dev/capture into a file.*)
(*                                                                         *)
(* What is kept of a task's descriptor table is what the command path puts *)
(* in it: where fd 1 points and the descriptors and file handles held.     *)
(* Text is numbered chunks; a file ends after at most MaxChunks.           *)
(***************************************************************************)
EXTENDS Integers, Sequences, FiniteSets, SequencesExt

CONSTANTS
  FreeFds,     \* descriptors a task has beside 0, 1 and 2
  CapChunks,   \* chunks /dev/capture holds
  MaxChunks,   \* chunks one command prints or copies at most
  HelperRuns   \* whether the application started shell_helper_run

Cmds == {"cat", "cp", "write", "ls", "help", "priv"}

VARIABLES
  pc, cmd, redir,     \* the shell: where it is, which command, redirected or not
  fd1, held,          \* its fd 1; what it holds, [what, dev]
  qfd,                \* req_fd, done_fd once opened
  cap_err, rc,
  n,                  \* chunks the command has produced
  hpc, hfd1, hheld, hn, \* the helper, the same way
  req, done,          \* its two queues, of one slot each
  cap, cap_buf,       \* /dev/capture: what it holds, and whether it has its buffer
  file,               \* the redirect's target
  printed, lost       \* GHOST: chunks the redirected command printed, wherever its
                      \* fd 1 pointed; whether the capture dropped any

shvars == <<pc, cmd, redir, fd1, held, qfd, cap_err, rc, n>>
hvars == <<hpc, hfd1, hheld, hn>>
ghosts == <<printed, lost>>
cap_vars == <<cap, cap_buf>>
vars == <<shvars, hvars, req, done, cap_vars, file, ghosts>>

Fds(h) == Cardinality({r \in h : r.dev})
FdFree == Fds(held) + Cardinality(qfd) < FreeFds

\* sh_fopen: a device takes a descriptor, a card file a handle of the VFS's
\* (which may be refused for its own reasons).
Opens(what) == \E dev \in BOOLEAN : (dev => FdFree) /\ held' = held \cup {[what |-> what, dev |-> dev]}

\* sh_fclose and v_file_close.
Without(what) == {r \in held : r.what # what}
Holds(what) == \E r \in held : r.what = what

-----------------------------------------------------------------------------
(* Output.                                                                  *)

\* capture_write: the buffer comes from the heap on the first write; without one, and
\* past what it holds, output is dropped.
CaptureWrite(c) ==
  \/ ~cap_buf /\ lost' = TRUE /\ UNCHANGED cap_vars
  \/ /\ cap_buf' = TRUE
     /\ cap' = IF Len(cap) < CapChunks THEN Append(cap, c) ELSE cap
     /\ lost' = (lost \/ Len(cap) = CapChunks)

\* A command prints one chunk to a task's fd 1.
Put(to, c) ==
  /\ printed' = IF redir THEN Append(printed, c) ELSE printed
  /\ IF to = "capture" THEN CaptureWrite(c) ELSE UNCHANGED <<cap_vars, lost>>

\* sh_capture_drain: everything caught so far goes to the target; after a
\* failed write the rest is dropped.
Drain(ok) ==
  /\ cap' = <<>>
  /\ IF cap = <<>> THEN UNCHANGED <<file, cap_err>>
     ELSE IF ok /\ ~cap_err THEN file' = file \o cap /\ UNCHANGED cap_err
     ELSE cap_err' = TRUE /\ UNCHANGED file

-----------------------------------------------------------------------------
(* shell_exec.                                                              *)

Go(p) == pc' = p
SameHelper == UNCHANGED <<hvars, req, done>>

\* A command is found for the line, redirected or not.
Exec ==
  /\ pc = "prompt"
  /\ \E c \in Cmds, r \in BOOLEAN :
       /\ cmd' = c /\ redir' = r /\ Go(IF r THEN "target" ELSE "start")
  /\ n' = 0 /\ cap_err' = FALSE /\ rc' = 0 /\ file' = <<>> /\ printed' = <<>> /\ lost' = FALSE
  /\ UNCHANGED <<fd1, held, qfd, cap_vars>> /\ SameHelper

\* run_redirected: the target is opened first.
OpenTarget ==
  /\ pc = "target"
  /\ \/ Opens("out") /\ Go("cap") /\ UNCHANGED rc
     \/ UNCHANGED held /\ rc' = 1 /\ Go("prompt")
  /\ UNCHANGED <<cmd, redir, fd1, qfd, cap_err, n, cap_vars, file, ghosts>> /\ SameHelper

\* Everything run_redirected has opened, closed again.
GiveUp == {r \in held : r.what \notin {"cap", "out"}}

Fd(what) == [what |-> what, dev |-> TRUE]

\* /dev/capture, a copy of fd 1, and fd 1 pointed at the capture -- or none of
\* them, for want of descriptors.
Redirect ==
  /\ pc = "cap"
  /\ IF Fds(held) + Cardinality(qfd) + 2 <= FreeFds
     THEN /\ held' = held \cup {Fd("cap"), Fd("saved")} /\ fd1' = "capture"
          /\ Go("start") /\ UNCHANGED rc
     ELSE held' = GiveUp /\ rc' = 1 /\ Go("prompt") /\ UNCHANGED fd1
  /\ UNCHANGED <<cmd, redir, qfd, cap_err, n, cap_vars, file, ghosts>> /\ SameHelper

\* run_one: where the command runs.
Start ==
  /\ pc = "start"
  /\ Go(CASE cmd = "priv" -> "queues" [] cmd \in {"cat", "cp", "ls"} -> "open1"
          [] cmd = "write" -> "open2" [] OTHER -> "loop")
  /\ UNCHANGED <<cmd, redir, fd1, held, qfd, cap_err, rc, n, cap_vars, file, ghosts>> /\ SameHelper

-----------------------------------------------------------------------------
(* The file commands: cat, head, hexdump, tail and ls open one thing to read, *)
(* cp a second to write, write and touch only that one.                     *)

\* sh_open, sh_diropen.
Open1 ==
  /\ pc = "open1"
  /\ \/ Opens("in") /\ Go(IF cmd = "cp" THEN "open2" ELSE "loop") /\ UNCHANGED rc
     \/ UNCHANGED held /\ rc' = 1 /\ Go("ended")
  /\ UNCHANGED <<cmd, redir, fd1, qfd, cap_err, n, cap_vars, file, ghosts>> /\ SameHelper

\* MUTANT: cp leaves its source open when the destination does not open.
NoDst_Kept == held

\* cp's destination does not open: its source is closed.
NoDst == Without("in")

Open2 ==
  /\ pc = "open2"
  /\ \/ Opens("dst") /\ Go("loop") /\ UNCHANGED rc
     \/ held' = NoDst /\ rc' = 1 /\ Go("ended")
  /\ UNCHANGED <<cmd, redir, fd1, qfd, cap_err, n, cap_vars, file, ghosts>> /\ SameHelper

\* A chunk is read, then printed or written; or reading ends, or fails, or the
\* write does.
Chunk ==
  /\ pc = "loop" /\ n < MaxChunks
  /\ n' = n + 1
  /\ IF cmd \in {"cp", "write"} THEN UNCHANGED <<cap_vars, ghosts>> ELSE Put(fd1, n + 1)
  /\ Go("poll")
  /\ UNCHANGED <<cmd, redir, fd1, held, qfd, cap_err, rc, file>> /\ SameHelper

LoopEnds ==
  /\ pc = "loop" /\ rc' \in {0, 1} /\ Go("close")
  /\ UNCHANGED <<cmd, redir, fd1, held, qfd, cap_err, n, cap_vars, file, ghosts>> /\ SameHelper

\* shell_interrupted between chunks: what was caught moves on to the target,
\* and a ^C ends the command.
Poll ==
  /\ pc = "poll"
  /\ IF redir THEN \E ok \in BOOLEAN : Drain(ok) ELSE UNCHANGED <<cap, file, cap_err>>
  /\ \/ Go("loop") /\ UNCHANGED rc
     \/ Go("close") /\ rc' = 2
  /\ UNCHANGED <<cmd, redir, fd1, held, qfd, n, cap_buf, ghosts>> /\ SameHelper

Close ==
  /\ pc = "close" /\ held' = {r \in held : r.what \notin {"in", "dst"}} /\ Go("ended")
  /\ UNCHANGED <<cmd, redir, fd1, qfd, cap_err, rc, n, cap_vars, file, ghosts>> /\ SameHelper

-----------------------------------------------------------------------------
(* via_helper.                                                              *)

\* The two queues are opened once, each when there is a descriptor for it.
Queues ==
  /\ pc = "queues"
  /\ IF HelperRuns /\ Fds(held) + 2 <= FreeFds
     THEN qfd' = {"req", "done"} /\ Go("ask") /\ UNCHANGED rc
     ELSE rc' = 1 /\ Go("ended") /\
          qfd' = qfd \cup (IF HelperRuns /\ Fds(held) + Cardinality(qfd) < FreeFds THEN {"req"} ELSE {})
  /\ UNCHANGED <<cmd, redir, fd1, held, cap_err, n, cap_vars, file, ghosts>> /\ SameHelper

\* v_queue_send: the request carries whether the output is captured.
Ask ==
  /\ pc = "ask" /\ req = <<>>
  /\ req' = <<redir>> /\ Go("answer")
  /\ UNCHANGED <<cmd, redir, fd1, held, qfd, cap_err, rc, n, hvars, done, cap_vars, file, ghosts>>

\* v_queue_recv returns the command's result.
Answer ==
  /\ pc = "answer" /\ done # <<>>
  /\ done' = <<>> /\ rc' = Head(done) /\ Go("ended")
  /\ UNCHANGED <<cmd, redir, fd1, held, qfd, cap_err, n, hvars, req, cap_vars, file, ghosts>>

\* MUTANT: waiting on the helper, the shell stops asking after one timeout.
WaitDrain_GivesUp ==
  /\ pc = "answer" /\ done = <<>> /\ redir
  /\ \E ok \in BOOLEAN : Drain(ok)
  /\ rc' = 1 /\ Go("ended")
  /\ UNCHANGED <<cmd, redir, fd1, held, qfd, n, cap_buf, ghosts>> /\ SameHelper

\* 20 ms without an answer: move what the helper has printed meanwhile.
WaitDrain ==
  /\ pc = "answer" /\ done = <<>> /\ redir
  /\ \E ok \in BOOLEAN : Drain(ok)
  /\ UNCHANGED <<pc, rc>>
  /\ UNCHANGED <<cmd, redir, fd1, held, qfd, n, cap_buf, ghosts>> /\ SameHelper

-----------------------------------------------------------------------------
(* The command has returned: the rest of run_redirected.                    *)

\* MUTANT: what was printed after the last drain point stays behind.
LastDrain_None(ok) == UNCHANGED <<cap, file, cap_err>>

LastDrain(ok) == Drain(ok)

Restored == IF Holds("saved") THEN "console" ELSE fd1

Ended ==
  /\ pc = "ended"
  /\ IF redir
     THEN /\ \E ok \in BOOLEAN : LastDrain(ok)
          /\ held' = {r \in held : r.what \notin {"cap", "saved", "out"}}
          /\ fd1' = Restored
          /\ rc' = IF cap_err' THEN 1 ELSE rc
     ELSE UNCHANGED <<cap, file, cap_err, held, fd1, rc>>
  /\ Go("prompt")
  /\ UNCHANGED <<cmd, redir, qfd, n, cap_buf, ghosts>> /\ SameHelper

ShellStep ==
  \/ Exec \/ OpenTarget \/ Redirect \/ Start \/ Open1 \/ Open2 \/ Chunk \/ LoopEnds
  \/ Poll \/ Close \/ Queues \/ Ask \/ Answer \/ WaitDrain \/ Ended

-----------------------------------------------------------------------------
(* shell_helper_run.                                                        *)

SameShell == UNCHANGED <<shvars, file>>

\* MUTANT: the helper does not look at the request's captured flag.
HelperFd1_Ignored(captured) == hfd1

HelperFd1(captured) == IF captured THEN "capture" ELSE hfd1

\* A request is taken; a captured one points the helper's own fd 1 at the
\* capture device.
HelperTakes ==
  /\ HelperRuns /\ hpc = "wait" /\ req # <<>>
  /\ req' = <<>> /\ hpc' = "run" /\ hn' = 0
  /\ hheld' = IF Head(req) THEN {Fd("cap"), Fd("saved")} ELSE hheld
  /\ hfd1' = HelperFd1(Head(req))
  /\ UNCHANGED <<done, cap_vars, ghosts>> /\ SameShell

HelperPrints ==
  /\ hpc = "run" /\ hn < MaxChunks
  /\ hn' = hn + 1 /\ Put(hfd1, hn + 1)
  /\ UNCHANGED <<hpc, hfd1, hheld, req, done>> /\ SameShell

\* MUTANT: a command that fails sends no result.
HelperFinish_Silent ==
  /\ hpc = "run" /\ done = <<>> /\ hpc' = "wait"
  /\ \E r \in {0, 1} : done' = IF r = 0 THEN <<r>> ELSE done
  /\ hfd1' = "console" /\ hheld' = {}

\* The command returns, fd 1 is the console again, and the result is sent.
HelperFinish ==
  /\ hpc = "run" /\ done = <<>> /\ hpc' = "wait"
  /\ \E r \in {0, 1} : done' = <<r>>
  /\ hfd1' = IF hheld = {} THEN hfd1 ELSE "console"
  /\ hheld' = {}

HelperAnswers == HelperFinish /\ UNCHANGED <<hn, req, cap_vars, ghosts>> /\ SameShell

HelperStep == HelperTakes \/ HelperPrints \/ HelperAnswers

-----------------------------------------------------------------------------
Init ==
  /\ pc = "prompt" /\ cmd = "help" /\ redir = FALSE /\ fd1 = "console" /\ held = {}
  /\ qfd = {} /\ cap_err = FALSE /\ rc = 0 /\ n = 0
  /\ hpc = "wait" /\ hfd1 = "console" /\ hheld = {} /\ hn = 0
  /\ req = <<>> /\ done = <<>> /\ cap = <<>> /\ cap_buf = FALSE /\ file = <<>> /\ printed = <<>> /\ lost = FALSE

Next == ShellStep \/ HelperStep

\* A step of the shell other than reading a line or waiting on for an answer.
ShellProgress == ShellStep /\ pc # "prompt" /\ ~(pc = "answer" /\ pc' = "answer")

\* Each task runs when it is ready; a command does not print for ever, and the
\* user may never type another line.
Fairness ==
  /\ WF_vars(ShellProgress)
  /\ WF_vars(HelperStep)

Spec == Init /\ [][Next]_vars /\ Fairness

-----------------------------------------------------------------------------
\* Whatever fails on the way -- no descriptor, a file that does not open, a
\* write error, a ^C -- the shell is back at its prompt with fd 1 on the
\* console and nothing left open, and the helper waits for its next request
\* the same way.
HandlesReturned ==
  /\ pc = "prompt" => held = {} /\ fd1 = "console" /\ cap = <<>>
  /\ hpc = "wait" => hheld = {} /\ hfd1 = "console"
  /\ Fds(held) + Cardinality(qfd) <= FreeFds

\* Back at the prompt, the file of a redirected command holds chunks the command printed,
\* in order; and when no failure is reported all of them, whichever task printed them,
\* as long as the capture device had its buffer and did not fill between two drains.
RedirectExact ==
  pc = "prompt" /\ redir =>
    /\ \A i \in DOMAIN file :
         Contains(printed, file[i]) /\ (i > 1 => file[i - 1] < file[i])
    /\ rc = 0 /\ ~lost => file = printed

\* The shell never returns to its prompt while the helper still has its
\* request or owes it an answer, so no result is taken for the next command's.
HelperIdle == pc = "prompt" => hpc = "wait" /\ req = <<>> /\ done = <<>>

AtPrompt == pc = "prompt"

\* Every command returns to the prompt: neither task waits for the other for
\* ever.
CommandReturns == ~AtPrompt ~> AtPrompt

\* Whatever a command meets, its output is where it was sent or was dropped by the capture
\* device, its handles are returned
\* and the helper owes nothing when the prompt is back (shell_exec, via_helper,
\* shell_helper_run).
CommandsSound == HandlesReturned /\ RedirectExact /\ HelperIdle
=============================================================================
