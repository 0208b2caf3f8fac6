---------------------------- MODULE TimedCommand ----------------------------
(***************************************************************************)
(* A command run under a time limit, as hook_sentinel.py                   *)
(* (run_isolated_command), sandbox.py (_execute_subprocess) and            *)
(* kinetic_probe.py (_execute_subprocess) do it: Popen, communicate with a *)
(* timeout, and signals when it expires.  The first two start the command  *)
(* in a process group of its own and signal the group.  What the command's *)
(* processes do is the environment: they fork, close the pipes they        *)
(* inherited, ignore SIGTERM, leave the group, exit, or run for ever.      *)
(***************************************************************************)
CONSTANTS
  Harness,   \* which of the three are modelled
  Proc,      \* processes the command may consist of
  Leader,    \* the one Popen starts
  None

ASSUME CommandAssumption ==
  /\ Harness \subseteq {"hook", "sandbox", "probe"}
  /\ Leader \in Proc
  /\ None \notin {"exited", "terminated", "killed", "expired"}

VARIABLES
  harness,    \* which harness runs the command
  stage,      \* what it waits for: the command, the grace period, the end after SIGKILL
  status,     \* of each process; the leader's is what Popen.returncode will tell
  group,      \* the processes in the leader's process group
  pipe,       \* the processes that hold the command's stdout or stderr
  ignoring,   \* the processes that ignore SIGTERM, or handle it
  timed_out,  \* CommandResult.timed_out
  exit_code   \* CommandResult.exit_code; "expired" for the harness's own value

tcCommand == <<status, group, pipe, ignoring>>
result == <<timed_out, exit_code>>
tcVars == <<harness, stage, tcCommand, result>>

TcInit ==
  /\ harness \in Harness
  /\ stage = "waiting"
  /\ status = [p \in Proc |-> IF p = Leader THEN "running" ELSE "unborn"]
  /\ group = {Leader} /\ pipe = {Leader}
  /\ ignoring = {}
  /\ timed_out = FALSE /\ exit_code = None

Running == {p \in Proc : status[p] = "running"}

\* A child inherits its parent's group, pipes and disposition of SIGTERM.
Fork(p, child) ==
  /\ p \in Running /\ status[child] = "unborn"
  /\ status' = [status EXCEPT ![child] = "running"]
  /\ group' = IF p \in group THEN group \cup {child} ELSE group
  /\ pipe' = IF p \in pipe THEN pipe \cup {child} ELSE pipe
  /\ ignoring' = IF p \in ignoring THEN ignoring \cup {child} ELSE ignoring
  /\ UNCHANGED <<harness, stage, result>>

ClosePipe(p) ==
  /\ p \in Running \cap pipe
  /\ pipe' = pipe \ {p}
  /\ UNCHANGED <<harness, stage, status, group, ignoring, result>>

IgnoreTerm(p) ==
  /\ p \in Running \ ignoring
  /\ ignoring' = ignoring \cup {p}
  /\ UNCHANGED <<harness, stage, status, group, pipe, result>>

LeaveGroup(p) ==
  /\ p \in (Running \cap group) \ {Leader}
  /\ group' = group \ {p}
  /\ UNCHANGED <<harness, stage, status, pipe, ignoring, result>>

ProcessExit(p) ==
  /\ p \in Running
  /\ status' = [status EXCEPT ![p] = "exited"]
  /\ pipe' = pipe \ {p}
  /\ UNCHANGED <<harness, stage, group, ignoring, result>>

\* Mutant of Group: Popen.kill in place of os.killpg.
GroupLeaderOnly == {Leader}

\* Whom os.killpg reaches.  The leader is not waited for yet: its process id
\* still names the group when it has ended.
Group == group

\* A signal that ends the victims, and closes what they held.
End(victims, how) ==
  /\ status' = [p \in Proc |-> IF p \in victims \cap Running THEN how ELSE status[p]]
  /\ pipe' = pipe \ victims
  /\ UNCHANGED <<group, ignoring>>

\* What communicate waits for: end of file on both pipes, and the leader's end.
Complete == pipe = {} /\ Leader \notin Running

\* communicate returns.
Finish ==
  /\ stage = "waiting" \/ (stage \in {"grace", "final"} /\ harness = "hook")
  /\ Complete
  /\ stage' = "returned"
  /\ timed_out' = (stage # "waiting")
  /\ exit_code' = status[Leader]
  /\ UNCHANGED <<harness, tcCommand>>

\* TimeoutExpired, also when the command ends in the same moment: SIGTERM.
TimeOut ==
  /\ stage = "waiting" /\ harness \in {"hook", "sandbox"}
  /\ stage' = "grace"
  /\ End(Group \ ignoring, "terminated")
  /\ UNCHANGED <<harness, result>>

\* Mutant of Escalate: the reminder is a second SIGTERM.
EscalatePolitely ==
  /\ stage = "grace" /\ harness = "hook"
  /\ stage' = "final"
  /\ End(Group \ ignoring, "terminated")
  /\ UNCHANGED <<harness, result>>

\* hook: communicate(timeout=grace_seconds) expires, SIGKILL, communicate().
Escalate ==
  /\ stage = "grace" /\ harness = "hook"
  /\ stage' = "final"
  /\ End(Group, "killed")
  /\ UNCHANGED <<harness, result>>

\* sandbox: 50 ms later SIGKILL in any case, and nothing more is read or waited for.
KillTree ==
  /\ stage = "grace" /\ harness = "sandbox"
  /\ stage' = "returned"
  /\ End(Group, "killed")
  /\ timed_out' = TRUE /\ exit_code' = "expired"
  /\ UNCHANGED harness

\* probe: subprocess.run kills the process it started, and waits for that one.
KillLeader ==
  /\ stage = "waiting" /\ harness = "probe"
  /\ stage' = "returned"
  /\ End({Leader}, "killed")
  /\ timed_out' = TRUE /\ exit_code' = "expired"
  /\ UNCHANGED harness

HarnessStep == Finish \/ TimeOut \/ Escalate \/ KillTree \/ KillLeader

TcNext ==
  \/ HarnessStep
  \/ \E p \in Proc :
       \/ \E child \in Proc : Fork(p, child)
       \/ ClosePipe(p) \/ IgnoreTerm(p) \/ LeaveGroup(p) \/ ProcessExit(p)

TcSpec == TcInit /\ [][TcNext]_tcVars

\* Timers expire and the harness runs; the command's processes owe nothing.
TcFairSpec == TcSpec /\ WF_tcVars(HarnessStep)
-----------------------------------------------------------------------------
\* Every variable keeps its type: what communicate reports as returncode is how
\* the leader has ended, and dead processes hold no pipe.
TcTypeOK ==
  /\ harness \in Harness
  /\ stage \in {"waiting", "grace", "final", "returned"}
  /\ status \in [Proc -> {"unborn", "running", "exited", "terminated", "killed"}]
  /\ group \subseteq Proc /\ ignoring \subseteq Proc
  /\ pipe \subseteq Running
  /\ timed_out \in BOOLEAN
  /\ exit_code \in {None, "exited", "terminated", "killed", "expired"}

Returned == stage = "returned"

\* README.md of the sandbox: "Timeout enforcement and process tree termination."
\* Once a timed-out call of _terminate_process_tree has returned, nothing the
\* command started runs on in its process group, whatever it forked meanwhile
\* and whatever it did about SIGTERM.
GroupIsDead ==
  harness = "sandbox" /\ Returned /\ timed_out => Running \cap group = {}

\* run_isolated_command returns all of the output: no process that could still
\* write to the pipes, in the group or outside, is running when it does.
OutputIsComplete ==
  harness = "hook" /\ Returned => Running \cap pipe = {}

\* A command that is not reported as timed out ended by itself, with nobody
\* left that holds its pipes: no signal was sent.
OnlyTimeOutsAreSignalled ==
  Returned /\ ~timed_out =>
    /\ exit_code = "exited"
    /\ \A p \in Proc : status[p] \notin {"terminated", "killed"}

\* What may be relied on when one of the three harnesses has returned.
ReturnIsClean == TcTypeOK /\ GroupIsDead /\ OutputIsComplete /\ OnlyTimeOutsAreSignalled

\* Every call returns although the command's processes owe nothing.  The hook's
\* last communicate has no timeout: it needs that whoever holds the pipes can
\* be signalled, at least from some moment on.
ReachableCommandsReturn ==
  (harness # "hook" \/ <>[](pipe \subseteq group)) => <>Returned
=============================================================================
