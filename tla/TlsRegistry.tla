---------------------------- MODULE TlsRegistry ----------------------------
(***************************************************************************)
(* startTlsRegistry of packages/integration/oci/tls-registry.js: a registry*)
(* child process brought up under a readiness deadline, and taken down with*)
(* everything it left whenever that fails.                                 *)
(*                                                                         *)
(* Time is what is left of it: budget counts down to the deadline and is   *)
(* -1 past it, timer counts down to when the one pending timer is due.  A  *)
(* due timer fires when the event loop comes to it, so what it bounds may  *)
(* still end by itself, later.                                             *)
(***************************************************************************)
EXTENDS Integers, Sequences

CONSTANTS Readiness, ProbeTimeout, RetryDelay, Grace, ToolTimeout

ASSUME RegistryTimes ==
    /\ Readiness \in Nat \ {0} /\ ProbeTimeout \in Nat \ {0}
    /\ RetryDelay \in Nat \ {0} /\ Grace \in Nat /\ ToolTimeout \in Nat

VARIABLES
    reg,            \* [pc, k]: where the start or the stop is
    budget, timer,
    tool,           \* the setup command: "none", "running", "hung", "killed"
    child,          \* the registry: "none", "running", "dead", "unspawned"
    exited,         \* lifecycle.exited, set by the child's close or error event
    probe,          \* the request: "none", "sent", "answered", "error"
    answer,         \* [kind, left] of the answer, left the budget when it came
    dir,            \* the state directory: "none", "there", "removed"
    cause,          \* why the start failed, "none" while it did not
    problems        \* what the cleanup could not do

registryVars == <<reg, budget, timer, tool, child, exited, probe, answer, dir, cause, problems>>

SetupSteps == <<"mkdir", "ca", "csr", "certificate", "htpasswd", "port", "config">>
Tools == {"ca", "csr", "certificate", "htpasswd"}

Kinds == {"challenge", "open", "otherChallenge"}
NoAnswer == [kind |-> "none", left |-> 0]

Lesser(a, b) == IF a < b THEN a ELSE b

RegistryInit ==
    /\ reg = [pc |-> "setup", k |-> 1] /\ budget = Readiness /\ timer = 0
    /\ tool = "none" /\ child = "none" /\ exited = FALSE
    /\ probe = "none" /\ answer = NoAnswer
    /\ dir = "none" /\ cause = "none" /\ problems = {}

At(pc) == reg.pc = pc
To(pc) == reg' = [reg EXCEPT !.pc = pc]

(***************************************************************************)
(* Setup: every tool runs under runBounded                                 *)
(***************************************************************************)
\* failStart begins: the probe is gone, and the child, if there is one and it
\* has not exited, is sent SIGTERM.
Fails(why) ==
    /\ cause' = why
    /\ IF child # "none" /\ ~exited THEN To("term") /\ timer' = Grace
                                    ELSE To("remove") /\ timer' = 0

SetupStep(s) ==
    /\ At("setup") /\ s = SetupSteps[reg.k] /\ tool = "none"
    /\ dir' = IF s = "mkdir" THEN "there" ELSE dir
    /\ \/ s \in Tools /\ tool' \in {"running", "hung"} /\ timer' = ToolTimeout
          /\ UNCHANGED <<reg, cause>>
       \/ /\ s \notin Tools /\ UNCHANGED <<tool, timer, cause>>
          /\ reg' = IF reg.k = Len(SetupSteps) THEN [reg EXCEPT !.pc = "spawn"]
                                               ELSE [reg EXCEPT !.k = @ + 1]
       \/ Fails(s) /\ UNCHANGED tool
    /\ UNCHANGED <<budget, child, exited, probe, answer, problems>>

\* The tool's close event: it ended by itself, or by the kill of its timer.
ToolCloses ==
    /\ tool \in {"running", "killed"} /\ tool' = "none"
    /\ \/ tool = "running" /\ reg' = [reg EXCEPT !.k = @ + 1] /\ UNCHANGED <<timer, cause>>
       \/ Fails(SetupSteps[reg.k])
    /\ UNCHANGED <<budget, child, exited, probe, answer, dir, problems>>

\* (Mutant: the start fails at the timeout, the kill not awaited.)
RejectsAtTimeout ==
    /\ tool \in {"running", "hung"} /\ timer = 0 /\ tool' = "killed"
    /\ Fails(SetupSteps[reg.k])
    /\ UNCHANGED <<budget, child, exited, probe, answer, dir, problems>>

ToolTimesOut ==
    /\ tool \in {"running", "hung"} /\ timer = 0 /\ tool' = "killed"
    /\ UNCHANGED <<reg, budget, timer, child, exited, probe, answer, dir, cause, problems>>

Spawn ==
    /\ At("spawn") /\ To("loop") /\ child' \in {"running", "unspawned"}
    /\ UNCHANGED <<budget, timer, tool, exited, probe, answer, dir, cause, problems>>

(***************************************************************************)
(* The readiness loop                                                      *)
(***************************************************************************)
\* (Mutant: only the attempts are bounded, not the time.)
NeverExpires == FALSE

Expired == budget <= 0

Probe ==
    /\ At("loop")
    /\ IF exited \/ Expired
       THEN Fails(IF exited THEN "exit" ELSE "deadline") /\ UNCHANGED probe
       ELSE To("probe") /\ probe' = "sent" /\ timer' = Lesser(ProbeTimeout, budget)
            /\ UNCHANGED cause
    /\ UNCHANGED <<budget, tool, child, exited, answer, dir, problems>>

\* httpsGet ends: a complete answer of the running child, or an error, and in
\* the end by its own timer.
Answers ==
    /\ probe = "sent" /\ child = "running" /\ probe' = "answered"
    /\ \E kind \in Kinds : answer' = [kind |-> kind, left |-> budget]
    /\ UNCHANGED <<reg, budget, timer, tool, child, exited, dir, cause, problems>>

ProbeErrs ==
    /\ probe = "sent" /\ probe' = "error"
    /\ UNCHANGED <<reg, budget, timer, tool, child, exited, answer, dir, cause, problems>>

ProbeTimesOut ==
    /\ probe = "sent" /\ timer = 0 /\ probe' = "error"
    /\ UNCHANGED <<reg, budget, timer, tool, child, exited, answer, dir, cause, problems>>

\* An answer that came after the deadline is none.  (Mutant: any answer counts.)
AnyAnswer == probe = "answered"

InTime == probe = "answered" /\ budget >= 0

Judge ==
    /\ At("probe") /\ probe \in {"answered", "error"} /\ probe' = "none"
    /\ \/ exited /\ Fails("exit")
       \/ /\ ~exited /\ probe = "answered"
          /\ IF ~InTime THEN Fails("late")
             ELSE IF answer.kind = "challenge" THEN To("ready") /\ timer' = 0 /\ UNCHANGED cause
             ELSE Fails(answer.kind)
       \/ /\ ~exited /\ probe = "error" /\ UNCHANGED cause
          /\ To(IF budget > 0 THEN "delay" ELSE "loop")
          /\ timer' = IF budget > 0 THEN Lesser(RetryDelay, budget) ELSE 0
    /\ UNCHANGED <<budget, tool, child, exited, answer, dir, problems>>

\* The delay ends by its timer, or is cancelled by the child's exit.
DelayEnds ==
    /\ At("delay") /\ (timer = 0 \/ exited) /\ To("loop") /\ timer' = 0
    /\ UNCHANGED <<budget, tool, child, exited, probe, answer, dir, cause, problems>>

(***************************************************************************)
(* Taking it down: terminate and removeState, of a failed start or of stop *)
(***************************************************************************)
Stop ==
    /\ At("ready")
    /\ IF exited THEN To("remove") /\ timer' = 0 ELSE To("term") /\ timer' = Grace
    /\ UNCHANGED <<budget, tool, child, exited, probe, answer, dir, cause, problems>>

\* (Mutant: what was killed is not awaited.)
KilledIsGone == exited \/ At("killed")

Reaped == exited

Kill ==
    /\ At("term") /\ timer = 0 /\ ~exited /\ To("killed")
    /\ UNCHANGED <<budget, timer, tool, child, exited, probe, answer, dir, cause, problems>>

ChildGone ==
    /\ reg.pc \in {"term", "killed"} /\ Reaped /\ To("remove") /\ timer' = 0
    /\ UNCHANGED <<budget, tool, child, exited, probe, answer, dir, cause, problems>>

\* rm fails, or the directory is still there when it is looked for.
RemoveState ==
    /\ At("remove") /\ To(IF cause = "none" THEN "stopped" ELSE "rejected")
    /\ \/ dir' = "removed" /\ UNCHANGED problems
       \/ dir # "none" /\ problems' = problems \cup {"remove state"} /\ UNCHANGED dir
    /\ UNCHANGED <<budget, timer, tool, child, exited, probe, answer, cause>>

(***************************************************************************)
(* The child and the clock                                                 *)
(***************************************************************************)
\* It may end at any time, of itself or of SIGTERM, which it may also ignore.
ChildDies ==
    /\ child = "running" /\ child' = "dead"
    /\ UNCHANGED <<reg, budget, timer, tool, exited, probe, answer, dir, cause, problems>>

KilledDies == At("killed") /\ ChildDies

\* The child's close or error event settles lifecycle.exit, which aborts a probe.
ReportExit ==
    /\ child \in {"dead", "unspawned"} /\ ~exited /\ exited' = TRUE
    /\ probe' = IF probe = "sent" THEN "error" ELSE probe
    /\ UNCHANGED <<reg, budget, timer, tool, child, answer, dir, cause, problems>>

Tick ==
    /\ timer > 0 \/ budget > -1
    /\ timer' = IF timer > 0 THEN timer - 1 ELSE 0
    /\ budget' = IF budget > -1 THEN budget - 1 ELSE -1
    /\ UNCHANGED <<reg, tool, child, exited, probe, answer, dir, cause, problems>>

SetUp == \E s \in {SetupSteps[k] : k \in DOMAIN SetupSteps} : SetupStep(s)

RegistryNext ==
    \/ SetUp \/ ToolCloses \/ ToolTimesOut \/ Spawn \/ Probe \/ Answers \/ ProbeErrs
    \/ ProbeTimesOut \/ Judge \/ DelayEnds \/ Stop \/ Kill \/ ChildGone \/ RemoveState
    \/ ChildDies \/ ReportExit \/ Tick

RegistrySpec == RegistryInit /\ [][RegistryNext]_registryVars

(***************************************************************************)
(* Properties                                                              *)
(***************************************************************************)
RegistryTypeOK ==
    /\ reg.pc \in {"setup", "spawn", "loop", "probe", "delay", "ready", "term", "killed",
                   "remove", "rejected", "stopped"}
    /\ budget \in -1 .. Readiness
    /\ tool \in {"none", "running", "hung", "killed"} /\ (tool # "none" => At("setup"))
    /\ probe # "none" => At("probe")
    /\ cause # "none" => reg.pc \in {"term", "killed", "remove", "rejected"}

\* A registry handed out as ready answered with exactly the configured
\* challenge, and within the readiness budget, however late the timers that
\* should have stopped a slow answer fired (tls-registry.js:438-477).
ReadyMeansReady == At("ready") => answer.kind = "challenge" /\ answer.left >= 0

\* However the start failed or the registry was stopped, no process is left, no
\* request is under way, and the state directory is gone or the failure to
\* remove it recorded, never silently left (tls-registry.js:371-406, 471-475).
FailureLeavesNothing ==
    reg.pc \in {"rejected", "stopped"} =>
      /\ child \in {"none", "dead", "unspawned"} /\ tool = "none" /\ probe = "none"
      /\ dir = "there" => problems # {}
      /\ (reg.pc = "rejected") = (cause # "none")
=============================================================================
