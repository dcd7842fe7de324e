------------------------ MODULE ContainerSupervision ------------------------
(***************************************************************************)
(* docker-entrypoint.sh, which starts NGINX and the Node.js application in *)
(* one container, restarts the one that dies, and ends the container when  *)
(* it is asked to or a restart fails.                                      *)
(*                                                                         *)
(* The script stands at one place at a time; a trap may take it from there *)
(* between two of its commands, a trap of another signal included.  Both   *)
(* processes may end whenever they like.  NGINX may have a master that is  *)
(* not the script's child (after an upgrade of the binary).                *)
(***************************************************************************)
EXTENDS Integers

CONSTANTS
  RestartMax,   \* NODE_RESTART_MAX_ATTEMPTS, NGINX_RESTART_MAX_ATTEMPTS
  MaxSignals    \* bound: signals to the script

ContainerAssumption ==
  /\ RestartMax \in Nat
  /\ MaxSignals \in Nat

VARIABLES
  at,           \* where the script stands
  running,      \* the processes: "node", "child" (its nginx) and "other"
  nodePid,      \* what NODE_PID and NGINX_PID name: a process or "none"
  nginxPid,
  attempts,     \* NODE_RESTART_ATTEMPTS and NGINX_RESTART_ATTEMPTS
  code,         \* the status of the process whose end is dealt with
  final,        \* FINAL_EXIT_CODE
  stopping,     \* SHUTDOWN_REQUESTED
  status,       \* the exit status of the script; -1 while it runs
  signals,      \* signals that the script took
  hurried       \* one of them came in the middle of a shutdown, which it cut short

vars == <<at, running, nodePid, nginxPid, attempts, code, final, stopping,
          status, signals, hurried>>

Code == 0..1

Init ==
  /\ at = "prerequisites"
  /\ running = {}
  /\ nodePid = "none" /\ nginxPid = "none"
  /\ attempts = [p \in {"node", "nginx"} |-> 0]
  /\ code = 0 /\ final = 0
  /\ stopping = FALSE
  /\ status = -1
  /\ signals = 0 /\ hurried = FALSE

Alive == status = -1
Goto(place) == at' = place

\* The container ends with the script.
Exit(c) == at' = "exited" /\ status' = c

normalize_exit_code(c) == IF c = 0 THEN 1 ELSE c

remember_last_exit_code(c) == c  \* faulty: forgets the failure it shut down for

remember_exit_code(c) == IF final = 0 \/ c # 0 THEN c ELSE final

-----------------------------------------------------------------------------
(* The processes.                                                          *)

End(p) ==
  /\ Alive
  /\ p \in running
  /\ running' = running \ {p}
  /\ UNCHANGED <<at, nodePid, nginxPid, attempts, code, final, stopping, status, signals, hurried>>

\* The master starts its successor.
Upgrade ==
  /\ Alive
  /\ "child" \in running /\ "other" \notin running
  /\ running' = running \cup {"other"}
  /\ UNCHANGED <<at, nodePid, nginxPid, attempts, code, final, stopping, status, signals, hurried>>

-----------------------------------------------------------------------------
(* Stopping.                                                               *)

\* request_shutdown, up to the processes it has to stop.
request_shutdown(c) ==
  /\ final' = remember_exit_code(c)
  /\ stopping' = TRUE
  /\ Goto("stop-node")

StopNodeInPassing ==  \* faulty: goes on to NGINX without waiting for the end of Node.js
  /\ at = "stop-node"
  /\ Goto("stop-nginx")
  /\ UNCHANGED <<running, nodePid, nginxPid, attempts, code, final, stopping, status, signals, hurried>>

\* stop_process waits for the end, and enforces it after a time.
StopNode ==
  /\ at = "stop-node"
  /\ running' = running \ {nodePid}
  /\ Goto("stop-nginx")
  /\ UNCHANGED <<nodePid, nginxPid, attempts, code, final, stopping, status, signals, hurried>>

StopNginx ==
  /\ at = "stop-nginx"
  /\ running' = running \ {nginxPid}
  /\ Exit(final)
  /\ UNCHANGED <<nodePid, nginxPid, attempts, code, final, stopping, signals, hurried>>

\* handle_signal: once a shutdown is under way, it only exits.
handle_signal ==
  /\ Alive
  /\ signals < MaxSignals /\ signals' = signals + 1
  /\ IF stopping
     THEN /\ final' = remember_exit_code(0)
          /\ Exit(final')
          /\ hurried' = TRUE
          /\ UNCHANGED stopping
     ELSE request_shutdown(0) /\ UNCHANGED <<status, hurried>>
  /\ UNCHANGED <<running, nodePid, nginxPid, attempts, code>>

-----------------------------------------------------------------------------
(* Starting.                                                               *)

verify_prerequisites ==
  /\ at = "prerequisites"
  /\ \/ Goto("start-nginx") /\ UNCHANGED status
     \/ Exit(1)
  /\ UNCHANGED <<running, nodePid, nginxPid, attempts, code, final, stopping, signals, hurried>>

\* start_nginx and start_node_app start a process; the next command records
\* its PID.
Start(p, from, to) ==
  /\ at = from
  /\ running' = running \cup {p}
  /\ Goto(to)
  /\ UNCHANGED <<attempts, code, final, stopping, status, signals, hurried>>

StartNginx ==
  /\ \/ Start("child", "start-nginx", "record-nginx")
     \/ Start("child", "restart-nginx", "record-new-nginx")
  /\ nginxPid' = IF nginxPid = "child" THEN "none" ELSE nginxPid
  /\ UNCHANGED nodePid

StartNode ==
  /\ \/ Start("node", "start-node", "record-node")
     \/ Start("node", "restart-node", "record-new-node")
  /\ nodePid' = "none"
  /\ UNCHANGED nginxPid

Record(from, to) ==
  /\ at = from
  /\ Goto(to)
  /\ UNCHANGED <<running, attempts, code, final, stopping, status, signals, hurried>>

RecordPid ==
  \/ /\ \/ Record("record-nginx", "check-nginx")
        \/ Record("record-new-nginx", "check-new-nginx")
     /\ nginxPid' = "child"
     /\ UNCHANGED nodePid
  \/ /\ \/ Record("record-node", "check-node")
        \/ Record("record-new-node", "check-new-node")
     /\ nodePid' = "node"
     /\ UNCHANGED nginxPid

\* Is it still there after the grace period?  A failure of NGINX ends the
\* script at once, one of Node.js stops NGINX first.
CheckNginx ==
  /\ at \in {"start-nginx", "check-nginx"}   \* nginx -t, or the process
  /\ \/ /\ at = "check-nginx" /\ "child" \in running
        /\ Goto("start-node") /\ UNCHANGED status
     \/ /\ at = "start-nginx" \/ "child" \notin running
        /\ Exit(1)
  /\ UNCHANGED <<running, nodePid, nginxPid, attempts, code, final, stopping, signals, hurried>>

\* It is, and the liveness probe passes; or not.
CheckNode ==
  /\ at = "check-node"
  /\ \/ /\ "node" \in running
        /\ Goto("monitor") /\ UNCHANGED <<final, stopping>>
     \/ request_shutdown(1)
  /\ UNCHANGED <<running, nodePid, nginxPid, attempts, code, status, signals, hurried>>

-----------------------------------------------------------------------------
(* monitor_processes.                                                      *)

\* wait -n reports a child that has ended, also one that ended before, with
\* its status.  A master that is not a child is not reported.
NodeEnded ==
  /\ at = "monitor" /\ nodePid \notin running
  /\ code' \in Code
  /\ Goto("recover-node")
  /\ UNCHANGED <<running, nodePid, nginxPid, attempts, final, stopping, status, signals, hurried>>

NginxEnded ==
  /\ at = "monitor" /\ nginxPid = "child" /\ nginxPid \notin running
  /\ code' \in Code
  /\ Goto("recover-nginx")
  /\ UNCHANGED <<running, nodePid, nginxPid, attempts, final, stopping, status, signals, hurried>>

failFast == request_shutdown(normalize_exit_code(code))

\* increment_restart_budget; the window may have passed.
IncrementBudget(process, restart) ==
  LET before == {attempts[process], 0}
  IN  \E n \in before :
        /\ attempts' = [attempts EXCEPT ![process] = n + 1]
        /\ IF n + 1 > RestartMax THEN failFast
           ELSE Goto(restart) /\ UNCHANGED <<final, stopping>>

recover_node_process ==
  /\ at = "recover-node"
  /\ IncrementBudget("node", "restart-node")
  /\ UNCHANGED <<running, nodePid, nginxPid, code, status, signals, hurried>>

\* Another master runs: it is adopted, and that was all if the container is
\* alive.
Adopt ==
  /\ at = "recover-nginx" /\ "other" \in running
  /\ nginxPid' = "other"
  /\ \/ /\ attempts' = [attempts EXCEPT !.nginx = 0]
        /\ Goto("monitor") /\ UNCHANGED <<final, stopping>>
     \/ IncrementBudget("nginx", "restart-nginx")
  /\ UNCHANGED <<running, nodePid, code, status, signals, hurried>>

recover_nginx_process ==
  /\ at = "recover-nginx" /\ "other" \notin running
  /\ IncrementBudget("nginx", "restart-nginx")
  /\ UNCHANGED <<running, nodePid, nginxPid, code, status, signals, hurried>>

\* The new process is there and the liveness probe passes; or not, or the
\* test of the configuration fails.
Recovered ==
  /\ \/ /\ \/ /\ at = "check-new-node" /\ "node" \in running
              /\ attempts' = [attempts EXCEPT !.node = 0]
           \/ /\ at = "check-new-nginx" /\ "child" \in running
              /\ attempts' = [attempts EXCEPT !.nginx = 0]
        /\ Goto("monitor") /\ UNCHANGED <<final, stopping>>
     \/ /\ at \in {"restart-nginx", "check-new-nginx", "check-new-node"}
        /\ failFast /\ UNCHANGED attempts
  /\ UNCHANGED <<running, nodePid, nginxPid, code, status, signals, hurried>>

Next ==
  \/ \E p \in {"node", "child", "other"} : End(p)
  \/ Upgrade \/ handle_signal
  \/ verify_prerequisites \/ StartNginx \/ StartNode \/ RecordPid
  \/ CheckNginx \/ CheckNode
  \/ NodeEnded \/ NginxEnded
  \/ recover_node_process \/ Adopt \/ recover_nginx_process \/ Recovered
  \/ StopNode \/ StopNginx

Spec == Init /\ [][Next]_vars

-----------------------------------------------------------------------------
(* Properties.                                                             *)

TypeOK ==
  /\ at \in {"prerequisites", "start-nginx", "record-nginx", "check-nginx", "start-node",
             "record-node", "check-node", "monitor", "recover-node", "recover-nginx",
             "restart-node", "record-new-node", "check-new-node", "restart-nginx",
             "record-new-nginx", "check-new-nginx", "stop-node", "stop-nginx", "exited"}
  /\ running \subseteq {"node", "child", "other"}
  /\ nodePid \in {"none", "node"} /\ nginxPid \in {"none", "child", "other"}
  /\ attempts \in [{"node", "nginx"} -> 0..RestartMax + 1]
  /\ code \in Code /\ final \in Code
  /\ stopping \in BOOLEAN /\ hurried \in BOOLEAN
  /\ status \in {-1} \cup Code
  /\ (status = -1) <=> (at # "exited")
  /\ signals \in 0..MaxSignals

(***************************************************************************)
(* The container ends with status 0 only when it was asked to end and no   *)
(* process had failed it before: a signal that arrives during a fail-fast  *)
(* shutdown does not turn the failure into a success, and a process that   *)
(* ended with 0 unasked is a failure too.                                  *)
(***************************************************************************)
ZeroMeansAsked == [][status' = 0 => final = 0 /\ signals' > 0]_vars

(***************************************************************************)
(* The processes whose PIDs the script holds have ended before it exits:   *)
(* the container does not cut off a Node.js application that is releasing  *)
(* its leases.  The exception is a shutdown in the middle of which a       *)
(* signal arrives: the second signal of a shutdown that was asked for, and *)
(* even the first one of a shutdown after a failure, ends the script at    *)
(* once.                                                                   *)
(***************************************************************************)
NothingCutOff ==
  status # -1 => hurried \/ running \cap {nodePid, nginxPid} = {}
=============================================================================
