----------------------------- MODULE Supervisor -----------------------------
(***************************************************************************)
(* The plugin supervisor: `supervise' and `on_crash' of                    *)
(* crates/iot-plugin-host/src/supervisor.rs, one loop per install          *)
(* directory, with the dead-letter marker on disk, the operator who clears *)
(* it and the host process that comes and goes.                            *)
(*                                                                         *)
(* The marker survives the host; the CrashTracker does not.  What a plugin *)
(* does is its own business: a load may fail, a task may end cleanly       *)
(* (Shutdown) or with a trap at any time.                                  *)
(***************************************************************************)
EXTENDS CrashTracker

CONSTANT Dirs     \* the install directories under the host's plugin_dir

VARIABLES
    pc,        \* where the supervise loop of a directory stands
    outcome,   \* what join.await returned, while the exit is cleaned up
    tracker,   \* the CrashTracker's records (ages), lost with the host
    wait,      \* what is left of the back-off sleep
    marker,    \* whether <dir>/.dead-lettered exists
    crashes,   \* history: ages of this host lifetime's crashes, oldest first
    starts     \* history: ages of its load attempts, oldest first

vars == <<pc, outcome, tracker, wait, marker, crashes, starts>>

Points == {"starting", "loading", "running", "cleanup", "backoff", "exited"}

\* A history holds every event inside the window: one that reaches its end is
\* forgotten at the next tick.
Nothing == <<>>
Noted(h) == Append(h, 0)
Leaving(h) == { i \in 1 .. Len(h) : h[i] >= Window }
Shifted(h) ==
    [i \in 1 .. Len(h) - Cardinality(Leaving(h)) |->
        h[i + Cardinality(Leaving(h))] + 1]

TypeOK ==
    /\ pc \in [Dirs -> Points]
    /\ outcome \in [Dirs -> {"clean", "crash"}]
    /\ tracker \in [Dirs -> Seq(Age)]
    /\ wait \in [Dirs -> 0 .. BackoffCap]
    /\ marker \in [Dirs -> BOOLEAN]
    /\ crashes \in [Dirs -> Seq(0 .. Window)]
    /\ starts \in [Dirs -> Seq(0 .. Window)]

Init ==
    /\ pc = [d \in Dirs |-> "starting"]
    /\ outcome = [d \in Dirs |-> "clean"]
    /\ tracker = [d \in Dirs |-> <<>>]
    /\ wait = [d \in Dirs |-> 0]
    /\ marker \in [Dirs -> BOOLEAN]
    /\ crashes = [d \in Dirs |-> Nothing]
    /\ starts = [d \in Dirs |-> Nothing]

-----------------------------------------------------------------------------
(***************************************************************************)
(* The supervise loop.                                                     *)
(***************************************************************************)

\* The top of the loop: load_plugin_dir is about to run.
StartLoad(d) ==
    /\ pc' = [pc EXCEPT ![d] = "loading"]
    /\ starts' = [starts EXCEPT ![d] = Noted(@)]

\* Mutation of Enter: the marker is not looked at.
EnterUnchecked(d) ==
    /\ pc[d] = "starting"
    /\ StartLoad(d)
    /\ UNCHANGED <<outcome, tracker, wait, marker, crashes>>

\* supervise is entered: a dead-lettered directory is refused.
Enter(d) ==
    /\ pc[d] = "starting"
    /\ \/ /\ marker[d]
          /\ pc' = [pc EXCEPT ![d] = "exited"]
          /\ UNCHANGED starts
       \/ /\ ~marker[d]
          /\ StartLoad(d)
    /\ UNCHANGED <<outcome, tracker, wait, marker, crashes>>

\* on_crash: record the crash, then sleep out the back-off or give up.  When
\* the marker cannot be written (the operator removed the directory) the
\* supervisor returns the error and leaves no marker.
OnCrash(d) ==
    /\ tracker' = [tracker EXCEPT ![d] = Record(@)]
    /\ crashes' = [crashes EXCEPT ![d] = Noted(@)]
    /\ \/ /\ DeadLetters(Record(tracker[d]))
          /\ pc' = [pc EXCEPT ![d] = "exited"]
          /\ \E written \in BOOLEAN :
                marker' = [marker EXCEPT ![d] = @ \/ written]
          /\ UNCHANGED wait
       \/ /\ ~DeadLetters(Record(tracker[d]))
          /\ pc' = [pc EXCEPT ![d] = "backoff"]
          /\ wait' = [wait EXCEPT ![d] = Backoff(Len(Record(tracker[d])))]
          /\ UNCHANGED marker

\* The plugin is instantiated and its task spawned.
LoadOk(d) ==
    /\ pc[d] = "loading"
    /\ pc' = [pc EXCEPT ![d] = "running"]
    /\ UNCHANGED <<outcome, tracker, wait, marker, crashes, starts>>

\* Bad manifest, unreadable wasm or failed instantiation: counts as a crash.
LoadFails(d) ==
    /\ pc[d] = "loading"
    /\ OnCrash(d)
    /\ UNCHANGED <<outcome, starts>>

\* join.await returns: Shutdown command, or a trap, a refused init, a panic.
TaskEnds(d, how) ==
    /\ pc[d] = "running"
    /\ pc' = [pc EXCEPT ![d] = "cleanup"]
    /\ outcome' = [outcome EXCEPT ![d] = how]
    /\ UNCHANGED <<tracker, wait, marker, crashes, starts>>

\* The MQTT registrations are flushed (MqttHost models that), then a clean
\* exit ends supervision and anything else is a crash.
CleanExit(d) ==
    /\ pc[d] = "cleanup"
    /\ outcome[d] = "clean"
    /\ pc' = [pc EXCEPT ![d] = "exited"]
    /\ UNCHANGED <<outcome, tracker, wait, marker, crashes, starts>>

CrashExit(d) ==
    /\ pc[d] = "cleanup"
    /\ outcome[d] = "crash"
    /\ OnCrash(d)
    /\ UNCHANGED <<outcome, starts>>

\* The sleep is over (it may last longer than asked).  The loop does not
\* look at the marker again.
WakeUp(d) ==
    /\ pc[d] = "backoff"
    /\ wait[d] = 0
    /\ StartLoad(d)
    /\ UNCHANGED <<outcome, tracker, wait, marker, crashes>>

-----------------------------------------------------------------------------
(***************************************************************************)
(* The environment: time, the operator, the host process.                  *)
(***************************************************************************)

\* What is left of on_crash's sleep runs down, and the records age.
Tick ==
    /\ tracker' = [d \in Dirs |-> Aged(tracker[d])]
    /\ wait' = [d \in Dirs |-> IF wait[d] = 0 THEN 0 ELSE wait[d] - 1]
    /\ crashes' = [d \in Dirs |-> Shifted(crashes[d])]
    /\ starts' = [d \in Dirs |-> Shifted(starts[d])]
    /\ UNCHANGED <<pc, outcome, marker>>

\* clear_dead_lettered, or `plugin install --force' removing the tree.
ClearMarker(d) ==
    /\ marker[d]
    /\ marker' = [marker EXCEPT ![d] = FALSE]
    /\ UNCHANGED <<pc, outcome, tracker, wait, crashes, starts>>

\* The host stops at any moment and starts again: the sweep enters supervise
\* for the directories that carry a manifest, with fresh trackers.
HostRestart ==
    /\ \E found \in SUBSET Dirs :
          pc' = [d \in Dirs |-> IF d \in found THEN "starting" ELSE "exited"]
    /\ tracker' = [d \in Dirs |-> <<>>]
    /\ wait' = [d \in Dirs |-> 0]
    /\ crashes' = [d \in Dirs |-> Nothing]
    /\ starts' = [d \in Dirs |-> Nothing]
    /\ UNCHANGED <<outcome, marker>>

Supervise(d) ==
    \/ Enter(d)
    \/ LoadOk(d)
    \/ LoadFails(d)
    \/ CleanExit(d)
    \/ CrashExit(d)
    \/ WakeUp(d)

Next ==
    \/ \E d \in Dirs : Supervise(d)
    \/ \E d \in Dirs, how \in {"clean", "crash"} : TaskEnds(d, how)
    \/ Tick
    \/ \E d \in Dirs : ClearMarker(d)
    \/ HostRestart

Spec == Init /\ [][Next]_vars

-----------------------------------------------------------------------------
(***************************************************************************)
(* Properties.                                                             *)
(***************************************************************************)

(***************************************************************************)
(* A dead-lettered directory is never supervised: while the marker is on   *)
(* disk its loop has not been entered or has ended, across host restarts,  *)
(* until the operator clears it (supervisor.rs, module comment and         *)
(* `supervise').                                                           *)
(***************************************************************************)
DeadLetteredStaysDown ==
    \A d \in Dirs : marker[d] => pc[d] \in {"starting", "exited"}

(***************************************************************************)
(* A plugin the loop still works on has fewer than MaxInWindow crashes on  *)
(* record: the threshold always stops it, whatever was pruned in between.  *)
(***************************************************************************)
BelowThreshold ==
    \A d \in Dirs :
        pc[d] \in {"loading", "running", "cleanup", "backoff"}
            => Len(tracker[d]) < MaxInWindow

(***************************************************************************)
(* `record' decides by the contract although it prunes lazily, only when a *)
(* crash happens: the plugin is given up exactly when the window ending    *)
(* now holds MaxInWindow crashes of this host lifetime, counted in a       *)
(* history that is never pruned by the code; otherwise the sleep is the    *)
(* exponential of that count.                                              *)
(***************************************************************************)
ContractBackoff(n) ==
    IF BackoffBase * PowerOfTwo[n - 1] > BackoffCap
    THEN BackoffCap
    ELSE BackoffBase * PowerOfTwo[n - 1]

CrashDecided(d) ==
    \/ pc[d] = "loading" /\ pc'[d] \in {"backoff", "exited"}
    \/ pc[d] = "cleanup" /\ outcome[d] = "crash" /\ pc'[d] \in {"backoff", "exited"}

DecidedByContract(d) ==
    crashes'[d] = Noted(crashes[d]) /\ CrashDecided(d) =>
        LET n == Len(crashes'[d])
        IN  /\ pc'[d] = "exited" <=> n >= MaxInWindow
            /\ pc'[d] = "backoff" => wait'[d] = ContractBackoff(n)

DecisionMatchesContract == [][\A d \in Dirs : DecidedByContract(d)]_vars

(***************************************************************************)
(* A crash loop cannot turn into a restart storm: in one host lifetime a   *)
(* window never sees more than MaxInWindow load attempts.                  *)
(***************************************************************************)
RestartStormBounded ==
    \A d \in Dirs : Len(starts[d]) <= MaxInWindow

=============================================================================
