---------------------------- MODULE DebugCommand ----------------------------
(***************************************************************************)
(* The tamara_debug command (src/tamara_debug.cpp), called any number of   *)
(* times.  Its task mkvoter makes a module with one voter and nothing      *)
(* else; what it does inside VoterBuilder are the steps of that module,    *)
(* here with a builder per call.                                           *)
(*                                                                         *)
(* countAll, percentageVoter and pause only print.  A Yosys that log_error *)
(* ended takes no further command.                                         *)
(***************************************************************************)
EXTENDS VoterBuilder

CONSTANT MaxVoters  \* bound: modules made in a process

ASSUME MaxVoters \in Nat

VARIABLES
    task,       \* the task at hand, or the last one
    outcome,    \* "running", or how it ended
    bits,       \* mkvoter's argument
    voters      \* modules made so far: width of the voter, what err covers

taskVars == <<task, outcome, bits, voters>>

(* What help() lists.                                                      *)
Listed == {"mkvoter", "replicateNot", "mkMultiVoter", "countAll",
           "percentageVoter", "pause"}

Printing == {"countAll", "percentageVoter", "pause"}

Ready == outcome \in {"none", "completed", "unhandled"}

InitDebug ==
    /\ Init
    /\ task = "none" /\ outcome = "none" /\ bits = 0 /\ voters = <<>>

(* No task: log_error.                                                     *)
WithoutTask ==
    /\ Ready
    /\ task' = "none" /\ outcome' = "error"
    /\ UNCHANGED <<vars, bits, voters>>

PrintCounts ==
    /\ Ready
    /\ task' \in Printing /\ outcome' = "completed"
    /\ UNCHANGED <<vars, bits, voters>>

(* Everything else is warned about, and help() is shown.                   *)
Unhandled ==
    /\ Ready
    /\ task' \in (Listed \cup {"other"}) \ (Printing \cup {"mkvoter", "replicateNot"})
    /\ outcome' = "unhandled"
    /\ UNCHANGED <<vars, bits, voters>>

(* Without a top module or a NOT gate in it, log_error; with one, the gate *)
(* is replicated, but LogicCone then refuses a cell that is no flip-flop.  *)
ReplicateNot ==
    /\ Ready
    /\ task' = "replicateNot" /\ outcome' = "error"
    /\ UNCHANGED <<vars, bits, voters>>

(* Mutant: one builder for all calls.                                      *)
MakeVoterSameBuilder ==
    /\ Ready /\ Len(voters) < MaxVoters
    /\ task' = "mkvoter" /\ outcome' = "running"
    /\ bits' \in 1..MaxWidth
    /\ stage' = "ready" /\ widths' = <<>> /\ sink' = Unset
    /\ UNCHANGED <<bit, size, intermediate, reductions, prev, i, copies, voters>>

(* mkvoter <bits>: a module with its ports, and a VoterBuilder for it.     *)
MakeVoter ==
    /\ Ready /\ Len(voters) < MaxVoters
    /\ task' = "mkvoter" /\ outcome' = "running"
    /\ bits' \in 1..MaxWidth
    /\ stage' = "ready" /\ widths' = <<>> /\ bit' = 0 /\ size' = 0
    /\ intermediate' = {} /\ reductions' = <<>> /\ prev' = Unset /\ i' = 0
    /\ sink' = Unset /\ copies' = <<>>
    /\ UNCHANGED voters

(* build(a, b, c, out), and when it is done finalise(err), with err of one *)
(* bit.                                                                    *)
BuildVoter ==
    /\ outcome = "running" /\ widths = <<>>
    /\ StartBuild(bits, bits, bits, bits)
    /\ UNCHANGED taskVars

FinaliseVoter ==
    /\ outcome = "running" /\ widths # <<>>
    /\ StartFinalise(1)
    /\ UNCHANGED taskVars

InBuilder == outcome = "running" /\ Continue /\ UNCHANGED taskVars

MadeVoter ==
    /\ outcome = "running" /\ stage = "linked"
    /\ voters' = Append(voters, [bits |-> bits, sink |-> sink])
    /\ outcome' = "completed"
    /\ UNCHANGED <<vars, task, bits>>

MakesVoter == BuildVoter \/ FinaliseVoter \/ InBuilder \/ MadeVoter

NextDebug ==
    \/ WithoutTask \/ PrintCounts \/ Unhandled \/ ReplicateNot \/ MakeVoter
    \/ MakesVoter

SpecDebug == InitDebug /\ [][NextDebug]_<<vars, taskVars>>

-----------------------------------------------------------------------------

(* A generated voter reports on each of its bits and, however many were    *)
(* made before, on those of no other: builders share nothing.              *)
VotersComplete ==
    \A n \in DOMAIN voters :
        voters[n].sink = {<<1, b>> : b \in 0..(voters[n].bits - 1)}

(* help() lists the "Current tasks"; each of them, in a design that has    *)
(* what it needs, should be carried out.                                   *)
ListedTasksComplete ==
    task \in Listed /\ outcome # "running" => outcome = "completed"
=============================================================================
