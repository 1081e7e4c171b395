---------------------------- MODULE AnalyzeOnce ----------------------------
(***************************************************************************)
(* What an analysis of TypeScript files promises: every input file that a  *)
(* reachable tsconfig.json contains is analyzed exactly once, unless the   *)
(* analysis is aborted.  How the files are found is left to the            *)
(* implementation.                                                         *)
(***************************************************************************)
EXTENDS Naturals

CONSTANT Files

VARIABLES
    phase,      \* "idle", "running" or "aborted"
    wanted,     \* the files to analyze
    analyses    \* how often each file has been analyzed

vars == <<phase, wanted, analyses>>

Nothing == [f \in Files |-> 0]

Init ==
    /\ phase = "idle"
    /\ wanted = {}
    /\ analyses = Nothing

Begin ==
    /\ phase = "idle"
    /\ phase' = "running"
    /\ wanted' \in SUBSET Files
    /\ analyses' = Nothing

Analyze(f) ==
    /\ phase = "running"
    /\ f \in wanted
    /\ analyses[f] = 0
    /\ analyses' = [analyses EXCEPT ![f] = 1]
    /\ UNCHANGED <<phase, wanted>>

\* The analysis reports success, which it may only do when nothing is missing.
Succeed ==
    /\ phase = "running"
    /\ \A f \in wanted : analyses[f] = 1
    /\ phase' = "idle"
    /\ wanted' = {}
    /\ analyses' = Nothing

Abort ==
    /\ phase = "running"
    /\ phase' = "aborted"
    /\ wanted' = {}
    /\ analyses' = Nothing

\* The sensor swallowed the failure: the next module of the project is analyzed.
Recover ==
    /\ phase = "aborted"
    /\ phase' = "idle"
    /\ UNCHANGED <<wanted, analyses>>

Next == Begin \/ (\E f \in Files : Analyze(f)) \/ Succeed \/ Abort \/ Recover

Spec == Init /\ [][Next]_vars

=============================================================================
