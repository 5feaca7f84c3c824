------------------------------- MODULE Scans -------------------------------
(***************************************************************************)
(* What the server does for a request that nothing else takes part in: the *)
(* scan of a source, with the choice of what the LLM gets; the exchange    *)
(* with the LLM about a report or a file; the scan of dependencies.  They  *)
(* share nothing, so a behaviour is one of any kind.                       *)
(***************************************************************************)
EXTENDS StaticScan, DependencyScan, AgentDialogue

VARIABLE kind

vars == <<kind, scanVars, depVars, dialogueVars>>

\* A request of one kind has nothing that the others could look at.
Init ==
    /\ kind \in {"source", "dependencies", "dialogue"}
    /\ ScanInit /\ DepInit /\ DialogueInit
    /\ kind # "source" => /\ source = CHOOSE s \in Source : TRUE
                          /\ option = CHOOSE o \in ScanOption : TRUE
    /\ kind # "dependencies" => asked = CHOOSE a \in Request : TRUE
    /\ kind # "dialogue" => /\ ask = "patch"
                            /\ report = CHOOSE r \in Report : TRUE

Next ==
    \/ kind = "source" /\ ScanNext /\ UNCHANGED <<kind, depVars, dialogueVars>>
    \/ kind = "dependencies" /\ DepNext /\ UNCHANGED <<kind, scanVars, dialogueVars>>
    \/ kind = "dialogue" /\ DialogueNext /\ UNCHANGED <<kind, scanVars, depVars>>

Spec == Init /\ [][Next]_vars

=============================================================================
