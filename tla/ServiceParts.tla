---------------------------- MODULE ServiceParts ----------------------------
(***************************************************************************)
(* The parts of the service that work beside the orchestrator and the      *)
(* pipelines.  They share no state, so a behaviour is one of one of them,  *)
(* chosen by its initial state: what the code has in one process, and      *)
(* never relates, is not interleaved.                                      *)
(***************************************************************************)
EXTENDS AgentLab, FixVerification, ChatView, AgentReasoning, ProjectImport, RunTimeline,
        RuntimeTelemetry, SourceInspection, Discovery

CONSTANT Parts  \* the parts that are looked at

VARIABLE part

PartsInit ==
    /\ part \in Parts
    /\ SandboxInit /\ FixInit /\ ViewInit /\ ReasonInit /\ ImportInit /\ TimelineInit
    /\ TelemetryInit /\ InspectionInit /\ DiscoveryInit

PartsNext ==
    /\ UNCHANGED part
    /\ \/ /\ part = "sandbox"
          /\ SandboxNext
          /\ UNCHANGED <<fixVars, viewVars, reasonVars, importVars, timelineVars, telemetryVars, inspectionVars, discoveryVars>>
       \/ /\ part = "fix"
          /\ FixNext
          /\ UNCHANGED <<sandboxVars, viewVars, reasonVars, importVars, timelineVars, telemetryVars, inspectionVars, discoveryVars>>
       \/ /\ part = "view"
          /\ ViewNext
          /\ UNCHANGED <<sandboxVars, fixVars, reasonVars, importVars, timelineVars, telemetryVars, inspectionVars, discoveryVars>>
       \/ /\ part = "reasoning"
          /\ ReasonNext
          /\ UNCHANGED <<sandboxVars, fixVars, viewVars, importVars, timelineVars, telemetryVars, inspectionVars, discoveryVars>>
       \/ /\ part = "import"
          /\ ImportNext
          /\ UNCHANGED <<sandboxVars, fixVars, viewVars, reasonVars, timelineVars, telemetryVars, inspectionVars, discoveryVars>>
       \/ /\ part = "timeline"
          /\ TimelineNext
          /\ UNCHANGED <<sandboxVars, fixVars, viewVars, reasonVars, importVars, telemetryVars, inspectionVars, discoveryVars>>
       \/ /\ part = "telemetry"
          /\ TelemetryNext
          /\ UNCHANGED <<sandboxVars, fixVars, viewVars, reasonVars, importVars, timelineVars, inspectionVars, discoveryVars>>
       \/ /\ part = "inspection"
          /\ InspectionNext
          /\ UNCHANGED <<sandboxVars, fixVars, viewVars, reasonVars, importVars, timelineVars, telemetryVars, discoveryVars>>
       \/ /\ part = "discovery"
          /\ DiscoveryNext
          /\ UNCHANGED <<sandboxVars, fixVars, viewVars, reasonVars, importVars, timelineVars, telemetryVars, inspectionVars>>

partsVars == <<part, sandboxVars, fixVars, viewVars, reasonVars, importVars, timelineVars,
               telemetryVars, inspectionVars, discoveryVars>>

\* The fairness of a part is asked only of the behaviours that are its own.
PartsSpec ==
    /\ PartsInit
    /\ [][PartsNext]_partsVars
    /\ part = "sandbox" => SandboxFair
    /\ part = "view" => ViewFair

\* Every part is well typed.
PartsTypeOK ==
    SandboxTypeOK /\ FixTypeOK /\ ViewTypeOK /\ ReasonTypeOK /\ ImportTypeOK /\ TimelineTypeOK
       /\ TelemetryTypeOK /\ InspectionTypeOK /\ DiscoveryTypeOK
===========================================================================
