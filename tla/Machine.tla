------------------------------- MODULE Machine -------------------------------
(* The CLI on its machine: its connection to the platform, the list it shares *)
(* with other CLIs, and the boards of its project. They share no state, so    *)
(* each behaviour is one of `part`.                                           *)
EXTENDS PlatformConnection, Instances, PlanBoards

VARIABLE part

machineVars == <<part, vars, instanceVars, boardVars>>

\* A CLI that is closing: nothing is left to do for the platform.
MachineInit ==
  /\ InstancesInit /\ BoardsInit
  /\ \/ part = "platform" /\ Init /\ boardStatus[1] = "draft"
     \/ /\ part \in {"instances", "boards"}
        /\ state = [s \in Sockets |-> "closed"] /\ paired = {} /\ ws = None
        /\ isConnected = FALSE /\ everConnected = FALSE
        /\ isIntentionallyClosed = TRUE /\ protocolUpgradeRequired = FALSE
        /\ reconnectTimeout = "none" /\ reconnectAttempts = 0 /\ gaveUp = "no"
        /\ heartbeatInterval = FALSE /\ beats = 0 /\ missedPongs = 0
        /\ relay = None /\ connected = {} /\ pending = <<>> /\ handled = <<>> /\ sent = 0
        /\ part = "instances" => boardStatus[1] = "draft"

MachineNext ==
  /\ \/ part = "platform" /\ Next
     \/ part # "platform" /\ UNCHANGED vars
  /\ \/ part = "instances" /\ InstancesNext
     \/ part # "instances" /\ UNCHANGED instanceVars
  /\ \/ part = "boards" /\ BoardsNext
     \/ part # "boards" /\ UNCHANGED boardVars
  /\ UNCHANGED part

MachineSpec == MachineInit /\ [][MachineNext]_machineVars /\ Fairness /\ InstancesFairness

=============================================================================
