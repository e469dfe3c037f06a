-------------------------------- MODULE Ids ----------------------------------
(***************************************************************************)
(* Identifiers that more than one component of the gateway refers to.      *)
(***************************************************************************)
CONSTANTS Devices,     \* enrolled devices, internal/bridgehub Device.DeviceID
          None         \* the absence of an identifier

ASSUME IdsAssumption == None \notin Devices
=============================================================================
