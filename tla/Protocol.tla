------------------------------ MODULE Protocol ------------------------------
(***************************************************************************)
(* The messages of common/protobuf/matrixserver.proto, as far as the       *)
(* server and the application library tell them apart.  type is            *)
(* messageType, id is appID (0 when unset), level the brightness in the    *)
(* server config a frame carries (0: no config).  Statuses are left out:   *)
(* the only one that is ever looked at is the success of registerApp, and  *)
(* the server sends no other.  joystickData stands for imuData and         *)
(* audioDataMessage too, which travel the same way.                        *)
(***************************************************************************)
EXTENDS Integers

CONSTANTS
  MaxRegs,      \* bound: registrations in a behaviour
  MaxLevel      \* bound: brightness levels

ASSUME ProtocolAssumption == MaxRegs \in Nat /\ MaxLevel \in Nat

Regs == 1..MaxRegs
Ids == 0..MaxRegs
Levels == 0..MaxLevel

ClientTypes ==
  {"registerApp", "getServerInfo", "requestScreenAccess", "setScreenFrame",
   "appAlive", "appPause", "appResume", "appKill", "appParamSchema",
   "appParamValues"}

ServerTypes ==
  {"registerApp", "getServerInfo", "setScreenFrame", "appPause", "appResume",
   "appKill", "setAppParam", "getAppParams", "joystickData"}

Message == [type : ClientTypes \cup ServerTypes, id : Ids, level : Levels]

Msg(type, id) == [type |-> type, id |-> id, level |-> 0]

=============================================================================
