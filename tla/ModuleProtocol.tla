---------------------------- MODULE ModuleProtocol ----------------------------
(***************************************************************************)
(* The AMOD envelope of server-go/bus/module_protocol.go: the header that  *)
(* travels in front of every fragment of a stage request or result.  A     *)
(* payload is abstracted to the facts the decoder looks at: whether its    *)
(* fixed prefix (length, magic, version, header length) is the expected    *)
(* one, its header fields, and how many body units really follow.          *)
(***************************************************************************)
EXTENDS Naturals

CONSTANT ModuleMessageMaxBody   \* longest body, in units of the model

ASSUME MaxBodyAssumption == ModuleMessageMaxBody \in Nat

ModuleStatus ==
  {"OK", "CapabilityAbsent", "Cancelled", "DeadlineExceeded", "InvalidRequest",
   "Internal"}

ModuleOperation == {"Invoke", "Result"}

(* validModuleStatus of the runtime: any other number a handler returns. *)
validModuleStatus(status) == status \in ModuleStatus

(* ModuleMessage.valid *)
valid(m) ==
  /\ m.op \in ModuleOperation
  /\ m.status \in ModuleStatus
  /\ m.op = "Invoke" => m.status = "OK"
  /\ m.stage # 0
  /\ m.flags = 0
  /\ m.bodyLen <= ModuleMessageMaxBody

(* DecodeModuleMessage succeeds.  The prefix is checked first, the body    *)
(* length against the bytes that are there last.                           *)
DecodeModuleMessage(m) ==
  /\ m.prefixOK
  /\ valid(m)
  /\ m.bodyLen <= m.avail

(* DeadlineExpired: zero means no deadline. *)
DeadlineExpired(deadline, now) == deadline # 0 /\ now >= deadline

(* What runHandler and replyModuleResult both do to an outcome: a status   *)
(* outside the protocol or an oversized body becomes Internal, and a       *)
(* result that is not OK never carries a body.                             *)
NormalStatus(status, len) ==
  IF ~validModuleStatus(status) \/ len > ModuleMessageMaxBody
  THEN "Internal" ELSE status

NormalLen(status, len) ==
  IF NormalStatus(status, len) = "OK" THEN len ELSE 0
===============================================================================
