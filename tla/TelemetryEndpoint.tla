------------------------- MODULE TelemetryEndpoint -------------------------
(***************************************************************************)
(* POST /telemetry/batch as the phone, the browser extension and the       *)
(* desktop agent meet it: the body is validated against TelemetryBatchDto  *)
(* (backend/src/modules/telemetry/dto/telemetry-batch.dto.ts) before the   *)
(* handler sees it.  A body is the set of its fields.  Only operators.     *)
(*                                                                         *)
(* No client builds a body this backend takes: each proves that of its     *)
(* own.  The clients know nothing of it, and what they promise about their *)
(* queues must hold of an endpoint that does take what they send, too.     *)
(***************************************************************************)
CONSTANT
  Lenient  \* FALSE: the backend of this repository; TRUE: one that takes any body

ASSUME EndpointAssumption == Lenient \in BOOLEAN

Required == {"source", "deviceId", "batches"}
DtoFields == Required \cup {"signature", "offlineStart"}

(* ValidationPipe with whitelist and forbidNonWhitelisted: what is required*)
(* is there, and nothing the DTO does not name.                            *)
Validates(body) == Required \subseteq body /\ body \subseteq DtoFields

Takes(body) == Lenient \/ Validates(body)
=============================================================================
