---------------------------- MODULE MCLifecycle ----------------------------
(* Lifecycle for TLC: three options, and each kind of settings.json.         *)
EXTENDS Lifecycle

CONSTANTS unmodified, names, fsl

MCOptions   == <<unmodified, names, fsl>>
MCUserFiles ==
  {c \in Content : c.kind = "object" \/ c.value = None}
=============================================================================
