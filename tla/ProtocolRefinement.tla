--------------------------- MODULE ProtocolRefinement ---------------------------
(* Protocol on an atomic storage adapter implements SettingsStore: all the    *)
(* intermediate storage calls are stutters, and commit() is the step that     *)
(* stores.                                                                    *)
EXTENDS Protocol

\* A reset brings every section but the custom one back to its default; what
\* becomes of the custom section is the custom handler's affair.
FreshPayload == { p \in Payload : \A s \in Section \ {"custom"} : p[s] = Defaults[s] }

\* A device that is off is as good as one that has just restarted.
LiveView == IF pc = "off" THEN Restored(durable) ELSE live

Settings == INSTANCE SettingsStore WITH
  Settings <- Payload, Fresh <- FreshPayload, Default <- Defaults,
  live <- LiveView, stored <- Restored(durable), dirty <- dirty

\* Every behaviour of Protocol on an atomic adapter, with a custom handler that
\* keeps its state on a factory reset and a sketch that never calls load(), is
\* one of SettingsStore.
RefinesSettingsStore == Settings!Spec
=============================================================================
