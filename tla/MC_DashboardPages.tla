--------------------------- MODULE MC_DashboardPages --------------------------
(* Model-checking instance of DashboardPages: three CDRs between two       *)
(* extensions with durations on the boundaries of formatDuration, the      *)
(* calls page's two keys, and two extension ids.                           *)
EXTENDS DashboardPages

CONSTANTS e1, e2

MCFilterValues == {"", "1001", "1002"}
MCEditableFields == {"source", "destination"}
\* Durations on the boundaries of formatDuration: under a minute, exactly
\* one hour, and one hour one minute one second.
MCRecords ==
  { [id |-> 1, source |-> "1001", destination |-> "1002", duration |-> 3661],
    [id |-> 2, source |-> "1002", destination |-> "1001", duration |-> 59],
    [id |-> 3, source |-> "1001", destination |-> "1001", duration |-> 3600] }

MCKeys == {"active-calls", "active-channels"}

MCExtensionIds == {e1, e2}
\* ExtensionsPage's ExtensionsListKey and ExtensionHookKeys, written out:
\* the instance Ext takes ListKey and HookKeys from these definitions.
MCListKey == "extensions:" \o "/extensions?" \o "search="
MCHookKeys ==
  {"extensions:*"} \cup {"extension:" \o ToString(i) : i \in MCExtensionIds}

=============================================================================
