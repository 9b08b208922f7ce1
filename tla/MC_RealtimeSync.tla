-------------------------- MODULE MC_RealtimeSync --------------------------
(* Model-checking instance of RealtimeSync: two tokens, two calls, one     *)
(* channel, one notification, and a table with one frame of every kind the *)
(* dispatcher tells apart.                                                 *)
EXTENDS RealtimeSync, TLC

CONSTANTS t1, t2, c1, c2, h1, n1

MCTokens == {t1, t2}
MCCallIds == {c1, c2}
MCCallStates == {"ringing", "answered", "ended"}
MCChannelIds == {h1}
MCChannelStates == {"up", "down"}
MCNotifIds == {n1}

Has(v) == [present |-> TRUE, val |-> v]
Lacks(v) == [present |-> FALSE, val |-> v]

\* An unread notification; initial_data carries three, one more than Cap.
Unread == [id |-> n1, read |-> FALSE]

MCFrames ==
  << [type |-> "call_update", kind |-> "one", val |-> [id |-> c1, st |-> "answered"]],
     [type |-> "call_update", kind |-> "one", val |-> [id |-> c1, st |-> "ended"]],
     [type |-> "call_update", kind |-> "list", val |-> <<[id |-> c2, st |-> "ringing"]>>],
     [type |-> "call_update", kind |-> "null", val |-> Null],
     [type |-> "channel_update", kind |-> "one", val |-> [id |-> h1, st |-> "up"]],
     [type |-> "channel_update", kind |-> "one", val |-> [id |-> h1, st |-> "down"]],
     [type |-> "notification", kind |-> "one", val |-> Unread],
     [type |-> "system_metrics", kind |-> "one", val |-> "m1"],
     [type |-> "dashboard_stats", kind |-> "one", val |-> "s1"],
     [type |-> "initial_data", kind |-> "one",
      val |-> [calls |-> Has(<<[id |-> c1, st |-> "ringing"]>>),
               channels |-> Lacks(<<>>), metrics |-> Lacks(NoValue),
               stats |-> Lacks(NoValue), notifications |-> Has(<<Unread, Unread, Unread>>)]],
     [type |-> "initial_data", kind |-> "null", val |-> Null],
     [type |-> "trunk_update", kind |-> "one", val |-> Null],
     [type |-> "garbage", kind |-> "garbage", val |-> Null] >>

=============================================================================
