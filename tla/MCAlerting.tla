---------------------------- MODULE MCAlerting ------------------------------
(* A bounded instance of Alerting: two queries with two thresholds, one    *)
(* source, a recipient on a webhook channel and one on a polled channel.   *)
EXTENDS Alerting

CONSTANTS cpu, mem, r1, r2, telegram, matrix

\* A warning that is listed before the critical threshold, as
\* node_cpu_saturation lists them; the critical one is reached with equality.
MCLibrary ==
  [q \in Queries |-> <<[op |-> "gt", value |-> 1, severity |-> "warning"],
                       [op |-> "gte", value |-> 3, severity |-> "critical"]>>]
MCChannelOf == [r \in Recipients |-> IF r = r1 THEN telegram ELSE matrix]
MCIngress == [c \in {telegram, matrix} |->
                IF c = telegram THEN "webhook" ELSE "poller"]
MCRule == [anomaly |-> <<r1>>, approval |-> <<r2>>]
=============================================================================
