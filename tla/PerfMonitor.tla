----------------------------- MODULE PerfMonitor ---------------------------
(***************************************************************************)
(* Common/perfmon.h: a group of hardware counters led by the first one.    *)
(* The module holds the counters and what each of the calls does to them;  *)
(* a caller decides on their order.  A value is the number of the run it   *)
(* was counted in.                                                         *)
(***************************************************************************)
EXTENDS Integers

CONSTANT Events      (* PERF_NUM_EVENTS; event 1 leads the group           *)

VARIABLES
  fds,               (* fds[e]: "zero" as the program starts, "open",      *)
                     (* "failed" (-1) or "closed"                          *)
  enabled,           (* whether the group counts                           *)
  value              (* value[e]: the run event e was last read after      *)

InitCounters ==
  /\ fds = [e \in Events |-> "zero"]
  /\ enabled = FALSE
  /\ value = [e \in Events |-> 0]

\* open_perf_monitoring: no call is checked; without its leader an event is
\* opened outside the group and never enabled.
Open ==
  /\ fds' \in [Events -> {"open", "failed"}]
  /\ value' = [e \in Events |-> 0]
  /\ UNCHANGED enabled

Leading == fds[1] = "open"

Start == enabled' = Leading /\ UNCHANGED <<fds, value>>

\* The read returns the members of the group, and each value is stored with
\* the event whose id it carries.
Stop(run) ==
  /\ enabled' = FALSE
  /\ value' = [e \in Events |->
                 IF Leading /\ fds[e] = "open" THEN run ELSE value[e]]
  /\ UNCHANGED fds

\* close_perf_monitoring closes all, 0 and -1 included.
Close ==
  /\ fds' = [e \in Events |-> "closed"]
  /\ enabled' = FALSE
  /\ UNCHANGED value

CountersOK ==
  /\ fds \in [Events -> {"zero", "open", "failed", "closed"}]
  /\ enabled \in BOOLEAN
  /\ value \in [Events -> Nat]

=============================================================================
