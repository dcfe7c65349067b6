-------------------------------- MODULE WtRules --------------------------------
(***************************************************************************)
(* wtpool's server with the rules it applies and the summary it gives:     *)
(* what must be so whatever state the server is in, looked at in the first *)
(* one.                                                                    *)
(***************************************************************************)
EXTENDS WtServer, LeaseFile, AgentScan

(* Globs mean what lease.rs says of them (29-41): "*" any run of the        *)
(* characters of a segment, "**" any number of whole segments, also none,   *)
(* any other character itself.  The hand-written calendar of lease.rs and   *)
(* agents.rs counts days, and a lease expires at its moment whatever offset *)
(* it is written with (lease.rs 384-398, 512-588).  Whatever emit writes is *)
(* what was asked for, reads back as written, and is checked as it says     *)
(* (lease.rs 706-730; mcp.rs 516-603).                                      *)
LeaseRulesMean == Init => GlobsMean /\ DaysCount /\ ExpiryMeans /\ EmitMeans /\ CheckMeans

(* agent_inflight_summary loses no task, calls a worktree stale only when   *)
(* none of the files of its agents was written within the cutoff, and puts  *)
(* an agent where its transcripts, its heartbeat or its name say, in this   *)
(* order, whichever way the directories are read (agents.rs 52-261).        *)
AgentsSeen == Init => SummaryMeans
==============================================================================
