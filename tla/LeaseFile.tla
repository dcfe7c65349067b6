------------------------------- MODULE LeaseFile -------------------------------
(***************************************************************************)
(* How a lease gets into its file and out of it: the worktree_lease tools  *)
(* of mcp.rs over the reader, the writer and the validator of lease.rs.    *)
(* WtServer has the steps in which the file is replaced.                   *)
(*                                                                         *)
(* A file is the record of its JSON fields; the fields that are only       *)
(* copied (worktree, test commands, authority, parent) are left out.       *)
(***************************************************************************)
EXTENDS LeaseRules

CONSTANTS
  Workers,                \* the worker tiers
  FirstChars, NextChars,  \* what a task id begins and goes on with
  MaxId,                  \* the length a task id may have
  NoBranch,               \* the empty string
  NotAnArray, NotAString, \* JSON values of a type that is not asked for
  NoComplaint,
  BadTimes,               \* times of the requests that no calendar has
  EmitRequests            \* the requests the properties are checked for

\* A request has strings where strings are read, and the times no calendar
\* has are those that lie outside its months, days or clock.
ASSUME FileAssumption ==
  /\ MaxId \in Nat
  /\ NoComplaint \notin {"unsupported_schema_version", "invalid_task_id", "invalid_timestamp"}
  /\ \A args \in EmitRequests :
       /\ args.task \in Seq(Chars)
       /\ args.expires = NoTime \/ args.expires \in Timestamps
       /\ args.expires \in BadTimes <=>
            /\ args.expires # NoTime
            /\ \/ args.expires.month \notin 1..12
               \/ args.expires.day \notin 1..DaysInMonth(args.expires.year, args.expires.month)
               \/ args.expires.hour > 23 \/ args.expires.minute > 59 \/ args.expires.second > 59
       /\ \A arg \in {args.allowed, args.forbidden} :
            arg = NotAnArray \/ arg \subseteq {NotAString} \cup Seq(Seq(Chars))

-----------------------------------------------------------------------------
(* Validation.                                                             *)

SchemaVersion == 1
LeaseFields == {"schema", "task", "worker", "branch", "allowed", "forbidden",
                "created", "expires"}

\* LeaseError, by its wire string.
Refuse(kind) == [error |-> kind]
IsError(result) == "error" \in DOMAIN result

ValidTaskId(id) ==
  /\ id # <<>> /\ Len(id) <= MaxId
  /\ id[1] \in FirstChars /\ \A i \in 2..Len(id) : id[i] \in NextChars

\* validate_self.
Complaint(lease) ==
  IF lease.schema # SchemaVersion THEN "unsupported_schema_version"
  ELSE IF ~ValidTaskId(lease.task) THEN "invalid_task_id"
  ELSE IF \/ RfcToUnix(lease.created) = NoTime
          \/ lease.expires # NoTime /\ RfcToUnix(lease.expires) = NoTime
  THEN "invalid_timestamp"
  ELSE NoComplaint

Validated(lease) == IF Complaint(lease) = NoComplaint THEN lease ELSE Refuse(Complaint(lease))

-----------------------------------------------------------------------------
(* The tools.                                                              *)

\* read_from_worktree: all fields, no others, and only expires_at optional.
ReadLease(file) ==
  IF \/ DOMAIN file \ LeaseFields # {}
     \/ "worker" \in DOMAIN file /\ file.worker \notin Workers
  THEN Refuse("invalid_json")
  ELSE IF ~(LeaseFields \ {"expires"} \subseteq DOMAIN file) THEN Refuse("missing_field")
  ELSE Validated([f \in LeaseFields |-> IF f \in DOMAIN file THEN file[f] ELSE NoTime])

LeaseGet(file) == ReadLease(file)

LeaseCheck(file, path) ==
  LET lease == ReadLease(file)
  IN IF IsError(lease) THEN lease ELSE [allowed |-> MatchesPath(lease, path)]

\* optional_string_array: an argument that is no array counts as an empty
\* one, and what is no string in it is dropped.
Strings(arg) == IF arg = NotAnArray THEN {} ELSE arg \ {NotAString}

\* unix_to_rfc3339.
UnixToRfc(moment) ==
  LET date == CivilFromDays(moment[1])
  IN [year |-> date.year, month |-> date.month, day |-> date.day,
      hour |-> moment[2] \div 3600, minute |-> (moment[2] % 3600) \div 60,
      second |-> moment[2] % 60, sign |-> 1, offHour |-> 0, offMinute |-> 0]

\* into_lease, for a worker the tool knows.
IntoLease(args, now) ==
  IF args.task = <<>> \/ args.branch = NoBranch THEN Refuse("missing_field")
  ELSE Validated(
    [schema |-> SchemaVersion, task |-> args.task, worker |-> args.worker,
     branch |-> args.branch, allowed |-> Strings(args.allowed),
     forbidden |-> Strings(args.forbidden), created |-> UnixToRfc(now),
     expires |-> args.expires])

\* What is written, or the error.
LeaseEmit(args, now) ==
  IF args.worker \notin Workers THEN Refuse("invalid_worker") ELSE IntoLease(args, now)

-----------------------------------------------------------------------------
(* What they should mean.                                                  *)

Proper(args) ==
  /\ args.worker \in Workers /\ args.branch # NoBranch /\ args.expires \notin BadTimes
  /\ \E n \in 1..MaxId, c \in FirstChars :
       \E rest \in [1..n - 1 -> NextChars] : args.task = <<c>> \o rest

Given(arg) == IF arg = NotAnArray THEN {} ELSE {p \in arg : p # NotAString}

Permits(args, path) ==
  LET covered(patterns) == \E p \in patterns : PathCovered(p, path)
  IN path # EmptyPath /\ covered(Given(args.allowed)) /\ ~covered(Given(args.forbidden))

\* A proper request is written at any time of any day, stamped with that time,
\* and get and check then make of the file what was asked for; a file that
\* lacks a field permits nothing.
EmitMeans ==
  \A args \in EmitRequests, d \in {e \in Dates : e.month \in {2, 12}}, secs \in {0, ADay - 1} :
    LET now == <<DayNumber(d), secs>>
        file == LeaseEmit(args, now)
    IN /\ IsError(file) <=> ~Proper(args)
       /\ ~IsError(file) => LeaseGet(file) = file /\ RfcToUnix(file.created) = now

CheckMeans ==
  \A args \in EmitRequests :
    LET file == LeaseEmit(args, <<0, 0>>)
        without(f) == [g \in DOMAIN file \ {f} |-> file[g]]
    IN ~IsError(file) => \A path \in Paths :
         /\ LeaseCheck(file, path) = [allowed |-> Permits(args, path)]
         /\ \A f \in LeaseFields \ {"expires"} : IsError(LeaseCheck(without(f), path))
==============================================================================
