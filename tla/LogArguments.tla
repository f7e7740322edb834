---------------------------- MODULE LogArguments ----------------------------
(***************************************************************************)
(* What normalize_logs_query and build_log_query                           *)
(* (src/src/domain/tools/logs.rs) accept of the arguments of list_logs:    *)
(* [start, end, large, limit, order, fields, group, others, grep], None    *)
(* for one that is missing.  `fields` is a sequence of field names;        *)
(* `others`, the four that follow the order, are checked one by one and    *)
(* are told apart by the first of them that is Bad.  A grep is Bad when it *)
(* is a pattern between slashes that does not compile; nothing is said of  *)
(* it here, where the text is only trimmed.                                *)
(*                                                                         *)
(* Times are in ticks, finer than the milliseconds they are printed in.    *)
(***************************************************************************)
EXTENDS Integers, FiniteSets, SequencesExt

CONSTANTS
    None,         \* Option::None
    Mistyped,     \* an argument of another JSON type than the one expected
    Bad,          \* an argument that is not accepted
    Milli,        \* ticks of a millisecond
    Week,         \* seven days, in ticks
    MaxLimit,     \* MAX_LOG_LIMIT
    DefaultLimit, \* DEFAULT_LOG_LIMIT
    Fields        \* the names of the fields of an entry

\* Mutant of Printed: the time is rounded up.
PrintedUp(time) == ((time + Milli - 1) \div Milli) * Milli

\* to_rfc3339_opts(Millis): what is finer than a millisecond is cut off.
Printed(time) == (time \div Milli) * Milli

\* normalize_fields: at least one, each once, and only known ones.
FieldsFit(fields) ==
    \/ fields = None
    \/ fields # << >> /\ IsInjective(fields) /\ ToSet(fields) \subseteq Fields

LimitOf(args) == IF args.limit = None THEN DefaultLimit ELSE args.limit

TooLarge(args) == args.large # TRUE /\ args.end - args.start > Week

\* The code of the first check that fails, None if all pass.
Refusal(args) ==
    IF \E field \in DOMAIN args : args[field] = Mistyped THEN "invalid_params"
    ELSE IF ~FieldsFit(args.fields) THEN "invalid_fields"
    ELSE IF args.group = Bad THEN "invalid_group_by"
    ELSE IF Bad \in {args.start, args.end} THEN "invalid_utc_time"
    ELSE IF None \in {args.start, args.end} THEN "missing_time_range"
    ELSE IF args.start >= args.end THEN "invalid_time_range"
    ELSE IF TooLarge(args) THEN "time_range_too_large"
    ELSE IF LimitOf(args) = 0 \/ LimitOf(args) > MaxLimit THEN "invalid_limit"
    ELSE IF args.order = Bad THEN "invalid_order"
    ELSE IF args.others = "exclude_units" THEN "invalid_unit"
    ELSE IF args.others = "scope" THEN "invalid_scope"
    ELSE IF args.others = "priority" THEN "invalid_priority"
    ELSE IF args.others = "unit" THEN "invalid_unit"
    ELSE None

\* maximum_start_utc, which the client is told with time_range_too_large.
MaximumStart(args) == Printed(args.end - Week)

=============================================================================
