--------------------------- MODULE ArgvRedaction ---------------------------
(***************************************************************************)
(* sanitize_argv (src/src/podman.rs): the command line and the health      *)
(* check of a container, argument by argument, with the values of flags    *)
(* and assignments that sound like credentials replaced.                   *)
(*                                                                         *)
(* An argument that is no string is None.  A string is                     *)
(* [dash, space, named, value]: whether it starts with "-" and has white   *)
(* space; whether what stands before the first "=" (all of it, if there is *)
(* none) sounds like a credential; and what follows the "=", None if there *)
(* is none: "plain", or "word" when that sounds like one.                  *)
(***************************************************************************)
EXTENDS Integers, Sequences

CONSTANTS
    None,      \* a value that is not a string, and the missing value of a string
    Redacted,  \* "[REDACTED]"
    Arguments, \* the arguments that occur
    MaxLength  \* bound: arguments of one command

VARIABLES
    args,       \* the array podman printed
    out,        \* the array the server answers with, as far as it got
    redactNext  \* redact_next: the last argument was a flag whose value comes next

Arrays == UNION {[1 .. n -> Arguments] : n \in 0 .. MaxLength}

Init == out = << >> /\ redactNext = FALSE

\* is_sensitive_argument_name of the whole argument: the word may stand after the "=" too.
Sensitive(arg) == arg.named \/ arg.value = "word"

\* An assignment to a sensitive name.
Assigns(arg) == arg.value # None /\ arg.named

\* Any other sensitive argument that looks like a flag has its value in the next one.
IsFlag(arg) == Sensitive(arg) /\ ~Assigns(arg) /\ arg.dash /\ ~arg.space

\* What is shown of a string that is not itself a flag's value.
Shown(arg) ==
    IF Assigns(arg) THEN [arg EXCEPT !.value = Redacted]
    ELSE IF Sensitive(arg) /\ ~IsFlag(arg) THEN Redacted
    ELSE arg

\* Mutant of Step: assignments are looked at before the pending value.
AssignFirstStep ==
    /\ Len(out) < Len(args)
    /\ LET arg == args[Len(out) + 1]
       IN  IF arg = None
           THEN out' = Append(out, None) /\ redactNext' = FALSE
           ELSE /\ out' = Append(out, IF redactNext /\ arg.value = None
                                      THEN Redacted ELSE Shown(arg))
                /\ redactNext' = (~redactNext /\ IsFlag(arg))
    /\ args' = args

\* One argument.  The value of a flag is replaced whatever it looks like, and is never
\* itself taken for a flag.
Step ==
    /\ Len(out) < Len(args)
    /\ LET arg == args[Len(out) + 1]
       IN  IF arg = None
           THEN out' = Append(out, None) /\ redactNext' = FALSE
           ELSE /\ out' = Append(out, IF redactNext THEN Redacted ELSE Shown(arg))
                /\ redactNext' = (~redactNext /\ IsFlag(arg))
    /\ args' = args

-----------------------------------------------------------------------------
\* Seen by the reader of the answer: no string after a sensitive flag is shown, and no
\* sensitive name is shown with the value assigned to it.
ValuesHidden ==
    \A i \in DOMAIN out :
        (out[i] \notin {None, Redacted}) =>
            /\ (out[i].value # None /\ out[i].named) => (out[i].value = Redacted)
            /\ (IsFlag(out[i]) /\ i < Len(out)) => (out[i + 1] \in {None, Redacted})

\* What is safe stays as it is, where it is: an argument is replaced only for its own sake
\* or for that of the string right before it.
SafeKept ==
    \A i \in DOMAIN out :
        (/\ args[i] # None
         /\ ~Sensitive(args[i])
         /\ (i = 1) \/ (args[i - 1] = None) \/ ~IsFlag(args[i - 1]))
        => (out[i] = args[i])

=============================================================================
