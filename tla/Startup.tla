------------------------------ MODULE Startup ------------------------------
(***************************************************************************)
(* main (src/src/main.rs) up to the moment the server accepts connections: *)
(* the environment is parsed (src/src/config.rs), systemd is asked whether *)
(* it is there (ensure_systemd_available), the rate limiter is built and   *)
(* the socket bound.  systemd and the port may come and go meanwhile.      *)
(*                                                                         *)
(* An environment variable is Unset, Undecodable when it is set to bytes   *)
(* that are not Unicode, or a text [padded, value]: whether it has white   *)
(* space around it, and what is left without.  The value of the token is   *)
(* its length, 0 if nothing is left; that of an address Blank, Host, or    *)
(* Malformed when no socket address begins with it; that of a number the   *)
(* number, or Malformed.                                                   *)
(*                                                                         *)
(* Startup and HttpService share no name, because HttpServiceProofs is     *)
(* about both.                                                             *)
(***************************************************************************)
EXTENDS Integers

CONSTANTS
    Unset, Undecodable, Blank, Host, Malformed, Loopback,
    Environments,   \* the environments: [token, addr, port, rate, burst]
    MinTokenLength, \* MIN_API_TOKEN_LENGTH
    MaxPort,        \* u16::MAX
    DefaultPort,
    MaxRate,        \* MAX_REQUESTS_PER_SECOND
    MaxBurst,       \* MAX_BURST
    DefaultRate, DefaultBurst

\* A setting that is a text.
Text(setting) == setting \notin {Unset, Undecodable}

\* What a setting may be, once it is read as it is described above.
ASSUME EnvironmentsAssumption ==
    \A e \in Environments :
        /\ Text(e.token) => e.token.value \in Nat
        /\ Text(e.addr) => e.addr.value \in {Blank, Host, Malformed}

\* Why the configuration is not accepted.
ConfigErrors ==
    {"MissingApiToken", "TokenTooShort", "InvalidPort", "InvalidRateLimitRequestsPerSecond",
     "InvalidRateLimitBurst", "InvalidSocket"}

\* Host stands for the addresses that are not the loopback address.
ASSUME NamesAssumption == Unset \notin ConfigErrors /\ Loopback \notin {Blank, Host}

ASSUME LimitsAssumption ==
    /\ MinTokenLength \in Nat
    /\ MaxRate \in Nat /\ DefaultRate \in 1 .. MaxRate
    /\ MaxBurst \in Nat /\ DefaultBurst \in 1 .. MaxBurst

VARIABLES
    env,     \* the environment, as the process got it
    phase,      \* "configure", "check", "build", "bind", "serving", "failed" or "panicked"
    config,  \* the validated configuration, Unset until there is one
    error,   \* why the process ended, Unset while it has not
    systemd, \* whether systemd answers
    seen,    \* systemd answered the process once
    port     \* who has the port: "free", "other" or "server"

bootVars == << env, phase, config, error, systemd, seen, port >>

BootInit ==
    /\ env \in Environments
    /\ phase = "configure"
    /\ config = Unset /\ error = Unset
    /\ systemd \in BOOLEAN /\ seen = FALSE
    /\ port \in {"free", "other"}

-----------------------------------------------------------------------------
\* RawConfig::from_env: what env::var has no text for is not set.
Raw ==
    [s \in {"token", "addr", "port", "rate", "burst"} |->
        IF Text(env[s]) THEN env[s] ELSE Unset]

\* Mutant of Bounded: a value one too large is accepted.
BoundedOneMore(raw, maximum) ==
    raw = Unset \/ (raw.value # Malformed /\ raw.value \in 1 .. maximum + 1)

\* parse_bounded_u32: surrounding white space is dropped first.
Bounded(raw, maximum) ==
    raw = Unset \/ (raw.value # Malformed /\ raw.value \in 1 .. maximum)

\* A port is parsed as it stands, white space included.
PortFits(raw) ==
    raw = Unset \/ (~raw.padded /\ raw.value # Malformed /\ raw.value \in 0 .. MaxPort)

\* Config::parse: the first setting that is not accepted, Unset if all are.
ConfigError ==
    IF Raw.token = Unset \/ Raw.token.value = 0 THEN "MissingApiToken"
    ELSE IF Raw.token.value < MinTokenLength THEN "TokenTooShort"
    ELSE IF ~PortFits(Raw.port) THEN "InvalidPort"
    ELSE IF ~Bounded(Raw.rate, MaxRate) THEN "InvalidRateLimitRequestsPerSecond"
    ELSE IF ~Bounded(Raw.burst, MaxBurst) THEN "InvalidRateLimitBurst"
    ELSE IF Raw.addr # Unset /\ Raw.addr.value = Malformed THEN "InvalidSocket"
    ELSE Unset

Or(raw, default) == IF raw = Unset THEN default ELSE raw.value

Fail(why) == phase' = "failed" /\ error' = why /\ UNCHANGED port

Configure ==
    /\ phase = "configure"
    /\ \/ /\ ConfigError # Unset
          /\ Fail(ConfigError)
          /\ UNCHANGED config
       \/ /\ ConfigError = Unset
          /\ config' = [addr |-> IF Or(Raw.addr, Blank) = Blank THEN Loopback
                                 ELSE Raw.addr.value,
                        port |-> Or(Raw.port, DefaultPort),
                        rate |-> Or(Raw.rate, DefaultRate),
                        burst |-> Or(Raw.burst, DefaultBurst)]
          /\ phase' = "check"
          /\ UNCHANGED << error, port >>
    /\ UNCHANGED << env, systemd, seen >>

\* Mutant of CheckSystemd: what it returns is not looked at.
CheckNothing ==
    /\ phase = "check" /\ phase' = "build" /\ seen' = systemd
    /\ UNCHANGED << env, config, error, systemd, port >>

\* ensure_systemd_available: booted with systemd, and the manager lists its units.
CheckSystemd ==
    /\ phase = "check"
    /\ \/ ~systemd /\ Fail("SystemdUnavailable") /\ UNCHANGED seen
       \/ systemd /\ phase' = "build" /\ seen' = TRUE /\ UNCHANGED << error, port >>
    /\ UNCHANGED << env, config, systemd >>

\* RateLimitPolicy::new: what rate_limit_policy expects to succeed.
PolicyFits == config.rate \in 1 .. MaxRate /\ config.burst \in 1 .. MaxBurst

\* rate_limit_policy panics on a policy that is refused.
Build ==
    /\ phase = "build"
    /\ phase' = IF PolicyFits THEN "bind" ELSE "panicked"
    /\ UNCHANGED << env, config, error, systemd, seen, port >>

\* Port 0 asks the kernel for any free one.
Bind ==
    /\ phase = "bind"
    /\ \/ /\ port = "other" /\ config.port # 0
          /\ Fail("AddressInUse")
       \/ /\ port = "free" \/ config.port = 0
          /\ phase' = "serving"
          /\ port' = IF config.port = 0 THEN port ELSE "server"
          /\ UNCHANGED error
    /\ UNCHANGED << env, config, systemd, seen >>

\* systemd stops or starts answering.
SystemdChanges ==
    /\ systemd' = ~systemd
    /\ UNCHANGED << env, phase, config, error, seen, port >>

\* Another process takes the configured port, or gives it up.
PortChanges ==
    /\ \/ port = "free" /\ port' = "other"
       \/ port = "other" /\ port' = "free"
    /\ UNCHANGED << env, phase, config, error, systemd, seen >>

BootNext ==
    \/ Configure \/ CheckSystemd \/ Build \/ Bind
    \/ SystemdChanges \/ PortChanges

BootSpec == BootInit /\ [][BootNext]_bootVars

-----------------------------------------------------------------------------
(***************************************************************************)
(* Properties.                                                             *)
(***************************************************************************)

\* Settings that Config::parse lets through never make the limiter's expect fail, for
\* which the parser's bounds and those of RateLimitPolicy::new have to agree
\* (src/src/config.rs:138-144), and the server serves with what was set: a default stands
\* only for a setting that is missing or has no text (src/src/config.rs:26-30), or a blank
\* address.
ServesAsAsked ==
    /\ phase # "panicked"
    /\ (phase = "serving") =>
          /\ Text(env.rate) => config.rate = env.rate.value
          /\ Text(env.burst) => config.burst = env.burst.value
          /\ Text(env.port) => config.port = env.port.value
          /\ (Text(env.addr) => env.addr.value = Blank) <=> (config.addr = Loopback)

\* Startup fails closed: nothing is bound before systemd has answered, a process that
\* failed is not bound to anything, and a text that makes no sense never ends in a server
\* (docs/requirements.md:30).
FailsClosed ==
    /\ (port = "server") => (seen /\ phase = "serving")
    /\ (phase = "serving") => (seen /\ error = Unset)
    /\ (phase = "serving") =>
          /\ Text(env.token) /\ env.token.value >= MinTokenLength
          /\ \A s \in {"port", "rate", "burst"} : Text(env[s]) => env[s].value # Malformed

=============================================================================
