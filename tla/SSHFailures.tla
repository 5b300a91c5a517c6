----------------------------- MODULE SSHFailures -----------------------------
(***************************************************************************)
(* How a failure of a connection becomes a code, the code a phase, and the *)
(* phase a report to the connection gate.  Pure operators: what the        *)
(* libraries raise is a kind and, where the code searches the message, the *)
(* set of marker groups found in it.                                       *)
(***************************************************************************)
EXTENDS Naturals, Sequences

Phases == {"tcp_connection", "ssh_negotiation", "host_key_verification",
           "authentication", "pty_creation", "terminal_io"}

\* The phase FAILURES gives a code; "device_host_key_indeterminate" is the
\* entry whose own code is device_connection_failed.
PhaseOf(code) ==
  CASE code \in {"device_connection_failed", "device_connection_timeout",
                 "device_connection_refused", "device_connection_lost",
                 "device_name_resolution_failed", "configuration_error"} -> "tcp_connection"
    [] code = "device_authentication_failed"                  -> "authentication"
    [] code \in {"device_host_key_indeterminate", "device_host_key_unknown",
                 "device_host_key_changed"}                   -> "host_key_verification"
    [] code = "legacy_ssh_negotiation_failed"                 -> "ssh_negotiation"
    [] code \in {"terminal_pty_rejected", "terminal_shell_rejected"} -> "pty_creation"
    [] code \in {"terminal_transport_failed", "device_command_rejected",
                 "terminal_idle_timeout", "terminal_session_expired",
                 "terminal_input_limit", "terminal_output_limit",
                 "invalid_terminal_message", "invalid_terminal_size"} -> "terminal_io"
    [] OTHER                                                  -> "authorization"

\* What the gate is told of a credential when a connection fails in a phase.
ReportOf(phase) ==
  CASE phase = "authentication" -> "failed"
    [] phase \in {"pty_creation", "terminal_io"} -> "succeeded"
    [] OTHER -> "none"

-----------------------------------------------------------------------------
(* The terminal's own connection                                           *)

TelnetExceptions == {"timeout", "refused", "unresolved", "os error"}
SSHExceptions ==
  TelnetExceptions \cup {"permission denied", "key not trusted", "key changed",
                         "key not known", "key exchange", "protocol", "lost"}

TelnetFailure(exc) ==
  CASE exc = "timeout"    -> "device_connection_timeout"
    [] exc = "refused"    -> "device_connection_refused"
    [] exc = "unresolved" -> "device_name_resolution_failed"
    [] exc = "os error"   -> "device_connection_failed"

ConnectionFailure(exc) ==
  CASE exc = "permission denied"                 -> "device_authentication_failed"
    [] exc \in {"key not trusted", "key changed"} -> "device_host_key_changed"
    [] exc = "key not known"                     -> "device_host_key_unknown"
    [] exc \in {"key exchange", "protocol"}      -> "legacy_ssh_negotiation_failed"
    [] exc = "lost"                              -> "device_connection_lost"
    [] OTHER                                     -> TelnetFailure(exc)

-----------------------------------------------------------------------------
(* A driver's connection: translate_ssh_error                              *)

\* The groups of markers in the order in which they are looked for, and the
\* failure that the first one found stands for.
Markers == <<
  <<"negotiation",   "legacy_ssh_negotiation_failed">>,
  <<"key changed",   "device_host_key_changed">>,
  <<"key unknown",   "device_host_key_unknown">>,
  <<"key",           "device_host_key_indeterminate">>,
  <<"timeout",       "device_connection_timeout">>,
  <<"configuration", "configuration_error">>,
  <<"refused",       "device_connection_refused">>,
  <<"unresolved",    "device_name_resolution_failed">>,
  <<"lost",          "device_connection_lost">>,
  <<"tcp",           "device_connection_failed">> >>

MarkerGroups == {Markers[i][1] : i \in DOMAIN Markers}

FirstMarked(found) ==
  LET hits == {i \in DOMAIN Markers : Markers[i][1] \in found}
  IN  IF hits = {} THEN "device_authentication_failed"
      ELSE Markers[CHOOSE i \in hits : \A j \in hits : i <= j][2]

\* What the driver may catch: the application's own errors by their code, or
\* one of Scrapli's, with the markers in its message.
ConnectionCodes == {"device_connection_failed", "device_connection_refused",
                    "device_connection_lost", "device_name_resolution_failed",
                    "device_host_key_indeterminate", "device_host_key_unknown",
                    "device_host_key_changed", "legacy_ssh_negotiation_failed",
                    "terminal_pty_rejected", "terminal_transport_failed"}
AppCodes == ConnectionCodes \cup {"device_connection_timeout", "device_authentication_failed",
                                  "device_command_rejected", "configuration_error"}
ScrapliKinds == {"authentication", "connection", "timeout", "value", "other"}
Caught == [kind : {"app"}, code : AppCodes, found : {{}}]
          \cup [kind : ScrapliKinds, code : {""}, found : SUBSET MarkerGroups]

DefaultCode(phase) ==
  CASE phase = "tcp_connection"        -> "device_connection_failed"
    [] phase = "ssh_negotiation"       -> "legacy_ssh_negotiation_failed"
    [] phase = "host_key_verification" -> "device_host_key_indeterminate"
    [] phase = "authentication"        -> "device_authentication_failed"
    [] phase = "pty_creation"          -> "terminal_pty_rejected"
    [] phase = "terminal_io"           -> "terminal_transport_failed"

\* A failure keeps the phase in which it was caught if it says nothing of one.
Phased(code, phase) ==
  IF code \in {"device_connection_timeout", "configuration_error"} THEN phase ELSE PhaseOf(code)

\* Mutated form: what is caught after the login is classified like before it.
Translate_NoIO(exc, phase) ==
  CASE exc.kind = "app"            -> <<exc.code, Phased(exc.code, phase)>>
    [] exc.kind = "authentication" -> LET code == FirstMarked(exc.found)
                                      IN  <<code, Phased(code, phase)>>
    [] OTHER                       -> <<DefaultCode(phase), phase>>

\* The code and the phase of what was caught in a phase.
Translate(exc, phase) ==
  IF phase = "terminal_io"
     /\ \/ exc.kind \in {"authentication", "connection"}
        \/ exc.code \in ConnectionCodes \cup {"device_authentication_failed"}
  THEN <<"terminal_transport_failed", "terminal_io">>
  ELSE CASE exc.kind = "app" -> <<exc.code, Phased(exc.code, phase)>>
         [] exc.kind = "timeout" -> <<"device_connection_timeout", phase>>
         [] exc.kind = "connection" /\ "lost" \in exc.found -> <<"device_connection_lost", phase>>
         [] exc.kind = "authentication" -> LET code == FirstMarked(exc.found)
                                           IN  <<code, Phased(code, phase)>>
         [] exc.kind = "value" -> <<"configuration_error", phase>>
         [] OTHER -> <<DefaultCode(phase), PhaseOf(DefaultCode(phase))>>

\* A login that was refused for its password
RefusedLogin(exc) ==
  \/ exc.kind = "authentication" /\ exc.found = {}
  \/ exc.kind = "app" /\ exc.code = "device_authentication_failed"

\* A driver translates in two phases only: while it opens a connection, and
\* while it uses one.
DriverPhases == {"tcp_connection", "terminal_io"}
=============================================================================
