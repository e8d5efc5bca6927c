------------------------------- MODULE Bearer -------------------------------
(***************************************************************************)
(* The check of the Authorization header that event stream and             *)
(* observability server share (bearer_equals of src/security/auth.rs).     *)
(* A configuration has a mode and the secrets it read at start.            *)
(***************************************************************************)

CONSTANTS
  Configs,   \* mode, token, jwt; stream and http: is the server switched on?
  NoSecret,  \* no header, or no secret configured
  Halved     \* a value of another scheme with a character across its byte 7

ASSUME BearerConstants == Halved # NoSecret /\ \A c \in Configs : c.token # Halved /\ c.jwt # Halved

VARIABLE config   \* read at start, never changed

(* Nobody authenticates against a secret that is missing or empty. *)
BearerEquals(header, expected) == expected # NoSecret /\ header = expected

Authorized(header) ==
  \/ config.mode = "local"
  \/ config.mode = "token" /\ BearerEquals(header, config.token)
  \/ config.mode = "evrus" /\ BearerEquals(header, config.jwt)

(* extract_bearer cuts the value at byte 7, and panics where no character   *)
(* begins there; it is not called without a secret.                        *)
BearerPanics(header, expected) == expected # NoSecret /\ header = Halved

Panics(header) ==
  \/ config.mode = "token" /\ BearerPanics(header, config.token)
  \/ config.mode = "evrus" /\ BearerPanics(header, config.jwt)

=============================================================================
