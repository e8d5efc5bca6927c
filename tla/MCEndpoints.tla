----------------------------- MODULE MCEndpoints -----------------------------
(* Instances of Endpoints for TLC: the stream in each mode, then the server. *)
EXTENDS EndpointsInvariant

C(mode, stream) ==
  [mode |-> mode, stream |-> stream, http |-> ~stream,
   token |-> IF mode = "local" THEN NoSecret ELSE "token",
   jwt |-> IF mode = "evrus" THEN "jwt" ELSE NoSecret]

MCConfigs == {C(mode, stream) : mode \in {"local", "token", "evrus"}, stream \in BOOLEAN}

MCHeaders == {NoSecret, "token", "jwt", Halved, Garbled}

MCAsks ==
  [method : {"GET"}, route : Routes, header : {NoSecret, "token", "jwt", Halved}]
    \cup [method : {"other"}, route : {"health"}, header : {NoSecret}]

=============================================================================
