----------------------------- MODULE MCParts -----------------------------
(***************************************************************************)
(* The parts of ServiceParts on small instances.                           *)
(***************************************************************************)
EXTENDS ServiceParts, TLC

\* Two providers, one with two routes and one that needs an account.
MCRoutes == <<"nsu", "cloudflare", "nsu", "cloudflare">>

\* A file is long enough for two stages, or two assignments.
MCLines == [dockerfile |-> 4, python |-> 3, javascript |-> 2, model |-> 1, serializer |-> 2, view |-> 1]

\* ".", "api" and "old/api".
MCAbove == <<{}, {1}, {1}>>

MCNames == <<"service", "api", "api">>

\* A service by hand has the name of directories, one of Compose that of the
\* second of them.
MCServices == {"api", "api-2"}

MCManual == {"api"}

MCNumbered ==
    [name \in {"service"} \cup MCServices |->
        [n \in 1 .. 3 |-> IF n = 1 THEN name ELSE name \o "-" \o ToString(n)]]
===========================================================================
