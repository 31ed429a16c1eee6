--------------------------- MODULE MCCredentials ---------------------------
(* Connections for Credentials: a global one and a workspace one of the    *)
(* same name that only takes what is in the vault, one from a .sql file,   *)
(* one whose secret a command prints, one that logs in with a token.       *)
EXTENDS Credentials

MCScope == [k \in Conns |-> IF k = "global" THEN "global" ELSE "workspace"]
MCName == [k \in Conns |-> IF k \in {"global", "local"} THEN "prod" ELSE k]
MCSource == [k \in Conns |-> CASE k = "ops" -> "command" [] k = "local" -> "vault" [] OTHER -> "prompt"]
MCPurpose == [k \in Conns |-> IF k = "entra" THEN "token" ELSE "password"]
=============================================================================
