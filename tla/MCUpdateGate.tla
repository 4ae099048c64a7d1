---- MODULE MCUpdateGate ----
(* Update gate with a task of the desktop and one of another process.        *)
EXTENDS UpdateGate

MCWorkers == {"engine", "mcp"}
MCInside  == {"engine"}
====
