---- MODULE MCDetachedWork ----
(* Detached work with an edit of the plan and a compilation.                 *)
EXTENDS DetachedWork

MCKeys     == {"edit", "compile"}
MCEditKeys == {"edit"}
====
