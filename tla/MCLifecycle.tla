----------------------------- MODULE MCLifecycle -----------------------------
(* Lifecycle with three Device objects: an old one, a new one and an orphan. *)
EXTENDS Lifecycle
===============================================================================
