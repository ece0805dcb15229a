---------------------------- MODULE MCModuleExec ----------------------------
(* The session-key service and the worker for TLC.                          *)
EXTENDS ModuleExec

(* A user who manages session keys, and one who manages all else.           *)
MCMenus == {{"enable", "disable", "register", "revoke"}, {"settings", "allow", "disallow"}}
=============================================================================
