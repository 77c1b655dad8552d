--------------------------- MODULE MCSysctlApply ----------------------------
(***************************************************************************)
(* SysctlApply with values for TLC: a key of the templates the kernel      *)
(* knows, one it does not know, and a key of the administrator's.          *)
(***************************************************************************)
EXTENDS SysctlApply

CONSTANTS somaxconn, conntrack, ownkey
=============================================================================
