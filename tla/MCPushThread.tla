---------------------------- MODULE MCPushThread ----------------------------
(* Instances of PushThread for TLC: the bound is in the configurations.    *)
EXTENDS PushThread
=============================================================================
