---------------------------- MODULE MCSupervisor ----------------------------
(* Instances of Supervisor for TLC.                                        *)
EXTENDS Supervisor

CONSTANTS o1, j1, j2, drain, logout, relogout, select, cancel

OneHome == [j \in Jobs |-> o1]

MethodOf == [c \in Calls |->
    CASE c = drain -> "drain" [] c \in {logout, relogout} -> "logout"
      [] c = select -> "select" [] OTHER -> "cancel"]
=============================================================================
