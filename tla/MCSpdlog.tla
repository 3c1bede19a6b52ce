------------------------------ MODULE MCSpdlog ------------------------------
(***************************************************************************)
(* An instance of Spdlog for TLC: the default logger, the rotating file    *)
(* logger that SinbohaImp makes, and two asynchronous loggers, one of them *)
(* with the same name.                                                     *)
(***************************************************************************)
EXTENDS Spdlog

AllLoggers == {"default", "ha", "bg", "nb"}
Names == [l \in AllLoggers |-> CASE l = "default" -> "" [] l = "bg" -> "bg" [] OTHER -> "ha"]
Policies == [l \in AllLoggers |-> CASE l = "bg" -> "block" [] l = "nb" -> "overrun" [] OTHER -> "sync"]
Methods == [m \in Message |-> IF m = 1 THEN "error" ELSE "info"]
OnlyErr == {Level.err}
OnlyInfo == {Info}
=============================================================================
