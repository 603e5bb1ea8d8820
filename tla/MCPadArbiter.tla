---------------------------- MODULE MCPadArbiter ----------------------------
(***************************************************************************)
(* Values of the constants for TLC: a script that presses a button and      *)
(* lets go of it, a remote controller and a desktop.                        *)
(***************************************************************************)
EXTENDS PadArbiter

GuestAndPresenter == {"guest", "presenter"}
PressAndRelease == <<"scriptA", "neutral">>
RemotePresses == {"remoteA", "remoteB"}
DesktopPresses == {"key"}

=============================================================================
