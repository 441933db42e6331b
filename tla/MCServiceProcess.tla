-------------------------- MODULE MCServiceProcess --------------------------
(* Instances of ServiceProcess for TLC: services that share no stream do    *)
(* not meet, so each group of those that do is a deployment of its own.     *)
EXTENDS ServiceProcess

MCDeployments ==
  {{"auth", "user"}, {"room", "message", "websocket"}, {"gateway"}}

=============================================================================
