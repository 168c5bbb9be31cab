------------------------------- MODULE EndDevices -------------------------------
(***************************************************************************)
(* One end device of the bridge: a lamp behind a plugin (LightPlugins), a  *)
(* push button behind a plugin (PluginButtons), or a push button of the    *)
(* external device API (ConnectorButtons).  The kind of a mapping is fixed *)
(* when it is made, and decides which of the handlers its messages reach;  *)
(* the parts of the other kinds rest.                                      *)
(***************************************************************************)
EXTENDS LightPlugins, PluginButtons, ConnectorButtons

VARIABLE kind

endVars == <<kind, lightVars, buttonVars, clickVars>>

EndInit ==
    /\ kind \in {"lamp", "button", "connector"}
    /\ LightInit /\ ButtonInit /\ ClickInit
    /\ kind # "lamp" => plugin = "shelly" /\ feats = {} /\ ~ dev.on /\ dev.col = <<0, 0>>
    /\ kind # "button" => origin = "shelly"
    /\ kind # "connector" => clickMode = NoMode /\ index = 0

EndNext ==
    \/ kind = "lamp" /\ LightNext /\ UNCHANGED <<kind, buttonVars, clickVars>>
    \/ kind = "button" /\ ButtonNext /\ UNCHANGED <<kind, lightVars, clickVars>>
    \/ kind = "connector" /\ ClickNext /\ UNCHANGED <<kind, lightVars, buttonVars>>

EndSpec == EndInit /\ [][EndNext]_endVars /\ ButtonFairness
=============================================================================
