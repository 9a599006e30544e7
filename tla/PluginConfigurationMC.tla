----------------------- MODULE PluginConfigurationMC -----------------------
(* Instance of PluginConfiguration for the model checker.                    *)
EXTENDS PluginConfiguration

TwoPlaces == {[processes |-> 2, rank |-> r] : r \in 0..1}
=============================================================================
