------------------------------ MODULE MCTvNode ------------------------------
(* TvNode with one peer, of the bootstrap list, two loops of the search, and   *)
(* every setting of the switches.                                              *)
EXTENDS TvNode

Flag == {"default", "true", "false"}

Settings ==
    [psk : BOOLEAN, relay : Flag, relayService : Flag, relayClient : Flag,
     holePunching : Flag, nat : {"enabled", "disabled", "unhandled"},
     filters : {"none", "some", "malformed"}, subnets : BOOLEAN]

(* option.go:111-263, relay.go:17-83: the checks of the settings leave none    *)
(* that libp2p would refuse.                                                   *)
ASSUME OptionsFit ==
    \A cfg \in Settings : ~CommonError(cfg) => Libp2pTakes(CreateCommonOpts(cfg))
=============================================================================
