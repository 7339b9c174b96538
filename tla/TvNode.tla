------------------------------- MODULE TvNode -------------------------------
(* The process of a node in service mode (tvnode/main.go, tvbase.go,       *)
(* option.go, relay.go, signal.go): how NewTvbase puts the node together,  *)
(* how Start starts it, and what a signal or a failure leaves of it.       *)
(* TvBase is what goes on while it runs.  The hooks are those of an fx     *)
(* application (fx 1.20): only what an Invoke needs is constructed, so the *)
(* hooks of the tracer, the profile and the IntrHandler never exist.       *)
EXTENDS TvBase

CONSTANT Config \* settings: [psk, relay, relayService, relayClient,
                \*  holePunching, nat, filters, subnets]

VARIABLES
    main,       \* where main is
    launch,     \* m.launch: "none", or the state of its lifecycle
    started,    \* numStarted: hooks started and not yet stopped
    stopper,    \* the call of lifecycle.Stop that runs the hooks, or "none"
    handler,    \* the first signal: "none", "cancelled", "done"
    open        \* what a hook's OnStop would close

process == <<main, launch, started, stopper, handler, open>>
nodeVars == <<vars, process>>

Cancelled == handler # "none"       \* m.ctx
Ended == main \in {"off", "panic"}

-----------------------------------------------------------------------------
(* What NewTvbase asks libp2p for.                                         *)

WithDefault(flag, default) == IF flag = "default" THEN default ELSE flag = "true"
Transport(cfg) == WithDefault(cfg.relay, TRUE)
RelayService(cfg) == WithDefault(cfg.relayService, Transport(cfg))

RelayClient(cfg) == WithDefault(cfg.relayClient, Transport(cfg))

(* The access list registers with a host that is not there yet.            *)
NewACLPanics(cfg) == cfg.subnets

RelayError(cfg) == ~Transport(cfg) /\ (RelayService(cfg) \/ RelayClient(cfg))

CreateRelayOpts(cfg) ==
    {IF Transport(cfg) THEN "relay" ELSE "norelay"}
        \cup (IF RelayClient(cfg) THEN {"autorelay"} ELSE {})

(* A node in service mode relays, whatever the settings say.               *)
EnableRelayService == {"relayservice"}

NatError(cfg) == cfg.nat = "unhandled"
CreateNATOpts(cfg) == IF cfg.nat = "disabled" THEN {} ELSE {"natservice"}

CreateTransportOpts(cfg) ==
    {"tcp", "websocket"} \cup (IF cfg.psk THEN {} ELSE {"quic", "webtransport"})

(* Without a relay client it is silently left out, unless asked for.       *)
HolePunching(cfg) == WithDefault(cfg.holePunching, TRUE) /\ RelayClient(cfg)

HolePunchingError(cfg) == cfg.holePunching = "true" /\ ~RelayClient(cfg)

CommonError(cfg) ==
    NatError(cfg) \/ RelayError(cfg) \/ HolePunchingError(cfg)
        \/ cfg.filters = "malformed"

CreateCommonOpts(cfg) ==
    CreateTransportOpts(cfg) \cup CreateNATOpts(cfg) \cup CreateRelayOpts(cfg)
        \cup EnableRelayService
        \cup (IF HolePunching(cfg) THEN {"holepunching"} ELSE {})
        \cup (IF cfg.psk THEN {"private"} ELSE {})
        \cup (IF cfg.filters = "some" THEN {"gater"} ELSE {})

(* libp2p makes no host with a transport that cannot be private in a       *)
(* private network, nor with an autorelay or hole punching and no relay.   *)
Libp2pTakes(opts) ==
    /\ "private" \in opts => opts \cap {"quic", "webtransport"} = {}
    /\ opts \cap {"autorelay", "holepunching"} # {} => "relay" \in opts

-----------------------------------------------------------------------------
(* The hooks, in the order of their Append; OnStop runs the other way.     *)

Hooks == <<"dht", "rmgr", "pstore", "host", "mdns", "netCheck", "pubsub">>

(* initHost opens these, OnStart the others; pubsub's hook does nothing.   *)
Host == {"dht", "rmgr", "pstore", "host"}

NodeInit ==
    /\ Rest /\ isRendezvous = FALSE /\ node = "off" /\ visit = {}
    /\ main = "new" /\ launch = "none" /\ started = 0 /\ stopper = "none"
    /\ handler = "none" /\ open = {}

(* What the goroutines still do after the end of m.ctx, or with a host     *)
(* that closes, is left out; one of the loops may have met somebody.       *)
NetEnds ==
    /\ online' = {} /\ events' = <<>> /\ node' = "off" /\ visit' = {}
    /\ servicePeerList' = [p \in Peer |-> "none"]
    /\ lightPeerList' = [p \in Peer |-> "none"]
    /\ pc' = [l \in Loop |-> "off"] /\ met' = {}
    /\ isDiscoverRendzvousing' = FALSE /\ late' = FALSE
    /\ isRendezvous' \in {isRendezvous, isRendezvous \/ met # {}}

Exit(how) ==
    /\ main' = how /\ open' = {}
    /\ NetEnds
    /\ UNCHANGED <<launch, started, stopper, handler>>

MainGoes(at) ==
    /\ main' = at
    /\ UNCHANGED <<vars, launch, started, stopper, handler, open>>

(* lockProcess, loadConfig, initDisc, which handles the signals from here. *)
NewTvbase == main = "new" /\ MainGoes("make")

(* fx.New calls initHost for the first Invoke that needs the host.         *)
InitHost ==
    /\ main = "make" /\ open = {}
    /\ \E cfg \in Config :
          /\ ~CommonError(cfg) /\ ~NewACLPanics(cfg)
          /\ Libp2pTakes(CreateCommonOpts(cfg))
          /\ open' = Host
    /\ UNCHANGED <<vars, main, launch, started, stopper, handler>>

(* A setting, an address in use, the database or libp2p: main is fatal.    *)
InitHostError == main = "make" /\ open = {} /\ Exit("off")

InitHostPanics ==
    /\ main = "make" /\ open = {}
    /\ \E cfg \in Config : NewACLPanics(cfg) /\ ~RelayError(cfg) /\ ~NatError(cfg)
    /\ Exit("panic")

(* Likewise when the trace file of pubsub cannot be made.                  *)
InitDmsgPubsubError == main = "make" /\ open = Host /\ Exit("off")

InitFx ==
    /\ main = "make" /\ open = Host
    /\ main' = "start" /\ launch' = "stopped"
    /\ IF Cancelled THEN UNCHANGED <<node, visit>>
       ELSE node' = "start" /\ visit' = Bootstrap
    /\ UNCHANGED <<online, events, lists, flags, search>>
    /\ UNCHANGED <<started, stopper, handler, open>>

-----------------------------------------------------------------------------
(* lifecycle of fx.                                                        *)

(* Variant: the hooks run again for whoever calls Stop.                    *)
StopAlways(by) ==
    /\ launch' = "stopping" /\ stopper' = by /\ started' = Len(Hooks)
    /\ NetEnds

Stop(by) ==
    IF launch \in {"started", "incompleteStart"}
    THEN launch' = "stopping" /\ stopper' = by /\ NetEnds /\ UNCHANGED started
    ELSE UNCHANGED <<vars, launch, stopper, started>>

StartTo(n, state) ==
    /\ launch = "starting"
    /\ launch' = state /\ started' = n
    /\ open' = open \cup ({Hooks[i] : i \in 5..n} \ {"pubsub"})
    /\ UNCHANGED <<vars, main, stopper, handler>>

StartHooks == ~Cancelled /\ StartTo(Len(Hooks), "started")

MdnsStartError == ~Cancelled /\ StartTo(4, "incompleteStart")

(* m.ctx is looked at before each hook; main has moved on by then.         *)
StartIsCut == Cancelled /\ \E n \in 0..Len(Hooks) - 1 : StartTo(n, "incompleteStart")

(* The rollback of Start is given m.ctx.                                   *)
Rollback ==
    /\ launch = "incompleteStart"
    /\ IF Cancelled
       THEN launch' = "stopped" /\ UNCHANGED <<vars, started, stopper>>
       ELSE Stop("rollback")
    /\ UNCHANGED <<main, handler, open>>

StopHook ==
    /\ launch = "stopping" /\ started > 0
    /\ ~(stopper = "rollback" /\ Cancelled)
    /\ IF Hooks[started] = "netCheck" /\ "netCheck" \notin open
       THEN Exit("panic")       \* done is closed already
       ELSE /\ started' = started - 1
            /\ open' = open \ {Hooks[started]}
            /\ UNCHANGED <<vars, main, launch, stopper, handler>>

Stopped ==
    /\ launch = "stopping"
    /\ started = 0 \/ (stopper = "rollback" /\ Cancelled)
    /\ launch' = "stopped" /\ stopper' = "none"
    /\ UNCHANGED <<vars, main, started, handler, open>>

-----------------------------------------------------------------------------
(* Signals.                                                                *)

(* The first one ends m.ctx in a goroutine of its own, the next one exits. *)
Interrupt ==
    /\ main # "new" /\ ~Ended
    /\ IF handler = "none"
       THEN handler' = "cancelled" /\ NetEnds
            /\ UNCHANGED <<main, launch, started, stopper, open>>
       ELSE Exit("off")

(* Variant: Stop is given the context that has just ended.                 *)
HandlerStopCancelled ==
    /\ handler = "cancelled" /\ launch # "none"
    /\ handler' = "done"
    /\ launch' = IF launch \in {"started", "incompleteStart"} THEN "stopped" ELSE launch
    /\ UNCHANGED <<vars, main, started, stopper, open>>

HandlerStop ==
    /\ handler = "cancelled"
    /\ IF launch = "none" THEN Exit("panic")
       ELSE handler' = "done" /\ Stop("handler") /\ UNCHANGED <<main, open>>

-----------------------------------------------------------------------------
(* main, once there is a node.  It ignores what Start returns.             *)

(* With m.ctx at its end, bootstrap comes back at once.                    *)
StartCancelled ==
    /\ main = "start" /\ Cancelled
    /\ main' = "launch" /\ launch' = "starting"
    /\ UNCHANGED <<vars, started, stopper, handler, open>>

(* Start is over and WaitRendezvous begins; until main is in its select it *)
(* is not told.                                                            *)
WaitRendezvous ==
    \/ /\ main = "launch"
       /\ Cancelled \/ launch \in {"started", "stopped"}
       /\ MainGoes(IF isRendezvous THEN "serve" ELSE "regist")
    \/ main = "regist" /\ MainGoes("wait")

WaitFails == main = "wait" /\ Exit("off")   \* its timeout, or m.ctx

(* The waiter that is told takes itself off the list (UnregistRendezvous-  *)
(* Chan); main is the only one, so that it closes its channel while nobody *)
(* else sends to it is left out.                                           *)
Tell(told) ==
    /\ main' = IF told /\ main = "wait" THEN "serve" ELSE main
    /\ UNCHANGED <<launch, started, stopper, handler, open>>

(* startDmsgService; then main waits for a context that has no end.        *)
StartDmsgService == main = "serve" /\ MainGoes("run")

StartDmsgServiceError ==
    /\ main = "serve"
    /\ main' = "defer" /\ Stop("main")
    /\ UNCHANGED <<handler, open>>

Return == main = "defer" /\ stopper # "main" /\ Exit("off")

-----------------------------------------------------------------------------
(* Steps of TvBase.                                                        *)

Quiet(A) == node # "off" /\ A /\ UNCHANGED process

Told ==
    \/ Notify /\ Tell(Head(events).status = "NotConnected" /\ node # "start"
                      /\ ~IsExistConnectedPeer')
    \/ \E l \in Loop : Meet(l) /\ Tell(l \in met)

NodeStart ==
    /\ main = "start" /\ Start
    /\ main' = "launch" /\ launch' = "starting"
    /\ UNCHANGED <<started, stopper, handler, open>>

NetNext ==
    \/ \E p \in Peer : Quiet(Inbound(p)) \/ Quiet(Disconnect(p))
    \/ \E p \in Peer : "mdns" \in open /\ Quiet(HandlePeerFound(p))
    \/ \E v \in visit : Quiet(VisitStep(v))
    \/ \E l \in Loop : Quiet(LoopTest(l)) \/ Quiet(LoopSet(l))
                       \/ Quiet(FindPeersError(l)) \/ Quiet(FindPeers(l))
                       \/ Quiet(LoopOn(l))
    \/ Told \/ NodeStart
    \/ "netCheck" \in open /\ Quiet(NetCheck)
    \/ Quiet(SearchAgain)

MainStep ==
    \/ NewTvbase \/ InitHost \/ InitHostError \/ InitHostPanics
    \/ InitDmsgPubsubError \/ InitFx
    \/ StartCancelled \/ WaitRendezvous
    \/ StartDmsgService \/ StartDmsgServiceError \/ Return

LaunchStep ==
    StartHooks \/ MdnsStartError \/ StartIsCut \/ Rollback \/ StopHook \/ Stopped

NodeNext ==
    NetNext \/ (~Ended /\ (MainStep \/ WaitFails \/ LaunchStep \/ HandlerStop)) \/ Interrupt

NodeSpec == NodeInit /\ [][NodeNext]_nodeVars

(* The goroutines are scheduled, dials and tickers come to an end: those   *)
(* that handle events, main, the launch, the first signal, netCheck, and   *)
(* each loop.  A loop, Start and netCheck wait for the connects they began *)
(* (wg.Wait), so these go under the name of who waits; mdns has no haste.  *)
Connects(by) == \E v \in visit : v.by = by /\ VisitStep(v)

NodeFairness ==
    /\ WF_nodeVars(Told)
    /\ WF_nodeVars(NodeStart \/ (~Ended /\ MainStep))
    /\ \A l \in Loop : WF_nodeVars(Quiet(LoopStep(l) \/ Connects(l)))
    /\ WF_nodeVars(\/ "netCheck" \in open /\ Quiet(NetCheck)
                   \/ Quiet(SearchAgain \/ Connects("bootstrap")))
    /\ WF_nodeVars(~Ended /\ LaunchStep)
    /\ WF_nodeVars(~Ended /\ HandlerStop)

FairNodeSpec == NodeSpec /\ NodeFairness

-----------------------------------------------------------------------------
NodeTypeOK ==
    /\ TypeOK
    /\ main \in {"new", "make", "start", "launch", "regist", "wait", "serve", "run", "defer", "off", "panic"}
    /\ launch \in {"none", "stopped", "starting", "incompleteStart", "started",
                   "stopping"}
    /\ started \in 0..Len(Hooks)
    /\ stopper \in {"none", "rollback", "handler", "main"}
    /\ handler \in {"none", "cancelled", "done"}
    /\ open \subseteq {Hooks[i] : i \in 1..Len(Hooks)}

(* tvbase.go:130-132, 186-201: the end of a signal, of a failed start and  *)
(* of main may all stop the node, and no hook is run for the second time;  *)
(* only a node that is not made yet panics.                                *)
PanicsAreEarly == main = "panic" => launch = "none"

(* tvbase.go:178-201: a signal that finds the node started closes          *)
(* everything, unless the process ends before.                             *)
SignalStops ==
    (handler = "cancelled" /\ launch = "started") ~> (open = {} \/ Ended)
=============================================================================
