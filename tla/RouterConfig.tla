---------------------------- MODULE RouterConfig ----------------------------
(* The registry of chains and tokens of an ERC20 router: InitRouterBridges   *)
(* fills it at the start, ReloadRouterConfig brings it up to date with the   *)
(* configuration file and with the config contract, one goroutine per chain  *)
(* and one per token of a chain.                                             *)
EXTENDS LocalConfig, FiniteSetsExt

-----------------------------------------------------------------------------
(* What the bridge of each kind of chain does with its configuration: with   *)
(* the chain's, with a token's and with a router contract. A step of it may  *)
(* end the program: by log.Fatal ("fatal") or by a nil pointer ("panic").    *)

\* A configured token: its ID, its address and that of its underlying (aptos), its router (0 for the
\* chain's), whether it is the native one and whether the chain agrees with it (decimals, minter,
\* asset); checked is set once that was found out. NoToken stands for nil.
NoToken == [id |-> 0, addr |-> 0, extra |-> 0, router |-> 0, native |-> FALSE, agrees |-> FALSE, checked |-> FALSE]
NoChainConfig == [router |-> 0, ok |-> FALSE]

\* A bridge: its chain configuration, its TokenConfigMap by address, its signer, UseFastMPC.
NewBridge(addrs) ==
  [chain |-> NoChainConfig, tokens |-> [a \in addrs |-> NoToken], signer |-> "none", fast |-> FALSE]

Done(b) == [end |-> "ok", b |-> b]
Ends(how, b) == [end |-> how, b |-> b]

BaseSetTokenConfig(b, a, cfg) == [b EXCEPT !.tokens[a] = cfg]

-----------------------------------------------------------------------------
(* SetTokenConfig. cfg is NoToken when the token is removed. Of the load o   *)
(* says whether it is a reload, whether its errors are only logged           *)
(* (DontPanicInLoading), whether tokens that fail the check are taken, and   *)
(* whether the chain's node answers; and routerKnown that GetRouterInfo      *)
(* finds the router of the token.                                            *)

\* The address is compared first, which reads a nil configuration.
EthSetTokenConfig(b, a, cfg, o) ==
  IF cfg = NoToken THEN Ends("panic", b)
  ELSE Done(BaseSetTokenConfig(b, a, [cfg EXCEPT !.checked = (cfg.agrees /\ o.node) \/ o.dontCheck]))

WithRouter(b, cfg) == [cfg EXCEPT !.router = IF @ = 0 THEN b.chain.router ELSE @]
SolanaSetTokenConfig(b, a, cfg, o) ==
  LET right == cfg.agrees /\ (cfg.native \/ o.node)
  IN CASE cfg = NoToken -> Ends("panic", b)
       [] cfg # NoToken /\ ~right -> Ends("fatal", b)
       [] cfg # NoToken /\ right /\ ~cfg.native /\ ~o.routerKnown -> Ends("panic", b)
       [] OTHER -> Done(BaseSetTokenConfig(b, a, WithRouter(b, cfg)))

\* The underlying is stored, too.
AptosSetTokenConfig(b, a, cfg, o) ==
  LET full == WithRouter(b, cfg)
      b1 == BaseSetTokenConfig(b, a, full)
  IN CASE cfg = NoToken -> Ends("panic", b)
       [] cfg # NoToken /\ ~(cfg.agrees /\ (cfg.native \/ o.node)) -> Ends("fatal", b)
       [] OTHER -> Done(IF cfg.extra \in {0, a} THEN b1 ELSE BaseSetTokenConfig(b1, cfg.extra, [full EXCEPT !.addr = cfg.extra]))

\* Stored first; a check that fails later leaves it stored.
StoreThenCheck(b, a, cfg, right, survives) ==
  IF cfg # NoToken /\ ~right /\ ~survives THEN Ends("fatal", b) ELSE Done(BaseSetTokenConfig(b, a, cfg))
NearSetTokenConfig(b, a, cfg, o) == StoreThenCheck(b, a, cfg, cfg.agrees /\ o.node, o.reload)
FlowSetTokenConfig(b, a, cfg, o) == StoreThenCheck(b, a, cfg, cfg.agrees /\ o.node, o.reload)
BtcSetTokenConfig(b, a, cfg, o) == StoreThenCheck(b, a, cfg, cfg.agrees, o.reload)
CosmosSetTokenConfig(b, a, cfg, o) == StoreThenCheck(b, a, cfg, cfg.agrees, o.reload)
RippleSetTokenConfig(b, a, cfg, o) == StoreThenCheck(b, a, cfg, cfg.agrees, o.quiet)

\* Nothing is checked.
CardanoSetTokenConfig(b, a, cfg) == Done(BaseSetTokenConfig(b, a, cfg))
IotaSetTokenConfig(b, a, cfg) == Done(BaseSetTokenConfig(b, a, cfg))
TronSetTokenConfig(b, a, cfg) == Done(BaseSetTokenConfig(b, a, cfg))

\* A removal is ignored; a configuration is stored only once it was checked.
StellarSetTokenConfig(b, a, cfg, o) ==
  LET right == cfg.agrees /\ (cfg.native \/ o.node)
  IN CASE cfg = NoToken -> Done(b)
       [] cfg # NoToken /\ ~right -> IF o.quiet THEN Done(b) ELSE Ends("fatal", b)
       [] OTHER -> Done(BaseSetTokenConfig(b, a, cfg))

SetTokenConfig(k, b, a, cfg, o) ==
  CASE k \in {"eth", "reef"} -> EthSetTokenConfig(b, a, cfg, o)
    [] k = "solana" -> SolanaSetTokenConfig(b, a, cfg, o)
    [] k = "aptos" -> AptosSetTokenConfig(b, a, cfg, o)
    [] k = "near" -> NearSetTokenConfig(b, a, cfg, o)
    [] k = "flow" -> FlowSetTokenConfig(b, a, cfg, o)
    [] k = "btc" -> BtcSetTokenConfig(b, a, cfg, o)
    [] k = "cosmos" -> CosmosSetTokenConfig(b, a, cfg, o)
    [] k = "ripple" -> RippleSetTokenConfig(b, a, cfg, o)
    [] k = "cardano" -> CardanoSetTokenConfig(b, a, cfg)
    [] k = "iota" -> IotaSetTokenConfig(b, a, cfg)
    [] k = "stellar" -> StellarSetTokenConfig(b, a, cfg, o)
    [] OTHER -> TronSetTokenConfig(b, a, cfg)

\* On an EVM chain a configuration that was not checked is checked when it is used.
checkTokenConfig(cfg) == cfg.checked \/ cfg.agrees
GetTokenConfig(k, b, a) ==
  LET cfg == b.tokens[a]
  IN IF cfg # NoToken /\ k \in {"eth", "reef"} /\ ~checkTokenConfig(cfg) THEN NoToken ELSE cfg

-----------------------------------------------------------------------------
(* InitRouterInfo: the MPC address of the router contract is found, and its  *)
(* public key in the config contract must belong to it (key is "right"; it   *)
(* may also be the one of another address, "empty" or malformed). bad are    *)
(* the calls that fail: of the chain's node ("node") or for the key ("key"). *)
(* The answer says whether the router is known afterwards.                   *)

Known(ok) == IF ok THEN "known" ELSE "error"
EthInitRouterInfo(key, bad) == Known({"node", "key"} \cap bad = {} /\ key = "right")
TronInitRouterInfo(key, bad) == Known({"node", "key"} \cap bad = {} /\ key = "right")
FlowInitRouterInfo(key, bad) == Known({"node", "key"} \cap bad = {} /\ key = "right")
SolanaInitRouterInfo(key, bad) == IF {"node", "key"} \cap bad = {} /\ key = "right" THEN "known" ELSE "fatal"
\* The key is not compared.
AptosInitRouterInfo(bad) == IF "key" \notin bad THEN "known" ELSE "fatal"
\* The key is that of the chain's router, whichever router is initialised.
NearInitRouterInfo(chainKey, bad) == Known({"node", "key"} \cap bad = {} /\ chainKey = "right")
\* A key that belongs to another address is no error.
BtcInitRouterInfo(key, bad) == Known("key" \notin bad /\ key \in {"right", "other"})
CosmosInitRouterInfo(key, bad) == Known("key" \notin bad /\ key = "right")
IotaInitRouterInfo(key, bad) == Known("key" \notin bad /\ key = "right")
CardanoInitRouterInfo(key, bad) == Known("key" \notin bad /\ key = "right")
StellarInitRouterInfo(key, bad) == Known("key" \notin bad /\ key = "right")
RippleInitRouterInfo(key, bad) == Known("key" \notin bad /\ key \in {"right", "empty"})

InitRouterInfo(k, key, chainKey, bad) ==
  CASE k \in {"eth", "reef"} -> EthInitRouterInfo(key, bad)
    [] k = "tron" -> TronInitRouterInfo(key, bad)
    [] k = "solana" -> SolanaInitRouterInfo(key, bad)
    [] k = "aptos" -> AptosInitRouterInfo(bad)
    [] k = "near" -> NearInitRouterInfo(chainKey, bad)
    [] k = "flow" -> FlowInitRouterInfo(key, bad)
    [] k = "btc" -> BtcInitRouterInfo(key, bad)
    [] k = "cosmos" -> CosmosInitRouterInfo(key, bad)
    [] k = "iota" -> IotaInitRouterInfo(key, bad)
    [] k = "cardano" -> CardanoInitRouterInfo(key, bad)
    [] k = "stellar" -> StellarInitRouterInfo(key, bad)
    [] OTHER -> RippleInitRouterInfo(key, bad)

-----------------------------------------------------------------------------
(* InitAfterConfig, once for a new bridge. A bridge without chain            *)
(* configuration has none to read.                                           *)

BaseInitAfterConfig(b) == IF b.chain = NoChainConfig THEN Ends("panic", b) ELSE Done(b)

\* The signer is chosen once: by whether dynamic fees are enabled at that moment. Without an answer
\* ("signer") there is none, which is an error; a gateway of another chain ("otherChain") is not.
initSigner(b, dynamic, bad) ==
  [b EXCEPT !.signer = IF {"signer", "otherChain"} \cap bad # {} THEN "none" ELSE IF dynamic THEN "London" ELSE "EIP155"]
EthInitAfterConfig(b, dynamic, finalizes, bad, quiet) ==
  CASE b.chain = NoChainConfig -> Ends("panic", b)
    [] b.chain # NoChainConfig /\ ("signer" \in bad \/ ~finalizes) /\ ~quiet -> Ends("fatal", b)
    [] OTHER -> Done(initSigner(b, dynamic, bad))

\* The connections to the nodes are made here, and must be.
ReefInitAfterConfig(b, bad) ==
  IF b.chain = NoChainConfig \/ "signer" \in bad THEN Ends("panic", b) ELSE Done(b)
TronInitAfterConfig(b) == BaseInitAfterConfig(b)
SolanaInitAfterConfig(b) == BaseInitAfterConfig(b)
\* A node that does not answer leaves the protocol parameters unset.
CardanoInitAfterConfig(b) == BaseInitAfterConfig(b)
AptosInitAfterConfig(b) == BaseInitAfterConfig(b)

InitAfterConfig(k, b, dynamic, finalizes, bad, quiet) ==
  CASE k = "eth" -> EthInitAfterConfig(b, dynamic, finalizes, bad, quiet)
    [] k = "reef" -> ReefInitAfterConfig(b, bad)
    [] k = "tron" -> TronInitAfterConfig(b)
    [] k = "solana" -> SolanaInitAfterConfig(b)
    [] k = "cardano" -> CardanoInitAfterConfig(b)
    [] k = "aptos" -> AptosInitAfterConfig(b)
    [] OTHER -> BaseInitAfterConfig(b)

-----------------------------------------------------------------------------
(* The registry *)

CONSTANTS
  Chains, TokenIDs,  \* sets of positive numbers, as the blacklists of a file name them
  RouterKinds,       \* the kinds the chains may be of
  Worlds,            \* the states of the config contract
  MaxChanges,        \* bound: changes of the config contract
  MaxFailures        \* bound: failed calls of the config contract and of gateways

\* A state of the config contract: the IDs it lists; for each chain its configuration (a router or 0,
\* and whether CheckConfig accepts it); for each token and chain its address (0 for none), its
\* configuration, its router (0 for the chain's), whether the chain agrees, and the additional fee
\* (0 for none) with whether it is well-formed; the routers whose public key is registered, rightly or
\* not; the limits and the fees of a token, whose chains may be 0 for any.
KeyStates == {"right", "other", "empty"}
LimitKinds == {"swap", "fee"}
LimitType == [from : Chains \cup {0}, to : Chains \cup {0}, v : Nat, ok : BOOLEAN]
TokenType ==
  [addr : Nat, extra : Nat, router : Nat, native : BOOLEAN, agrees : BOOLEAN, cfg : {"ok", "none", "other"},
   fee : Nat, feeOK : BOOLEAN]
ASSUME RouterConfigAssumption ==
  /\ Chains \subseteq Nat \ {0} /\ TokenIDs \subseteq Nat \ {0}
  /\ MaxChanges \in Nat /\ MaxFailures \in Nat
  /\ \A w \in Worlds :
       /\ w.chains \subseteq Chains /\ w.tokens \subseteq TokenIDs /\ w.keys \in [KeyStates -> SUBSET Nat]
       /\ w.chain \in [Chains -> [router : Nat, ok : BOOLEAN]]
       /\ w.token \in [TokenIDs -> [Chains -> TokenType]]
       /\ w.limits \in [LimitKinds -> [TokenIDs -> SUBSET LimitType]]

Addrs == UNION {UNION {{w.token[t][c].addr, w.token[t][c].extra} : t \in TokenIDs, c \in Chains} : w \in Worlds}

NoBridge == [chain |-> NoChainConfig, tokens |-> <<>>, signer |-> "absent", fast |-> FALSE]
NoAddrs == [c \in Chains |-> 0]
NoLimits == [t \in TokenIDs |-> [f \in Chains |-> [g \in Chains |-> 0]]]

VARIABLES
  world,      \* the config contract
  event,      \* an UpdateConfig log is waiting
  changes, failures,
  kindOf,     \* the kind of the chains
  phase,      \* "stopped", "loading" or "idle"
  bridges,    \* RouterBridges
  mcKnown, mcTokens,  \* MultichainTokens: the token IDs it has, and the addresses under each
  infos,      \* RouterInfos: <<router, chain>>
  allChains, allTokens,
  swapCfgs, feeCfgs,
  customs,    \* the additional fees (OnchainCustomConfig) by token and chain
  job         \* the load under way

rvars == <<world, event, changes, failures, kindOf, phase, bridges, mcKnown, mcTokens, infos, allChains, allTokens,
           swapCfgs, feeCfgs, customs, job>>
registry == <<bridges, mcKnown, mcTokens, infos, allChains, allTokens, swapCfgs, feeCfgs, customs>>

\* read is what the goroutine of a token has read of it before it stores the address.
Unread == [addr |-> 0, router |-> 0]
NoJob == [reload |-> FALSE, chains |-> {}, tokens |-> {}, pc |-> [c \in Chains |-> "none"],
          tok |-> [t \in TokenIDs |-> [c \in Chains |-> "none"]],
          read |-> [t \in TokenIDs |-> [c \in Chains |-> Unread]], routers |-> {}]

DontPanicInLoading(m, isReload) == "DontPanicInInitRouter" \in m.config.init \/ isReload

-----------------------------------------------------------------------------
(* The calls of the config contract. Each client is asked in turn, three     *)
(* more times while a load is under way; a call fails when all of them do.   *)

CallOnchainContract(calls) == {bad \in SUBSET calls : failures + Cardinality(bad) <= MaxFailures}
Failed(bad) == failures' = failures + Cardinality(bad)

GetAllChainIDs == {c \in world.chains : ~IsChainIDInBlackList(mem', c)}
GetAllTokenIDs == {t \in world.tokens : ~IsTokenIDInBlackList(mem', t)}
GetChainConfig(c) == world.chain[c]
GetMultichainToken(t, c) == world.token[t][c].addr
GetOnchainTokenConfig(t, c) ==
  LET e == world.token[t][c]
  IN [id |-> t, addr |-> e.addr, extra |-> e.extra, router |-> e.router, native |-> e.native, agrees |-> e.agrees,
      checked |-> FALSE]
GetMPCPubkey(router) ==
  IF \E k \in KeyStates : router \in world.keys[k] THEN CHOOSE k \in KeyStates : router \in world.keys[k] ELSE "malformed"

\* The entry for the two chains, else for the source chain, else for the destination chain, else for any.
LimitFor(entries, f, g) ==
  LET at(x, y) == {e \in entries : e.from = x /\ e.to = y}
      found == IF at(f, g) # {} THEN at(f, g) ELSE IF at(f, 0) # {} THEN at(f, 0)
               ELSE IF at(0, g) # {} THEN at(0, g) ELSE at(0, 0)
  IN IF found = {} THEN 0 ELSE (CHOOSE e \in found : TRUE).v
\* One wrong entry, or a failed call, and the token has none; at the start the program ends.
LimitsRight(what, t, bad) == <<what, t>> \notin bad /\ \A e \in world.limits[what][t] : e.ok
loadLimits(what, t, support, bad) ==
  [f \in Chains |-> [g \in Chains |->
     IF LimitsRight(what, t, bad) /\ {f, g} \subseteq support /\ f # g
     THEN LimitFor(world.limits[what][t], f, g) ELSE 0]]
loadSwapConfigs(t, support, bad) == loadLimits("swap", t, support, bad)
loadFeeConfigs(t, support, bad) == loadLimits("fee", t, support, bad)

-----------------------------------------------------------------------------
(* The registry                                                              *)

GetCachedMultichainToken(t, c) == IF t \in mcKnown THEN mcTokens[t][c] ELSE 0
GetRouterContract(c, a) ==
  LET cfg == GetTokenConfig(kindOf, bridges[c], a)
  IN IF cfg = NoToken THEN 0 ELSE IF cfg.router # 0 THEN cfg.router ELSE bridges[c].chain.router
GetTokenRouterContract(t, c) ==
  IF bridges[c] = NoBridge \/ GetCachedMultichainToken(t, c) = 0 THEN 0
  ELSE GetRouterContract(c, GetCachedMultichainToken(t, c))
GetTokenRouterInfo(t, c) == GetTokenRouterContract(t, c) # 0 /\ <<GetTokenRouterContract(t, c), c>> \in infos

SetChainConfig(b, c, cc) == [b EXCEPT !.chain = cc, !.fast = @ \/ IsUseFastMPC(mem, c)]

RegistryInit ==
  /\ bridges = [c \in Chains |-> NoBridge]
  /\ mcKnown = {} /\ mcTokens = [t \in TokenIDs |-> NoAddrs]
  /\ infos = {} /\ allChains = {} /\ allTokens = {}
  /\ swapCfgs = NoLimits /\ feeCfgs = NoLimits /\ customs = [t \in TokenIDs |-> NoAddrs]

RouterInit ==
  /\ LocalInit
  /\ world \in Worlds /\ event = FALSE /\ changes = 0 /\ failures = 0
  /\ kindOf \in RouterKinds
  /\ phase = "stopped" /\ job = NoJob
  /\ RegistryInit

\* The program ends: by log.Fatal, or by a panic.
Dies ==
  /\ phase' = "stopped" /\ job' = NoJob
  /\ bridges' = [c \in Chains |-> NoBridge]
  /\ mcKnown' = {} /\ mcTokens' = [t \in TokenIDs |-> NoAddrs]
  /\ infos' = {} /\ allChains' = {} /\ allTokens' = {}
  /\ swapCfgs' = NoLimits /\ feeCfgs' = NoLimits /\ customs' = [t \in TokenIDs |-> NoAddrs]

-----------------------------------------------------------------------------
(* A load                                                                    *)

StartLoad(isReload) ==
  /\ phase' = "loading"
  /\ job' = [NoJob EXCEPT !.reload = isReload, !.chains = GetAllChainIDs, !.tokens = GetAllTokenIDs,
                          !.pc = [c \in Chains |-> IF c \in GetAllChainIDs THEN "todo" ELSE "none"]]
  /\ UNCHANGED registry

\* The program starts: a call that fails, or an empty list, ends it again, or leaves it without
\* any chain until the first reload.
InitRouterBridges ==
  /\ phase = "stopped"
  /\ LocalRestart
  /\ \E bad \in CallOnchainContract({"ids"}) :
       LET ok == bad = {} /\ GetAllChainIDs # {} /\ GetAllTokenIDs # {}
       IN /\ Failed(bad)
          /\ CASE ok -> StartLoad(FALSE)
               [] ~ok /\ DontPanicInLoading(mem', FALSE) -> phase' = "idle" /\ UNCHANGED <<job, registry>>
               [] OTHER -> Dies
  /\ event' = FALSE
  /\ UNCHANGED <<world, changes, kindOf>>

\* A reload, by the timer, by a signal or for an UpdateConfig log; one at a time.
ReloadRouterConfig ==
  /\ phase = "idle"
  /\ LocalReload
  /\ event' = FALSE
  /\ \E bad \in CallOnchainContract({"ids"}) :
       /\ Failed(bad)
       /\ CASE ~mem'.running -> Dies
            [] mem'.running /\ bad = {} -> StartLoad(TRUE)
            [] OTHER -> UNCHANGED <<phase, job, registry>>
  /\ UNCHANGED <<world, changes, kindOf>>

Quiet == DontPanicInLoading(mem, job.reload)

\* InitRouterInfo for a router that this load has not initialised yet.
RouterOf(router, c, b, bad) ==
  CASE router = 0 -> "none"
    [] router # 0 /\ <<router, c>> \in job.routers -> "known"
    [] OTHER -> InitRouterInfo(kindOf, GetMPCPubkey(router), GetMPCPubkey(b.chain.router), bad)
Loaded(info, router, c) == IF info = "known" THEN {<<router, c>>} ELSE {}
Deadly(info) == info = "fatal" \/ (info = "error" /\ ~Quiet)

\* The bridge after InitChainConfig, and how its router ended.
InitChainConfig(b, c, bad) ==
  LET b1 == SetChainConfig(b, c, GetChainConfig(c))
  IN IF "config" \in bad \/ ~GetChainConfig(c).ok THEN [b |-> b, info |-> "error"]
     ELSE [b |-> b1, info |-> RouterOf(GetChainConfig(c).router, c, b1, bad)]

TokensTodo(c, todo) == [t \in TokenIDs |-> [job.tok[t] EXCEPT ![c] = IF todo /\ t \in job.tokens THEN "todo" ELSE "done"]]

\* At the start a chain without gateways is left out.
InitGatewayConfig(c) == job.reload \/ c \in mem.config.gateways
LeaveOutChain(c) ==
  IF ~Quiet THEN Dies
  ELSE job' = [job EXCEPT !.pc[c] = "tokens", !.tok = TokensTodo(c, FALSE)] /\ UNCHANGED <<phase, registry>>

LoadChain(c) ==
  /\ phase = "loading" /\ job.pc[c] = "todo"
  /\ \E bad \in CallOnchainContract({"config", "key", "node", "signer", "otherChain"}) :
       LET new == bridges[c] = NoBridge
           init == InitChainConfig(IF new THEN NewBridge(Addrs) ELSE bridges[c], c, bad)
           after == IF new THEN InitAfterConfig(kindOf, init.b, IsDynamicFeeTxEnabled(mem, c), c \in mem.config.finalize, bad, Quiet)
                    ELSE Done(init.b)
           loaded == Loaded(init.info, GetChainConfig(c).router, c)
       IN /\ Failed(bad)
          /\ IF ~InitGatewayConfig(c) THEN LeaveOutChain(c)
             ELSE IF Deadly(init.info) \/ after.end # "ok" THEN Dies
             ELSE /\ bridges' = [bridges EXCEPT ![c] = after.b]
                  /\ infos' = infos \cup loaded
                  /\ job' = [job EXCEPT !.pc[c] = "tokens", !.routers = @ \cup loaded, !.tok = TokensTodo(c, TRUE)]
                  /\ UNCHANGED <<phase, mcKnown, mcTokens, allChains, allTokens, swapCfgs, feeCfgs, customs>>
  /\ UNCHANGED <<world, event, changes, kindOf, lvars>>

\* An empty value leaves the one that is there.
CustomRight(t, c, bad) == "custom" \notin bad /\ world.token[t][c].feeOK
InitOnchainCustomConfig(t, c, bad) ==
  IF CustomRight(t, c, bad) /\ world.token[t][c].fee # 0 THEN [customs EXCEPT ![t][c] = world.token[t][c].fee] ELSE customs

\* The router in the configuration of a token once SetTokenConfig has returned.
RouterAfter(b, cfg) == IF kindOf \in {"solana", "aptos"} THEN WithRouter(b, cfg).router ELSE cfg.router
\* Whether SetMultichainToken finds a map of addresses of the token.
IsPresent(t) == IF t \in mcKnown THEN "present" ELSE "absent"

\* InitTokenConfig up to the point where SetMultichainToken has looked for the addresses of the token.
LoadToken(t, c) ==
  /\ phase = "loading" /\ job.tok[t][c] = "todo"
  /\ \E bad \in CallOnchainContract({"config", "custom", "node"}) :
       LET a == GetMultichainToken(t, c)
           cfg == GetOnchainTokenConfig(t, c)
           missing == "config" \notin bad /\ (a = 0 \/ world.token[t][c].cfg = "none")
           wrong == "config" \in bad \/ (~missing /\ world.token[t][c].cfg = "other")
           set == SetTokenConfig(kindOf, bridges[c], a, cfg,
                    [reload |-> job.reload, quiet |-> Quiet, dontCheck |-> DontCheckInInitRouter(mem), node |-> "node" \notin bad,
                     routerKnown |-> <<WithRouter(bridges[c], cfg).router, c>> \in infos])
       IN /\ Failed(bad)
          /\ IF ~Quiet /\ (wrong \/ (~missing /\ ~CustomRight(t, c, bad))) THEN Dies
             ELSE IF missing \/ wrong THEN job' = [job EXCEPT !.tok[t][c] = "done"] /\ UNCHANGED <<phase, registry>>
             ELSE IF set.end # "ok" THEN Dies
             ELSE /\ customs' = InitOnchainCustomConfig(t, c, bad)
                  /\ bridges' = [bridges EXCEPT ![c] = set.b]
                  /\ job' = [job EXCEPT !.tok[t][c] = IsPresent(t),
                                        !.read[t][c] = [addr |-> a, router |-> RouterAfter(bridges[c], cfg)]]
                  /\ UNCHANGED <<phase, mcKnown, mcTokens, infos, allChains, allTokens, swapCfgs, feeCfgs>>
  /\ UNCHANGED <<world, event, changes, kindOf, lvars>>

\* Mutation: the map of the addresses of a new token is filled and not kept.
SetMultichainToken_NotKept(t, c) ==
  IF job.tok[t][c] = "present"
  THEN mcTokens' = [mcTokens EXCEPT ![t][c] = job.read[t][c].addr] /\ UNCHANGED mcKnown
  ELSE UNCHANGED <<mcKnown, mcTokens>>

\* The rest: a goroutine that found none stores a map of its own, and what is stored in the other one is lost.
SetMultichainToken(t, c) ==
  LET a == job.read[t][c].addr
  IN CASE job.tok[t][c] = "present" -> mcTokens' = [mcTokens EXCEPT ![t][c] = a] /\ UNCHANGED mcKnown
       [] job.tok[t][c] = "absent" -> mcTokens' = [mcTokens EXCEPT ![t] = [NoAddrs EXCEPT ![c] = a]] /\ mcKnown' = mcKnown \cup {t}
       [] OTHER -> UNCHANGED <<mcKnown, mcTokens>>

StoreToken(t, c) ==
  /\ phase = "loading" /\ job.tok[t][c] \in {"present", "absent", "lost"}
  /\ \E bad \in CallOnchainContract({"key", "node"}) :
       LET router == job.read[t][c].router
           info == RouterOf(router, c, bridges[c], bad)
           loaded == Loaded(info, router, c)
       IN /\ Failed(bad)
          /\ IF Deadly(info) THEN Dies
             ELSE /\ SetMultichainToken(t, c)
                  /\ infos' = infos \cup loaded
                  /\ job' = [job EXCEPT
                       !.tok[t] = [d \in Chains |-> IF d = c THEN "done"
                                                    ELSE IF job.tok[t][c] = "absent" /\ @[d] = "present" THEN "lost" ELSE @[d]],
                       !.read[t][c] = Unread, !.routers = @ \cup loaded]
                  /\ UNCHANGED <<phase, bridges, allChains, allTokens, swapCfgs, feeCfgs, customs>>
  /\ UNCHANGED <<world, event, changes, kindOf, lvars>>

\* The end of a load: the limits; and what is no longer listed is removed.
Support(t) == {c \in job.chains : GetCachedMultichainToken(t, c) # 0}
Supported == {t \in job.tokens : Support(t) # {}}
loadSwapAndFeeConfigs(bad) ==
  /\ swapCfgs' = [t \in TokenIDs |-> loadSwapConfigs(t, IF t \in job.tokens THEN Support(t) ELSE {}, bad)]
  /\ feeCfgs' = [t \in TokenIDs |-> loadFeeConfigs(t, IF t \in job.tokens THEN Support(t) ELSE {}, bad)]
RemoveToken(b, t, c) ==
  IF bridges[c] = NoBridge \/ GetCachedMultichainToken(t, c) = 0 THEN Done(b)
  ELSE SetTokenConfig(kindOf, b, GetCachedMultichainToken(t, c), NoToken,
         [reload |-> TRUE, quiet |-> TRUE, dontCheck |-> FALSE, node |-> TRUE, routerKnown |-> TRUE])

WithoutTokens(c, removedTokens) ==
  LET gone == {GetCachedMultichainToken(t, c) : t \in removedTokens} \ {0}
  IN IF kindOf = "stellar" \/ bridges[c] = NoBridge \/ c \notin allChains THEN bridges[c]
     ELSE [bridges[c] EXCEPT !.tokens = [a \in Addrs |-> IF a \in gone THEN NoToken ELSE @[a]]]

Retire_TokensOnly(removedChains, removedTokens) == [c \in Chains |-> WithoutTokens(c, removedTokens)]

Retire(removedChains, removedTokens) ==
  [c \in Chains |-> IF c \in removedChains THEN NoBridge ELSE WithoutTokens(c, removedTokens)]

FinishLoad ==
  /\ phase = "loading"
  /\ \A c \in job.chains : job.pc[c] = "tokens" /\ \A t \in TokenIDs : job.tok[t][c] = "done"
  /\ \E bad \in CallOnchainContract(LimitKinds \X Supported) :
       LET removedChains == allChains \ job.chains
           removedTokens == allTokens \ job.tokens
           right == \A what \in LimitKinds, t \in Supported : LimitsRight(what, t, bad)
       IN /\ Failed(bad)
          /\ IF \/ ~right /\ ~Quiet
                \/ \E t \in removedTokens, c \in allChains : RemoveToken(bridges[c], t, c).end # "ok"
             THEN Dies
             ELSE /\ phase' = "idle" /\ job' = NoJob
                  /\ allChains' = job.chains /\ allTokens' = job.tokens
                  /\ loadSwapAndFeeConfigs(bad)
                  /\ bridges' = Retire(removedChains, removedTokens)
                  /\ mcKnown' = mcKnown \ removedTokens
                  /\ mcTokens' = [t \in TokenIDs |-> IF t \in removedTokens THEN NoAddrs ELSE mcTokens[t]]
                  /\ UNCHANGED <<infos, customs>>
  /\ UNCHANGED <<world, event, changes, kindOf, lvars>>

-----------------------------------------------------------------------------
ChangeWorld(w) ==
  /\ changes < MaxChanges
  /\ w # world
  /\ world' = w /\ event' = TRUE /\ changes' = changes + 1
  /\ UNCHANGED <<failures, kindOf, phase, registry, job, lvars>>

FileStep(f) == EditConfig(f) /\ UNCHANGED rvars

\* The steps of the program itself.
LoadStep ==
  \/ InitRouterBridges \/ ReloadRouterConfig \/ FinishLoad
  \/ \E c \in Chains : LoadChain(c)
  \/ \E t \in TokenIDs, c \in Chains : LoadToken(t, c) \/ StoreToken(t, c)
RouterNext ==
  \/ LoadStep
  \/ \E w \in Worlds : ChangeWorld(w)
  \/ \E f \in Files : FileStep(f)

cvars == <<rvars, lvars>>

-----------------------------------------------------------------------------
\* Between loads no chain and no token that the config contract stopped listing, or the file
\* blacklisted, can be used: no bridge is left for such a chain and no router is found for such a token
\* (the removals at the end of ReloadRouterConfig), whatever goroutines of the load raced or failed.
RetiredIsUnusable ==
  phase = "idle" =>
  /\ \A c \in Chains : bridges[c] # NoBridge => c \in allChains
  /\ \A t \in TokenIDs, c \in Chains : GetTokenRouterInfo(t, c) => t \in allTokens /\ c \in allChains

\* Everything the config contract and the file say is right.
GetAllOf(ids, b) == {i \in ids : i \notin mem.black[b] /\ i \notin cfgFile.black[b]}
WorldIsRight ==
  /\ world.chains # {} /\ world.tokens # {} /\ cfgFile \in Loadable(mem.server)
  /\ world.chains \subseteq cfgFile.gateways \cap cfgFile.finalize
  /\ \A c \in world.chains : world.chain[c].ok /\ world.chain[c].router \in world.keys["right"]
  /\ \A t \in world.tokens, c \in world.chains :
       LET e == world.token[t][c]
       IN /\ e.agrees /\ e.cfg = "ok" /\ e.feeOK /\ e.router \in world.keys["right"] \cup {0}
          /\ kindOf = "solana" => e.native \/ e.router \in {0, world.chain[c].router}
  /\ \A what \in LimitKinds, t \in world.tokens : \A e \in world.limits[what][t] : e.ok
  /\ GetAllOf(world.chains, "chainid") # {} /\ GetAllOf(world.tokens, "tokenid") # {}
\* Once the config contract and the file stay right, reloads bring every listed token of every chain into
\* the registry with the address and a known router of the contract (InitTokenConfig, SetMultichainToken):
\* an address lost to a race between two goroutines, a failed call or a crash is made up for. On solana a
\* token with a router of its own ends the program at every start, and is left out.
RegistryCatchesUp ==
  <>[]WorldIsRight =>
  <>[](\A t \in world.tokens, c \in world.chains :
         \/ IsChainIDInBlackList(mem, c) \/ IsTokenIDInBlackList(mem, t) \/ world.token[t][c].addr = 0
         \/ /\ GetCachedMultichainToken(t, c) = world.token[t][c].addr
            /\ GetTokenRouterInfo(t, c))
=============================================================================
