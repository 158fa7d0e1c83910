--------------------------- MODULE MCRouterConfig ---------------------------
(* The configuration of the router for TLC: either the gateways of a chain,  *)
(* or the settings derived from the file, or the registry of chains and      *)
(* tokens moves; the other two, which it does not read, stand still.         *)
EXTENDS Gateways, RouterConfig

GatewayLists == {<<"a", "b", "c">>, <<"b", "c">>}

Plain ==
  [err |-> "none", startOnly |-> FALSE, black |-> [b \in Blacklists |-> {}], onChain |-> {}, white |-> [l \in Whitelists |-> {}],
   lists |-> [l \in ExtraLists |-> {}], typo |-> "none", flags |-> {}, pending |-> FALSE, init |-> {},
   gateways |-> {1, 2}, finalize |-> {1, 2}, autoNonce |-> {}, fees |-> {}, fixed |-> 0, max |-> 0]
Full ==
  [Plain EXCEPT !.black = [b \in Blacklists |-> {2}], !.onChain = {<<1, 2>>}, !.white = [l \in Whitelists |-> {<<1, 0>>, <<1, 1>>}],
                !.lists = [l \in ExtraLists |-> {1}], !.flags = Flags, !.pending = TRUE, !.autoNonce = {1}, !.fees = {1},
                !.fixed = 1, !.max = 1]
Wider == [Plain EXCEPT !.white = [l \in Whitelists |-> {<<2, 0>>}], !.lists = [l \in ExtraLists |-> {1, 2}], !.fees = {1, 2}, !.fixed = 2]
Wrong == {[Full EXCEPT !.err = e] : e \in {"toml", "tokenOnChain", "tokenid", "localChain", "fee", "oracle"}}
Tolerant == [Plain EXCEPT !.init = InitOptions, !.gateways = {1}, !.finalize = {}]
ConfigFiles ==
  {Plain, Full, Wider, Tolerant, [Wider EXCEPT !.typo = "lists"], [Full EXCEPT !.err = "onchain", !.startOnly = TRUE]} \cup Wrong

Token(a, router, agrees, cfg) ==
  [addr |-> a, extra |-> a + 10, router |-> router, native |-> FALSE, agrees |-> agrees, cfg |-> cfg, fee |-> 1, feeOK |-> agrees]
Limit(f, t, v) == [from |-> f, to |-> t, v |-> v, ok |-> TRUE]
Whole ==
  [chains |-> {1, 2}, tokens |-> {1}, keys |-> [right |-> {7}, other |-> {}, empty |-> {}],
   chain |-> [c \in Chains |-> [router |-> 7, ok |-> TRUE]],
   token |-> [t \in TokenIDs |-> [c \in Chains |-> Token(10 * t + c, 0, TRUE, "ok")]],
   limits |-> [l \in LimitKinds |-> [t \in TokenIDs |-> {Limit(0, 0, 1), Limit(1, 0, 2)}]]]
NothingListed == [Whole EXCEPT !.chains = {}, !.tokens = {}]
Disagreeing == [Whole EXCEPT !.token[1][2] = Token(12, 8, FALSE, "ok"), !.chain[2].router = 8, !.keys["other"] = {8}]
ContractStates ==
  {Whole, NothingListed, Disagreeing,
   [Whole EXCEPT !.tokens = {}],
   [Whole EXCEPT !.chains = {1}],
   [Whole EXCEPT !.token[1][2] = Token(15, 8, TRUE, "ok"), !.keys["right"] = {7, 8}]}

VARIABLE subject
vars == <<subject, gvars, cvars>>

Init ==
  /\ GatewaysInit /\ RouterInit
  /\ subject \in {"gateways", "settings", "registry"}
  /\ file = <<"a", "b", "c">>
  /\ subject # "gateways" => kind = "stellar"
  /\ subject # "registry" => world = NothingListed /\ kindOf = "eth"
  /\ subject # "settings" => cfgFile \in {Plain, Tolerant} /\ mem.server
  /\ subject = "gateways" => cfgFile = Plain
  /\ subject = "registry" =>
       \/ cfgFile = Plain /\ world = Whole
       \/ cfgFile = Plain /\ world = Disagreeing /\ kindOf \in {"eth", "near", "solana"}
       \/ cfgFile = Tolerant /\ world = Whole /\ kindOf \in {"eth", "near"}

RegistryStep(A) ==
  /\ subject = "registry" /\ A
  /\ cfgFile' \in {cfgFile, Full} /\ edits' < 2 /\ world' # NothingListed
  /\ UNCHANGED <<subject, gvars>>
GatewaysStep(A) == subject = "gateways" /\ A /\ UNCHANGED <<subject, cvars>>

\* A program that a wrong file has ended waits for a file it can start with.
Stopped == ~mem.running /\ cfgFile \notin Loadable(mem.server)

Next ==
  \/ GatewaysStep(GatewaysNext)
  \/ subject = "settings" /\ LocalNext /\ UNCHANGED <<subject, gvars, rvars>>
  \/ subject = "settings" /\ Stopped /\ UNCHANGED vars
  \/ RegistryStep(RouterNext)

\* The reload timer, the goroutines of a load, the watcher of the gateway file and the adjust loop keep
\* running: each of their steps brings a load, or an adjustment, nearer to its end. A program that has
\* panicked is started again by its operator.
Fairness ==
  /\ WF_vars(RegistryStep(LoadStep))
  /\ WF_vars(GatewaysStep(updateGateway)) /\ WF_vars(GatewaysStep(AdjustLoop))
  /\ WF_vars(GatewaysStep(RestartGateways))

Spec == Init /\ [][Next]_vars /\ Fairness
=============================================================================
