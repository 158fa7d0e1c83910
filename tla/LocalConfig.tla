----------------------------- MODULE LocalConfig -----------------------------
(* The configuration file of the router and what the program keeps of it:    *)
(* routerConfig itself, and the maps and lists package params derives from   *)
(* it when it checks it, at the start and at every reload.                   *)
EXTENDS Naturals, FiniteSets

CONSTANTS
  Files,     \* the contents the configuration file may have
  MaxEdits,  \* bound: edits of the file
  AdminIDs,  \* the chain IDs, token IDs and accounts (as numbers) an administrator names
  MaxAdmin   \* bound: maintain calls of an administrator

\* The lists of section Extra that become maps: the whitelists by chain or token, and the plain ones.
Whitelists == {"CallByContract", "CallByContractCodeHash", "BigValue"}
ChainLists ==
  {"DynamicFeeTxEnabled", "EnableCheckTxBlockHash", "EnableCheckTxBlockIndex", "DisableUseFromChainIDInReceipt",
   "UseFastMPC", "IncreaseNonceWhenSendTx"}
TokenIDLists ==
  {"DontCheckReceived", "DontCheckBalance", "DontCheckTotalSupply", "CheckTokenBalanceEnabled", "IgnoreAnycallFallback"}
ExtraLists == ChainLists \cup TokenIDLists

Blacklists == {"chainid", "tokenid", "account"}
\* The options that are read once and then kept.
Flags == {"AllowCallByContract", "IsNFTSwapWithData", "CheckEIP1167Master", "IsDebugMode"}
InitOptions == {"DontPanicInInitRouter", "DontCheckInInitRouter"}

\* Where a check of a file fails.
Errors ==
  {"none", "toml", "identifier", "chainid", "tokenOnChain", "tokenid", "account", "localChain", "baseFee", "gasLimit",
   "fixedPrice", "maxPrice", "fee", "oracle", "mpc", "onchain"}

\* A file: where a check of it fails, and whether only at the start (startOnly: a duplicate entry, or a
\* connection that is not tried again); its blacklists and the one by chain; the whitelists, as pairs
\* <<key, member>>, with <<key, 0>> for the key itself; the lists; a wrong entry (typo) in one of the
\* lists that are checked when they become maps; the enabled flags, UsePendingBalance and InitOptions;
\* the chains that have gateways (gateways) and the ones that have the finalizing gateways they need
\* (finalize); and of section Server the chains of AutoSwapNonceEnabledChains and of DynamicFeeTx and
\* the tables of gas prices.
FileType ==
  [err : Errors, startOnly : BOOLEAN, black : [Blacklists -> SUBSET Nat], onChain : SUBSET (Nat \X Nat),
   white : [Whitelists -> SUBSET (Nat \X Nat)], lists : [ExtraLists -> SUBSET Nat], typo : {"none", "lists", "autoNonce"},
   flags : SUBSET Flags, pending : BOOLEAN, init : SUBSET InitOptions, gateways : SUBSET Nat, finalize : SUBSET Nat,
   autoNonce : SUBSET Nat, fees : SUBSET Nat, fixed : Nat, max : Nat]

ASSUME LocalConfigAssumption == Files \subseteq FileType /\ AdminIDs \subseteq Nat /\ MaxEdits \in Nat /\ MaxAdmin \in Nat

\* What the program keeps: whether it runs, as a server or an oracle; routerConfig, the maps derived
\* from one, GetBalanceBlockNumberOpt, and the flags read so far.
Derived(config, isServer) ==
  [running |-> TRUE, server |-> isServer, config |-> config, black |-> [b \in Blacklists |-> {}], onChain |-> {},
   white |-> [l \in Whitelists |-> {}], lists |-> [l \in ExtraLists |-> {}], autoNonce |-> {}, fixed |-> 0, max |-> 0,
   pending |-> FALSE, flags |-> [f \in Flags |-> "unread"]]

-----------------------------------------------------------------------------
(* The checks, each of which leaves something behind. A check gives what is  *)
(* kept after it and how it ended: "ok", "error", or "fatal" for the program.*)

Checked(m, end) == [m |-> m, end |-> end]
Judged(m, ok) == Checked(m, IF ok THEN "ok" ELSE "error")

\* A duplicate is no error in a reload, and connections are tried at the start only.
Refused(f, where, isReload) == f.err = where /\ ~(isReload /\ f.startOnly)

CheckBlacklistConfig_Merges(f, m, isReload) ==
  Judged([m EXCEPT !.black = [b \in Blacklists |-> @[b] \cup f.black[b]], !.onChain = f.onChain],
         f.err \notin {"chainid", "tokenOnChain", "tokenid", "account"})

\* The four blacklists are replaced one after the other, each once its own entries have been checked.
CheckBlacklistConfig(f, m, isReload) ==
  LET m1 == [m EXCEPT !.black["chainid"] = f.black["chainid"]]
      m2 == [m1 EXCEPT !.onChain = f.onChain]
      m3 == [m2 EXCEPT !.black["tokenid"] = f.black["tokenid"]]
      m4 == [m3 EXCEPT !.black["account"] = f.black["account"]]
  IN CASE Refused(f, "chainid", isReload) -> Checked(m, "error")
       [] Refused(f, "tokenOnChain", isReload) -> Checked(m1, "error")
       [] Refused(f, "tokenid", isReload) -> Checked(m2, "error")
       [] Refused(f, "account", isReload) -> Checked(m3, "error")
       [] OTHER -> Checked(m4, "ok")

\* An empty list of routerConfig (not of the file being checked) leaves the map as it was.
Replaced(old, new) == IF new = {} THEN old ELSE new

initCallByContractWhitelist(m) == Replaced(m.white["CallByContract"], m.config.white["CallByContract"])
initCallByContractCodeHashWhitelist(m) ==
  Replaced(m.white["CallByContractCodeHash"], m.config.white["CallByContractCodeHash"])
initBigValueWhitelist(m) == Replaced(m.white["BigValue"], m.config.white["BigValue"])
initChainLists(m) == [l \in ChainLists |-> Replaced(m.lists[l], m.config.lists[l])]
initTokenIDLists(m) == [l \in TokenIDLists |-> Replaced(m.lists[l], m.config.lists[l])]

\* A wrong chain ID or address in a list of routerConfig ends the program.
ExtraCheckConfig(f, m) ==
  LET chains == initChainLists(m)
      tokens == initTokenIDLists(m)
      white == [l \in Whitelists |->
                  CASE l = "CallByContract" -> initCallByContractWhitelist(m)
                    [] l = "CallByContractCodeHash" -> initCallByContractCodeHashWhitelist(m)
                    [] OTHER -> initBigValueWhitelist(m)]
      m1 == [m EXCEPT !.white = white, !.lists = [l \in ExtraLists |-> IF l \in ChainLists THEN chains[l] ELSE tokens[l]]]
      m2 == [m1 EXCEPT !.pending = @ \/ f.pending]
  IN CASE m.config.typo = "lists" -> Checked(m, "fatal")
       [] m.config.typo # "lists" /\ f.err = "localChain" -> Checked(m1, "error")
       [] OTHER -> Judged(m2, f.err # "baseFee")

initAutoSwapNonceEnabledChains(m) == Replaced(m.autoNonce, m.config.autoNonce)

CheckDynamicFeeTxConfig_OwnOnly(f, m) == f.err # "fee"

\* A chain whose dynamic fees are enabled must have its settings in the file being checked.
CheckDynamicFeeTxConfig(f, m) == f.err # "fee" /\ m.lists["DynamicFeeTxEnabled"] \subseteq f.fees

ServerCheckConfig(f, m, isReload) ==
  LET m1 == [m EXCEPT !.autoNonce = initAutoSwapNonceEnabledChains(m)]
      m2 == [m1 EXCEPT !.fixed = f.fixed]
      m3 == [m2 EXCEPT !.max = f.max]
  IN CASE f.err = "gasLimit" -> Checked(m, "error")
       [] f.err # "gasLimit" /\ m.config.typo = "autoNonce" -> Checked(m, "fatal")
       [] m.config.typo # "autoNonce" /\ Refused(f, "fixedPrice", isReload) -> Checked(m1, "error")
       [] m.config.typo # "autoNonce" /\ Refused(f, "maxPrice", isReload) -> Checked(m2, "error")
       [] OTHER -> Judged(m3, CheckDynamicFeeTxConfig(f, m3))
OracleCheckConfig(f, m, isReload) == Judged(m, ~Refused(f, "oracle", isReload))

MPCCheckConfig(f) == f.err # "mpc"
OnchainCheckConfig(f, isReload) == ~Refused(f, "onchain", isReload)

CheckConfig(f, m, isReload) ==
  LET b == CheckBlacklistConfig(f, m, isReload)
      e == ExtraCheckConfig(f, b.m)
      s == IF m.server THEN ServerCheckConfig(f, e.m, isReload) ELSE OracleCheckConfig(f, e.m, isReload)
  IN CASE f.err = "identifier" -> Checked(m, "error")
       [] f.err # "identifier" /\ b.end # "ok" -> b
       [] f.err # "identifier" /\ b.end = "ok" /\ e.end # "ok" -> e
       [] f.err # "identifier" /\ b.end = "ok" /\ e.end = "ok" /\ s.end # "ok" -> s
       [] OTHER -> Judged(s.m, MPCCheckConfig(f) /\ OnchainCheckConfig(f, isReload))

\* At the start the file becomes routerConfig before it is checked; one that fails ends the program.
LoadRouterConfig(f, isServer) == CheckConfig(f, Derived(f, isServer), FALSE)
Loadable(isServer) == {f \in Files : f.err # "toml" /\ LoadRouterConfig(f, isServer).end = "ok"}

\* A reload checks the file while routerConfig is still the old one.
ParamsReloadRouterConfig(f, m) ==
  LET c == CheckConfig(f, m, TRUE)
  IN CASE f.err = "toml" -> m
       [] f.err # "toml" /\ c.end = "ok" -> [c.m EXCEPT !.config = f]
       [] f.err # "toml" /\ c.end = "error" -> c.m
       [] OTHER -> [c.m EXCEPT !.running = FALSE]

-----------------------------------------------------------------------------
(* What an administrator may change in memory, and what is read              *)

AddOrRemove(s, xs, isAdd) == IF isAdd THEN s \cup xs ELSE s \ xs

\* The members of one key. What the key has then is also written into routerConfig, where the next
\* reload finds it; to remove from a key that is not there does nothing.
OfKey(list, k) == {e \in list : e[1] = k}
AddOrRemoveWhitelist(m, l, k, xs, isAdd) ==
  LET new == AddOrRemove(OfKey(m.white[l], k), {<<k, x>> : x \in xs}, isAdd) \cup {<<k, 0>>}
  IN IF ~isAdd /\ OfKey(m.white[l], k) = {} THEN m
     ELSE [m EXCEPT !.white[l] = (@ \ OfKey(@, k)) \cup new, !.config.white[l] = (@ \ OfKey(@, k)) \cup new]
AddOrRemoveCallByContractWhitelist(m, k, xs, isAdd) == AddOrRemoveWhitelist(m, "CallByContract", k, xs, isAdd)
AddOrRemoveCallByContractCodeHashWhitelist(m, k, xs, isAdd) == AddOrRemoveWhitelist(m, "CallByContractCodeHash", k, xs, isAdd)
AddOrRemoveBigValueWhitelist(m, k, xs, isAdd) == AddOrRemoveWhitelist(m, "BigValue", k, xs, isAdd)
AddOrRemoveBlackList(m, b, xs, isAdd) ==
  LET new == AddOrRemove(m.black[b], xs, isAdd) IN [m EXCEPT !.black[b] = new, !.config.black[b] = new]

\* The first reader of a flag fixes it.
ReadFlag(m, f) ==
  IF m.flags[f] # "unread" THEN m.flags[f] ELSE IF f \in m.config.flags THEN "on" ELSE "off"

IsChainIDInBlackList(m, c) == c \in m.black["chainid"]
IsTokenIDInBlackList(m, t) == t \in m.black["tokenid"]
IsDynamicFeeTxEnabled(m, c) == c \in m.lists["DynamicFeeTxEnabled"]
\* The settings are those of routerConfig, which for an oracle has none.
HasDynamicFeeTxConfig(m, c) == IsDynamicFeeTxEnabled(m, c) /\ m.server /\ c \in m.config.fees
IsUseFastMPC(m, c) == c \in m.lists["UseFastMPC"]
DontCheckInInitRouter(m) == "DontCheckInInitRouter" \in m.config.init

-----------------------------------------------------------------------------
VARIABLES
  cfgFile,  \* the configuration file
  mem,      \* what the program keeps of it
  paused,   \* pausedChainIDs
  edits, admin,
  fresh     \* reloads since the file was edited or an administrator changed something

lvars == <<cfgFile, mem, paused, edits, admin, fresh>>

LocalInit ==
  /\ \E isServer \in BOOLEAN : cfgFile \in Loadable(isServer) /\ mem = LoadRouterConfig(cfgFile, isServer).m
  /\ paused = {}
  /\ edits = 0 /\ admin = 0 /\ fresh = 0

EditConfig(f) ==
  /\ edits < MaxEdits
  /\ f # cfgFile
  /\ cfgFile' = f
  /\ edits' = edits + 1 /\ fresh' = 0
  /\ UNCHANGED <<mem, paused, admin>>

\* maintain: pause and unpause; whitelist and unwhitelist; blacklist and unblacklist.
AddPausedChainIDs(c) == paused' = paused \cup {c} /\ UNCHANGED mem
RemovePausedChainIDs(c) == paused' = paused \ {c} /\ UNCHANGED mem
Maintain(x, isAdd) ==
  /\ mem.running
  /\ admin < MaxAdmin
  /\ \/ isAdd /\ AddPausedChainIDs(x)
     \/ ~isAdd /\ RemovePausedChainIDs(x)
     \/ /\ \E k \in AdminIDs : mem' \in {AddOrRemoveCallByContractWhitelist(mem, k, {x}, isAdd),
                                         AddOrRemoveCallByContractCodeHashWhitelist(mem, k, {x}, isAdd),
                                         AddOrRemoveBigValueWhitelist(mem, k, {x}, isAdd)}
        /\ UNCHANGED paused
     \/ \E b \in Blacklists : mem' = AddOrRemoveBlackList(mem, b, {x}, isAdd) /\ UNCHANGED paused
  /\ admin' = admin + 1 /\ fresh' = 0
  /\ UNCHANGED <<cfgFile, edits>>

\* The verification of a swap reads the flags.
ReadOptions ==
  /\ mem.running
  /\ \E f \in Flags : mem.flags[f] = "unread"
  /\ mem' = [mem EXCEPT !.flags = [f \in Flags |-> ReadFlag(mem, f)]]
  /\ UNCHANGED <<cfgFile, paused, edits, admin, fresh>>

LocalReload ==
  /\ mem.running
  /\ mem' = ParamsReloadRouterConfig(cfgFile, mem)
  /\ fresh' = IF ~mem'.running THEN 0 ELSE IF fresh < 2 THEN fresh + 1 ELSE fresh
  /\ UNCHANGED <<cfgFile, paused, edits, admin>>

LocalRestart ==
  /\ cfgFile \in Loadable(mem.server)
  /\ mem' = LoadRouterConfig(cfgFile, mem.server).m
  /\ paused' = {} /\ fresh' = 2
  /\ UNCHANGED <<cfgFile, edits, admin>>

LocalNext ==
  \/ \E f \in Files : EditConfig(f)
  \/ \E x \in AdminIDs, isAdd \in BOOLEAN : Maintain(x, isAdd)
  \/ ReadOptions \/ LocalReload \/ LocalRestart

-----------------------------------------------------------------------------
Catches(f) ==
  /\ mem.running /\ f \in Loadable(mem.server)
  /\ mem.server => mem.lists["DynamicFeeTxEnabled"] \subseteq f.fees

\* What ReloadRouterConfig promises: a file that is right in itself, and has the fee settings of every
\* chain whose dynamic fees are still enabled, is in force after one reload as far as the blacklists,
\* the gas prices of a server and routerConfig go, and after a second one also for the whitelists and
\* lists of section Extra (ExtraCheckConfig reads them from the configuration it is about to replace),
\* those excepted that the file leaves empty; whatever edits, failed reloads and maintain calls came
\* before, unless a wrong entry of the configuration it replaces ends the program.
SettingsCatchUp ==
  Catches(cfgFile) =>
  /\ fresh > 0 => /\ mem.black = cfgFile.black /\ mem.onChain = cfgFile.onChain /\ mem.config = cfgFile
                  /\ mem.server => mem.fixed = cfgFile.fixed /\ mem.max = cfgFile.max
  /\ fresh > 1 => /\ \A l \in Whitelists : mem.white[l] = cfgFile.white[l] \/ cfgFile.white[l] = {}
                  /\ \A l \in ExtraLists : mem.lists[l] = cfgFile.lists[l] \/ cfgFile.lists[l] = {}

\* A chain that IsDynamicFeeTxEnabled names always has an entry in DynamicFeeTx of routerConfig, so
\* that GetDynamicFeeTxConfig does not return nil to the server code that builds transactions; also
\* between a reload that failed half way and the next one. Only of files that a start would
\* accept: one that enables a chain without its entry is taken by the first reload that reads it
\* (CheckDynamicFeeTxConfig looks at the lists it is about to replace), and then this does not hold.
DynamicFeeHasConfig == mem.server => \A c \in mem.lists["DynamicFeeTxEnabled"] : HasDynamicFeeTxConfig(mem, c)
=============================================================================
