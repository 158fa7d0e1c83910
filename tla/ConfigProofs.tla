---------------------------- MODULE ConfigProofs ----------------------------
(* What is proved of the configuration: of the registry of chains and        *)
(* tokens (RouterConfig), of the settings derived from the file              *)
(* (LocalConfig) and of the gateways (Gateways).                             *)
EXTENDS Gateways, RouterConfig, FiniteSetTheorems, TLAPS

-----------------------------------------------------------------------------
(* RetiredIsUnusable, for every contract, file, kind of chain and number of  *)
(* chains and tokens: while a load is under way, what the registry has is    *)
(* listed by the last load or by this one.                                   *)

RegistrySpec == RouterInit /\ [][RouterNext]_cvars

TokStates == {"none", "todo", "present", "absent", "lost", "done"}
JobType(j) ==
  /\ j = [reload |-> j.reload, chains |-> j.chains, tokens |-> j.tokens, pc |-> j.pc, tok |-> j.tok, read |-> j.read,
          routers |-> j.routers]
  /\ j.chains \subseteq Chains /\ j.tokens \subseteq TokenIDs
  /\ j.pc \in [Chains -> {"none", "todo", "tokens"}]
  /\ j.tok \in [TokenIDs -> [Chains -> TokStates]]

RegistryInv ==
  /\ world \in Worlds /\ JobType(job)
  /\ bridges = [c \in Chains |-> bridges[c]]
  /\ \A c \in Chains : job.pc[c] = "todo" => c \in job.chains
  /\ \A t \in TokenIDs, c \in Chains :
       job.tok[t][c] \in {"todo", "present", "absent", "lost"} => t \in job.tokens /\ c \in job.chains
  /\ \A c \in Chains : bridges[c] # NoBridge => c \in allChains \/ (phase = "loading" /\ c \in job.chains)
  /\ mcKnown \subseteq allTokens \cup (IF phase = "loading" THEN job.tokens ELSE {})

LEMMA DiesOK ==
  ASSUME world' \in Worlds, Dies
  PROVE  RegistryInv'
<1>1. JobType(NoJob)
  BY DEF NoJob, JobType, TokStates
<1>2. /\ \A c \in Chains : NoJob.pc[c] = "none"
      /\ \A t \in TokenIDs, c \in Chains : NoJob.tok[t][c] = "none"
  BY DEF NoJob
<1> QED BY <1>1, <1>2 DEF Dies, RegistryInv

LEMMA StartLoadOK ==
  ASSUME RegistryInv, UNCHANGED world, NEW isReload \in BOOLEAN, StartLoad(isReload),
         phase # "loading"
  PROVE  RegistryInv'
<1> DEFINE cs == GetAllChainIDs
           ts == GetAllTokenIDs
<1>1. cs \subseteq Chains /\ ts \subseteq TokenIDs
  BY RouterConfigAssumption DEF RegistryInv, GetAllChainIDs, GetAllTokenIDs
<1>2. job' = [reload |-> isReload, chains |-> cs, tokens |-> ts,
              pc |-> [c \in Chains |-> IF c \in cs THEN "todo" ELSE "none"],
              tok |-> NoJob.tok, read |-> NoJob.read, routers |-> {}]
  BY DEF StartLoad, NoJob
<1>3. /\ NoJob.tok \in [TokenIDs -> [Chains -> {"none"}]]
      /\ \A t \in TokenIDs, c \in Chains : NoJob.tok[t][c] = "none"
  BY DEF NoJob
<1> HIDE DEF cs, ts
<1>4. /\ JobType(job') /\ job'.chains = cs /\ job'.tokens = ts
      /\ \A c \in Chains : job'.pc[c] = "todo" => c \in cs
      /\ \A t \in TokenIDs, c \in Chains : job'.tok[t][c] = "none"
  BY <1>1, <1>2, <1>3 DEF JobType, TokStates
<1>5. phase' = "loading" /\ UNCHANGED registry
  BY DEF StartLoad
<1> QED BY <1>4, <1>5 DEF RegistryInv, registry

\* The job after the configuration of a chain: only that chain's part of it has changed.
LEMMA JobAfterChain ==
  ASSUME RegistryInv, NEW c \in Chains, NEW todo \in BOOLEAN, NEW routers,
         \/ job' = [job EXCEPT !.pc[c] = "tokens", !.tok = TokensTodo(c, todo)]
         \/ job' = [job EXCEPT !.pc[c] = "tokens", !.routers = routers, !.tok = TokensTodo(c, todo)]
  PROVE  /\ JobType(job') /\ job'.chains = job.chains /\ job'.tokens = job.tokens
         /\ \A d \in Chains : job'.pc[d] = IF d = c THEN "tokens" ELSE job.pc[d]
         /\ \A t \in TokenIDs, d \in Chains :
              job'.tok[t][d] = IF d # c THEN job.tok[t][d] ELSE IF todo /\ t \in job.tokens THEN "todo" ELSE "done"
<1> DEFINE tok == TokensTodo(c, todo)
<1>1. /\ tok \in [TokenIDs -> [Chains -> TokStates]]
      /\ \A t \in TokenIDs, d \in Chains :
           tok[t][d] = IF d # c THEN job.tok[t][d] ELSE IF todo /\ t \in job.tokens THEN "todo" ELSE "done"
  BY DEF TokensTodo, RegistryInv, JobType, TokStates
<1> HIDE DEF tok
<1>2. JobType(job)
  BY DEF RegistryInv
<1>3. /\ job' = [reload |-> job.reload, chains |-> job.chains, tokens |-> job.tokens, pc |-> [job.pc EXCEPT ![c] = "tokens"],
                 tok |-> tok, read |-> job.read, routers |-> job'.routers]
  BY <1>2 DEF JobType, tok
<1> QED BY <1>1, <1>2, <1>3 DEF JobType

LEMMA LoadChainOK ==
  ASSUME RegistryInv, NEW c \in Chains, LoadChain(c)
  PROVE  RegistryInv'
<1>1. CASE Dies
  BY <1>1, DiesOK DEF LoadChain, RegistryInv
<1>2. CASE ~Dies
  <2> DEFINE Step(todo, b, routers) ==
        /\ \/ job' = [job EXCEPT !.pc[c] = "tokens", !.tok = TokensTodo(c, todo)]
           \/ job' = [job EXCEPT !.pc[c] = "tokens", !.routers = routers, !.tok = TokensTodo(c, todo)]
        /\ bridges' = bridges \/ bridges' = [bridges EXCEPT ![c] = b]
        /\ UNCHANGED <<phase, mcKnown, allChains, allTokens, world>>
  <2>1. \E todo \in BOOLEAN : \E b, routers : Step(todo, b, routers)
    <3>1. CASE LeaveOutChain(c)
      BY <1>2, <3>1 DEF LeaveOutChain, registry, LoadChain
    <3>2. CASE ~LeaveOutChain(c)
      <4>1. PICK b, loaded :
              /\ bridges' = [bridges EXCEPT ![c] = b]
              /\ job' = [job EXCEPT !.pc[c] = "tokens", !.routers = @ \cup loaded, !.tok = TokensTodo(c, TRUE)]
              /\ UNCHANGED <<phase, mcKnown, allChains, allTokens, world>>
        BY <1>2, <3>2, Zenon DEF LoadChain
      <4>2. Step(TRUE, b, job.routers \cup loaded)
        BY <4>1 DEF RegistryInv, JobType
      <4> QED BY <4>2
    <3> QED BY <3>1, <3>2
  <2>2. PICK todo \in BOOLEAN : \E b, routers : Step(todo, b, routers)
    BY <2>1
  <2>3. PICK b, routers : Step(todo, b, routers)
    BY <2>2
  <2>4. phase = "loading" /\ c \in job.chains
    BY DEF LoadChain, RegistryInv
  <2>5. /\ JobType(job') /\ job'.chains = job.chains /\ job'.tokens = job.tokens
        /\ \A d \in Chains : job'.pc[d] = IF d = c THEN "tokens" ELSE job.pc[d]
        /\ \A t \in TokenIDs, d \in Chains :
             job'.tok[t][d] = IF d # c THEN job.tok[t][d] ELSE IF todo /\ t \in job.tokens THEN "todo" ELSE "done"
    <3>1. CASE job' = [job EXCEPT !.pc[c] = "tokens", !.tok = TokensTodo(c, todo)]
      BY <3>1, JobAfterChain
    <3>2. CASE job' = [job EXCEPT !.pc[c] = "tokens", !.routers = routers, !.tok = TokensTodo(c, todo)]
      BY <3>2, JobAfterChain
    <3> QED BY <2>3, <3>1, <3>2
  <2>6. /\ bridges' = [d \in Chains |-> bridges'[d]]
        /\ \A d \in Chains : d # c => bridges'[d] = bridges[d]
    BY <2>3 DEF RegistryInv
  <2> QED BY <2>3, <2>4, <2>5, <2>6 DEF RegistryInv
<1> QED BY <1>1, <1>2

LEMMA LoadTokenOK ==
  ASSUME RegistryInv, NEW t \in TokenIDs, NEW c \in Chains, LoadToken(t, c)
  PROVE  RegistryInv'
<1>1. CASE Dies
  BY <1>1, DiesOK DEF LoadToken, RegistryInv
<1>2. CASE ~Dies
  <2> DEFINE Step(step, b, read) ==
        /\ step \in {"done", "present", "absent"}
        /\ job' = [reload |-> job.reload, chains |-> job.chains, tokens |-> job.tokens, pc |-> job.pc,
                   tok |-> [job.tok EXCEPT ![t][c] = step], read |-> read, routers |-> job.routers]
        /\ bridges' = bridges \/ bridges' = [bridges EXCEPT ![c] = b]
        /\ UNCHANGED <<phase, mcKnown, allChains, allTokens, world>>
  <2>1. \E step, b, read : Step(step, b, read)
    <3>1. CASE job' = [job EXCEPT !.tok[t][c] = "done"] /\ UNCHANGED <<phase, registry>>
      <4>1. PICK step, b, read : step = "done" /\ b = bridges /\ read = job.read
        OBVIOUS
      <4>2. Step(step, b, read)
        BY <3>1, <4>1 DEF registry, LoadToken, RegistryInv, JobType
      <4> HIDE DEF Step
      <4> QED BY <4>2
    <3>2. CASE ~(job' = [job EXCEPT !.tok[t][c] = "done"] /\ UNCHANGED <<phase, registry>>)
      <4>1. PICK b, read :
              /\ bridges' = [bridges EXCEPT ![c] = b]
              /\ job' = [job EXCEPT !.tok[t][c] = IsPresent(t), !.read[t][c] = read]
              /\ UNCHANGED <<phase, mcKnown, allChains, allTokens, world>>
        BY <1>2, <3>2, Zenon DEF LoadToken
      <4>2. IsPresent(t) \in {"present", "absent"}
        BY DEF IsPresent
      <4>3. Step(IsPresent(t), b, job'.read)
        BY <4>1, <4>2 DEF RegistryInv, JobType
      <4> QED BY <4>3
    <3> QED BY <3>1, <3>2
  <2>5. PICK step, b, read : Step(step, b, read)
    BY <2>1
  <2>2. phase = "loading" /\ t \in job.tokens /\ c \in job.chains
    BY DEF LoadToken, RegistryInv
  <2>3. /\ JobType(job') /\ job'.chains = job.chains /\ job'.tokens = job.tokens /\ job'.pc = job.pc
        /\ \A u \in TokenIDs, d \in Chains :
             job'.tok[u][d] = IF u = t /\ d = c THEN step ELSE job.tok[u][d]
    <3> DEFINE tok == [job.tok EXCEPT ![t][c] = step]
    <3>1. JobType(job)
      BY DEF RegistryInv
    <3>2. /\ tok \in [TokenIDs -> [Chains -> TokStates]]
          /\ \A u \in TokenIDs, d \in Chains : tok[u][d] = IF u = t /\ d = c THEN step ELSE job.tok[u][d]
      BY <2>5, <3>1 DEF JobType, TokStates
    <3>3. job' = [reload |-> job.reload, chains |-> job.chains, tokens |-> job.tokens, pc |-> job.pc, tok |-> tok,
                  read |-> job'.read, routers |-> job.routers]
      BY <2>5, <3>1 DEF JobType
    <3> HIDE DEF tok
    <3> QED BY <3>1, <3>2, <3>3 DEF JobType
  <2>4. /\ bridges' = [d \in Chains |-> bridges'[d]]
        /\ \A d \in Chains : d # c => bridges'[d] = bridges[d]
    BY <2>5 DEF RegistryInv
  <2> QED BY <2>5, <2>2, <2>3, <2>4 DEF RegistryInv
<1> QED BY <1>1, <1>2

LEMMA StoreTokenOK ==
  ASSUME RegistryInv, NEW t \in TokenIDs, NEW c \in Chains, StoreToken(t, c)
  PROVE  RegistryInv'
<1>1. CASE Dies
  BY <1>1, DiesOK DEF StoreToken, RegistryInv
<1>2. CASE ~Dies
  <2> DEFINE new == [d \in Chains |-> IF d = c THEN "done"
                       ELSE IF job.tok[t][c] = "absent" /\ job.tok[t][d] = "present" THEN "lost" ELSE job.tok[t][d]]
  <2>1. PICK loaded :
          job' = [job EXCEPT !.tok[t] = new, !.read[t][c] = Unread, !.routers = @ \cup loaded]
    BY <1>2 DEF StoreToken
  <2>2. /\ UNCHANGED <<phase, bridges, allChains, allTokens, world>>
        /\ SetMultichainToken(t, c)
    BY <1>2 DEF StoreToken
  <2>3. mcKnown' \subseteq mcKnown \cup {t}
    BY <2>2 DEF SetMultichainToken
  <2>4. phase = "loading" /\ t \in job.tokens /\ c \in job.chains
    BY DEF StoreToken, RegistryInv
  <2>5. JobType(job)
    BY DEF RegistryInv
  <2>6. /\ new \in [Chains -> TokStates]
        /\ \A d \in Chains : new[d] \in {"done", "lost", job.tok[t][d]}
        /\ \A d \in Chains : new[d] = "lost" => job.tok[t][d] \in {"present", "lost"}
    BY <2>5 DEF JobType, TokStates
  <2> HIDE DEF new
  <2>7. /\ JobType(job') /\ job'.chains = job.chains /\ job'.tokens = job.tokens /\ job'.pc = job.pc
        /\ \A u \in TokenIDs : job'.tok[u] = IF u = t THEN new ELSE job.tok[u]
    <3>1. job' = [reload |-> job.reload, chains |-> job.chains, tokens |-> job.tokens, pc |-> job.pc,
                  tok |-> [job.tok EXCEPT ![t] = new], read |-> job'.read, routers |-> job'.routers]
      BY <2>1, <2>5 DEF JobType
    <3> QED BY <2>5, <2>6, <3>1 DEF JobType
  <2>8. \A u \in TokenIDs, d \in Chains :
          job'.tok[u][d] \in {"todo", "present", "absent", "lost"} => u \in job.tokens /\ d \in job.chains
    BY <2>6, <2>7 DEF RegistryInv
  <2> QED BY <2>2, <2>3, <2>4, <2>7, <2>8 DEF RegistryInv
<1> QED BY <1>1, <1>2

LEMMA FinishLoadOK ==
  ASSUME RegistryInv, FinishLoad
  PROVE  RegistryInv'
<1>1. CASE Dies
  BY <1>1, DiesOK DEF FinishLoad, RegistryInv
<1>2. CASE ~Dies
  <2> DEFINE gone == allChains \ job.chains
             removedTokens == allTokens \ job.tokens
  <2>1. /\ phase = "loading" /\ phase' = "idle" /\ job' = NoJob
        /\ allChains' = job.chains /\ allTokens' = job.tokens /\ world' = world
        /\ bridges' = Retire(gone, removedTokens)
        /\ mcKnown' = mcKnown \ removedTokens
    BY <1>2 DEF FinishLoad
  <2>2. /\ bridges' = [c \in Chains |-> bridges'[c]]
        /\ \A c \in Chains : bridges'[c] # NoBridge => bridges[c] # NoBridge /\ c \notin gone
    BY <2>1 DEF Retire, WithoutTokens
  <2>3. /\ JobType(NoJob) /\ \A c \in Chains : NoJob.pc[c] = "none"
        /\ \A t \in TokenIDs, c \in Chains : NoJob.tok[t][c] = "none"
    BY DEF NoJob, JobType, TokStates
  <2> QED BY <2>1, <2>2, <2>3 DEF RegistryInv
<1> QED BY <1>1, <1>2

LEMMA RegistryPreserved ==
  ASSUME RegistryInv, [RouterNext]_cvars
  PROVE  RegistryInv'
<1>1. CASE InitRouterBridges
  <2>1. /\ world' = world /\ phase = "stopped"
        /\ Dies \/ StartLoad(FALSE) \/ (phase' = "idle" /\ UNCHANGED <<job, registry>>)
    BY <1>1 DEF InitRouterBridges
  <2>2. CASE phase' = "idle" /\ UNCHANGED <<job, registry>>
    BY <2>1, <2>2 DEF RegistryInv, registry
  <2> QED BY <2>1, <2>2, DiesOK, StartLoadOK DEF RegistryInv
<1>2. CASE ReloadRouterConfig
  <2>1. world' = world /\ (Dies \/ StartLoad(TRUE) \/ UNCHANGED <<phase, job, registry>>) /\ phase = "idle"
    BY <1>2 DEF ReloadRouterConfig
  <2>2. CASE UNCHANGED <<phase, job, registry>>
    BY <2>1, <2>2 DEF RegistryInv, registry
  <2> QED BY <2>1, <2>2, DiesOK, StartLoadOK DEF RegistryInv
<1>3. CASE \E w \in Worlds : ChangeWorld(w)
  BY <1>3 DEF ChangeWorld, RegistryInv, registry
<1>4. CASE (\E f \in Files : FileStep(f)) \/ UNCHANGED cvars
  BY <1>4 DEF FileStep, cvars, rvars, RegistryInv
<1> QED BY <1>1, <1>2, <1>3, <1>4, LoadChainOK, LoadTokenOK, StoreTokenOK, FinishLoadOK
        DEF RouterNext, LoadStep

\* No chain and no token that the last load did not list can be used between loads: the
\* goroutines of a load only add what it lists, and the removals at its end take away the rest.
THEOREM RetiredIsUnusableHolds == RegistrySpec => []RetiredIsUnusable
<1>1. RouterInit => RegistryInv
  <2>1. /\ JobType(NoJob) /\ \A c \in Chains : NoJob.pc[c] = "none"
        /\ \A t \in TokenIDs, c \in Chains : NoJob.tok[t][c] = "none"
    BY DEF NoJob, JobType, TokStates
  <2> QED BY <2>1 DEF RouterInit, RegistryInit, RegistryInv
<1>2. RegistryInv /\ [RouterNext]_cvars => RegistryInv'
  BY RegistryPreserved
<1>3. RegistryInv => RetiredIsUnusable
  BY DEF RegistryInv, RetiredIsUnusable, GetTokenRouterInfo, GetTokenRouterContract, GetCachedMultichainToken
<1> QED BY <1>1, <1>2, <1>3, PTL DEF RegistrySpec

-----------------------------------------------------------------------------
(* SettingsCatchUp, for every set of files, edits, maintain calls, reloads   *)
(* and restarts.                                                             *)

LocalSpec == LocalInit /\ [][LocalNext]_lvars

Pairs == Nat \X Nat
MemType ==
  [running : BOOLEAN, server : BOOLEAN, config : FileType, black : [Blacklists -> SUBSET Nat], onChain : SUBSET Pairs,
   white : [Whitelists -> SUBSET Pairs], lists : [ExtraLists -> SUBSET Nat], autoNonce : SUBSET Nat, fixed : Nat,
   max : Nat, pending : BOOLEAN, flags : [Flags -> {"unread", "on", "off"}]]

LocalType == cfgFile \in Files /\ mem \in MemType /\ fresh \in 0 .. 2

\* The whitelists and lists after a check that reached them.
Kept(m, l) == Replaced(m.lists[l], m.config.lists[l])
KeptWhite(m, l) == Replaced(m.white[l], m.config.white[l])
WithLists(m) ==
  [m EXCEPT !.white = [l \in Whitelists |-> KeptWhite(m, l)], !.lists = [l \in ExtraLists |-> Kept(m, l)]]

\* A file is right for a server or an oracle if no check of it fails for a reason of its own.
Right(f, isServer) ==
  /\ f.err \notin {"identifier", "chainid", "tokenOnChain", "tokenid", "account", "localChain", "baseFee", "mpc", "onchain"}
  /\ isServer => f.err \notin {"gasLimit", "fixedPrice", "maxPrice", "fee"}
  /\ ~isServer => f.err # "oracle"

\* Which parts of what is kept a check leaves alone.
Same(n, m) ==
  n \in MemType /\ n.config = m.config /\ n.server = m.server /\ n.running = m.running

\* What the check of the blacklists leaves behind.
LEMMA CheckBlack ==
  ASSUME NEW f \in FileType, NEW m \in MemType, NEW isReload \in BOOLEAN
  PROVE  LET b == CheckBlacklistConfig(f, m, isReload)
         IN /\ Same(b.m, m) /\ b.m.lists = m.lists /\ b.m.white = m.white
            /\ b.end \in {"ok", "error"}
            /\ Right(f, m.server) => b.end = "ok"
            /\ b.end = "ok" => /\ b.m.black = f.black /\ b.m.onChain = f.onChain
                               /\ ~isReload => f.err \notin {"chainid", "tokenOnChain", "tokenid", "account"}
<1> DEFINE m1 == [m EXCEPT !.black["chainid"] = f.black["chainid"]]
           m2 == [m1 EXCEPT !.onChain = f.onChain]
           m3 == [m2 EXCEPT !.black["tokenid"] = f.black["tokenid"]]
           m4 == [m3 EXCEPT !.black["account"] = f.black["account"]]
           Goal(n) == Same(n, m) /\ n.lists = m.lists /\ n.white = m.white
           b == CheckBlacklistConfig(f, m, isReload)
<1>1. b = CASE Refused(f, "chainid", isReload) -> Checked(m, "error")
            [] Refused(f, "tokenOnChain", isReload) -> Checked(m1, "error")
            [] Refused(f, "tokenid", isReload) -> Checked(m2, "error")
            [] Refused(f, "account", isReload) -> Checked(m3, "error")
            [] OTHER -> Checked(m4, "ok")
  BY DEF CheckBlacklistConfig
<1>2. Goal(m) /\ Goal(m1) /\ m1.black = [m.black EXCEPT !["chainid"] = f.black["chainid"]]
  BY DEF Same, MemType, FileType, Blacklists
<1> HIDE DEF m1
<1>3. Goal(m2) /\ m2.black = m1.black /\ m2.onChain = f.onChain
  <2>1. f.onChain \in SUBSET Pairs
    BY DEF FileType, Pairs
  <2> QED BY <1>2, <2>1 DEF Same, MemType
<1> HIDE DEF m2
<1>4. Goal(m3) /\ m3.black = [m2.black EXCEPT !["tokenid"] = f.black["tokenid"]] /\ m3.onChain = f.onChain
  BY <1>3 DEF Same, MemType, FileType, Blacklists
<1> HIDE DEF m3
<1>5. Goal(m4) /\ m4.black = [m3.black EXCEPT !["account"] = f.black["account"]] /\ m4.onChain = f.onChain
  BY <1>4 DEF Same, MemType, FileType, Blacklists
<1>6. m4.black = f.black
  BY <1>2, <1>3, <1>4, <1>5 DEF MemType, FileType, Blacklists
<1> HIDE DEF m4, b, Goal
<1> SUFFICES /\ Goal(b.m) /\ b.end \in {"ok", "error"}
             /\ Right(f, m.server) => b.end = "ok"
             /\ b.end = "ok" => /\ b.m.black = f.black /\ b.m.onChain = f.onChain
                                /\ ~isReload => f.err \notin {"chainid", "tokenOnChain", "tokenid", "account"}
  BY DEF Goal, b
<1>7. /\ Goal(b.m) /\ b.end \in {"ok", "error"}
      /\ b.end = "ok" => /\ b.m = m4
                         /\ \A where \in {"chainid", "tokenOnChain", "tokenid", "account"} : ~Refused(f, where, isReload)
      /\ b.end = "error" => \E where \in {"chainid", "tokenOnChain", "tokenid", "account"} : Refused(f, where, isReload)
  BY <1>1, <1>2, <1>3, <1>4, <1>5 DEF Checked
<1>8. (\E where \in {"chainid", "tokenOnChain", "tokenid", "account"} : Refused(f, where, isReload)) => ~Right(f, m.server)
  BY DEF Refused, Right
<1>9. /\ ~isReload /\ \A where \in {"chainid", "tokenOnChain", "tokenid", "account"} : ~Refused(f, where, isReload)
      => f.err \notin {"chainid", "tokenOnChain", "tokenid", "account"}
  BY DEF Refused
<1> QED BY <1>5, <1>6, <1>7, <1>8, <1>9

\* What the check of section Extra leaves behind.
LEMMA CheckExtra ==
  ASSUME NEW f \in FileType, NEW m \in MemType
  PROVE  LET e == ExtraCheckConfig(f, m)
         IN /\ Same(e.m, m) /\ e.m.black = m.black /\ e.m.onChain = m.onChain
            /\ e.end \in {"ok", "error", "fatal"}
            /\ \A l \in ExtraLists : e.m.lists[l] \in {m.lists[l], Kept(m, l)}
            /\ e.end # "fatal" => /\ \A l \in ExtraLists : e.m.lists[l] = Kept(m, l)
                                  /\ \A l \in Whitelists : e.m.white[l] = KeptWhite(m, l)
                                  /\ Right(f, m.server) => e.end = "ok"
            /\ e.end = "ok" => f.err \notin {"localChain", "baseFee"}
<1> DEFINE e == ExtraCheckConfig(f, m)
           m1 == WithLists(m)
           m2 == [m1 EXCEPT !.pending = @ \/ f.pending]
<1>1. e = CASE m.config.typo = "lists" -> Checked(m, "fatal")
            [] m.config.typo # "lists" /\ f.err = "localChain" -> Checked(m1, "error")
            [] OTHER -> Judged(m2, f.err # "baseFee")
  <2> DEFINE chains == initChainLists(m)
             tokens == initTokenIDLists(m)
             lists == [l \in ExtraLists |-> IF l \in ChainLists THEN chains[l] ELSE tokens[l]]
             white == [l \in Whitelists |->
                         CASE l = "CallByContract" -> initCallByContractWhitelist(m)
                           [] l = "CallByContractCodeHash" -> initCallByContractCodeHashWhitelist(m)
                           [] OTHER -> initBigValueWhitelist(m)]
  <2>1. lists = [l \in ExtraLists |-> Kept(m, l)]
    <3>1. ASSUME NEW l \in ExtraLists PROVE lists[l] = Kept(m, l)
      BY DEF initChainLists, initTokenIDLists, Kept, ExtraLists
    <3> QED BY <3>1
  <2>2. white = [l \in Whitelists |-> KeptWhite(m, l)]
    <3>1. ASSUME NEW l \in Whitelists PROVE white[l] = KeptWhite(m, l)
      BY DEF Whitelists, KeptWhite, initCallByContractWhitelist, initCallByContractCodeHashWhitelist, initBigValueWhitelist
    <3> QED BY <3>1
  <2>3. [m EXCEPT !.white = white, !.lists = lists] = m1
    BY <2>1, <2>2 DEF WithLists
  <2> HIDE DEF lists, white, m1
  <2> QED BY <2>3 DEF ExtraCheckConfig, lists, white, chains, tokens
<1>2. /\ [l \in ExtraLists |-> Kept(m, l)] \in [ExtraLists -> SUBSET Nat]
      /\ [l \in Whitelists |-> KeptWhite(m, l)] \in [Whitelists -> SUBSET Pairs]
  BY DEF Kept, KeptWhite, Replaced, MemType, FileType, Pairs
<1>3. /\ Same(m1, m) /\ m1.black = m.black /\ m1.onChain = m.onChain
      /\ \A l \in ExtraLists : m1.lists[l] = Kept(m, l)
      /\ \A l \in Whitelists : m1.white[l] = KeptWhite(m, l)
  BY <1>2 DEF Same, MemType, WithLists
<1> HIDE DEF m1
<1>4. /\ Same(m2, m) /\ m2.black = m.black /\ m2.onChain = m.onChain
      /\ \A l \in ExtraLists : m2.lists[l] = Kept(m, l)
      /\ \A l \in Whitelists : m2.white[l] = KeptWhite(m, l)
  <2>1. (m1.pending \/ f.pending) \in BOOLEAN
    BY <1>3 DEF Same, MemType, FileType
  <2>2. m2 = [m1 EXCEPT !.pending = (m1.pending \/ f.pending)]
    OBVIOUS
  <2> QED BY <1>3, <2>1, <2>2 DEF Same, MemType
<1> HIDE DEF m2, e
<1>5. Same(m, m)
  BY DEF Same
<1>6. CASE m.config.typo = "lists"
  BY <1>1, <1>5, <1>6 DEF Checked, e
<1>7. CASE m.config.typo # "lists" /\ f.err = "localChain"
  BY <1>1, <1>3, <1>7 DEF Checked, Right, e
<1>8. CASE m.config.typo # "lists" /\ f.err # "localChain"
  BY <1>1, <1>4, <1>8 DEF Checked, Judged, Right, e
<1> QED BY <1>6, <1>7, <1>8

\* What the check of section Server leaves behind.
LEMMA CheckServer ==
  ASSUME NEW f \in FileType, NEW m \in MemType, NEW isReload \in BOOLEAN, m.server
  PROVE  LET s == ServerCheckConfig(f, m, isReload)
         IN /\ Same(s.m, m) /\ s.m.black = m.black /\ s.m.onChain = m.onChain
            /\ s.m.lists = m.lists /\ s.m.white = m.white
            /\ s.end \in {"ok", "error", "fatal"}
            /\ s.end = "ok" => /\ m.lists["DynamicFeeTxEnabled"] \subseteq f.fees
                               /\ ~isReload => f.err \notin {"gasLimit", "fixedPrice", "maxPrice", "fee"}
            /\ Right(f, TRUE) /\ s.end # "fatal" =>
                 /\ s.m.fixed = f.fixed /\ s.m.max = f.max
                 /\ s.end = "ok" <=> m.lists["DynamicFeeTxEnabled"] \subseteq f.fees
<1> DEFINE s == ServerCheckConfig(f, m, isReload)
           m1 == [m EXCEPT !.autoNonce = initAutoSwapNonceEnabledChains(m)]
           m2 == [m1 EXCEPT !.fixed = f.fixed]
           m3 == [m2 EXCEPT !.max = f.max]
           Goal(n) == /\ Same(n, m) /\ n.black = m.black /\ n.onChain = m.onChain
                      /\ n.lists = m.lists /\ n.white = m.white
<1>1. s = CASE f.err = "gasLimit" -> Checked(m, "error")
            [] f.err # "gasLimit" /\ m.config.typo = "autoNonce" -> Checked(m, "fatal")
            [] m.config.typo # "autoNonce" /\ Refused(f, "fixedPrice", isReload) -> Checked(m1, "error")
            [] m.config.typo # "autoNonce" /\ Refused(f, "maxPrice", isReload) -> Checked(m2, "error")
            [] OTHER -> Judged(m3, CheckDynamicFeeTxConfig(f, m3))
  BY DEF ServerCheckConfig
<1>2. initAutoSwapNonceEnabledChains(m) \in SUBSET Nat
  BY DEF initAutoSwapNonceEnabledChains, Replaced, MemType, FileType
<1>3. Goal(m) /\ Goal(m1)
  BY <1>2 DEF Same, MemType
<1> HIDE DEF m1
<1>4. Goal(m2) /\ m2.fixed = f.fixed
  BY <1>3 DEF Same, MemType, FileType
<1> HIDE DEF m2
<1>5. Goal(m3) /\ m3.fixed = f.fixed /\ m3.max = f.max
  BY <1>4 DEF Same, MemType, FileType
<1> HIDE DEF m3, s
<1>6. CheckDynamicFeeTxConfig(f, m3) <=> f.err # "fee" /\ m.lists["DynamicFeeTxEnabled"] \subseteq f.fees
  BY <1>5 DEF CheckDynamicFeeTxConfig
<1>7. CASE f.err = "gasLimit"
  <2>1. s = Checked(m, "error")
    BY <1>1, <1>7 DEF Refused
  <2>2. s.m = m /\ s.end = "error"
    BY <2>1 DEF Checked
  <2> QED BY <1>3, <1>7, <2>2 DEF Right, s
<1>8. CASE f.err # "gasLimit" /\ m.config.typo = "autoNonce"
  <2>1. s = Checked(m, "fatal")
    BY <1>1, <1>8
  <2>2. s.m = m /\ s.end = "fatal"
    BY <2>1 DEF Checked
  <2> QED BY <1>3, <2>2 DEF s
<1>9. CASE f.err # "gasLimit" /\ m.config.typo # "autoNonce" /\ Refused(f, "fixedPrice", isReload)
  BY <1>1, <1>3, <1>9 DEF Checked, Right, Refused, s
<1>10. CASE /\ f.err # "gasLimit" /\ m.config.typo # "autoNonce" /\ ~Refused(f, "fixedPrice", isReload)
            /\ Refused(f, "maxPrice", isReload)
  BY <1>1, <1>4, <1>10 DEF Checked, Right, Refused, s
<1>11. CASE /\ f.err # "gasLimit" /\ m.config.typo # "autoNonce" /\ ~Refused(f, "fixedPrice", isReload)
            /\ ~Refused(f, "maxPrice", isReload)
  <2>1. s = Judged(m3, CheckDynamicFeeTxConfig(f, m3))
    BY <1>1, <1>11
  <2> HIDE DEF Goal
  <2>2. s.m = m3 /\ s.end = IF CheckDynamicFeeTxConfig(f, m3) THEN "ok" ELSE "error"
    BY <2>1 DEF Judged, Checked
  <2> QED BY <1>5, <1>6, <1>11, <2>2 DEF Goal, Right, Refused, s
<1> QED BY <1>7, <1>8, <1>9, <1>10, <1>11

\* What a check c of a file leaves behind. (A file that is no TOML is not checked.)
LeftBy(c, f, m, isReload) ==
  /\ Same(c.m, m)
  /\ \A l \in ExtraLists : c.m.lists[l] \in {m.lists[l], Kept(m, l)}
  /\ c.end \in {"ok", "error", "fatal"}
  /\ c.end = "ok" /\ m.server => c.m.lists["DynamicFeeTxEnabled"] \subseteq f.fees
  /\ c.end = "ok" /\ ~isReload => Right(f, m.server)
  /\ Right(f, m.server) /\ c.end # "fatal" =>
       /\ c.m.black = f.black /\ c.m.onChain = f.onChain
       /\ \A l \in ExtraLists : c.m.lists[l] = Kept(m, l)
       /\ m.server \/ c.end = "ok" => \A l \in Whitelists : c.m.white[l] = KeptWhite(m, l)
       /\ m.server => c.m.fixed = f.fixed /\ c.m.max = f.max
       /\ c.end = "ok" <=> (m.server => c.m.lists["DynamicFeeTxEnabled"] \subseteq f.fees)

LEMMA CheckResult ==
  ASSUME NEW f \in FileType, NEW m \in MemType, NEW isReload \in BOOLEAN
  PROVE  LeftBy(CheckConfig(f, m, isReload), f, m, isReload)
<1> DEFINE b == CheckBlacklistConfig(f, m, isReload)
           e == ExtraCheckConfig(f, b.m)
           s == IF m.server THEN ServerCheckConfig(f, e.m, isReload) ELSE OracleCheckConfig(f, e.m, isReload)
           c == CheckConfig(f, m, isReload)
           DFE == "DynamicFeeTxEnabled"
<1>1. /\ Same(b.m, m) /\ b.m.lists = m.lists /\ b.m.white = m.white
      /\ b.end \in {"ok", "error"}
      /\ Right(f, m.server) => b.end = "ok"
      /\ b.end = "ok" => /\ b.m.black = f.black /\ b.m.onChain = f.onChain
                         /\ ~isReload => f.err \notin {"chainid", "tokenOnChain", "tokenid", "account"}
  BY CheckBlack
<1>2. /\ Same(e.m, m) /\ e.m.black = b.m.black /\ e.m.onChain = b.m.onChain
      /\ e.end \in {"ok", "error", "fatal"}
      /\ \A l \in ExtraLists : e.m.lists[l] \in {m.lists[l], Kept(m, l)}
      /\ e.end # "fatal" => /\ \A l \in ExtraLists : e.m.lists[l] = Kept(m, l)
                            /\ \A l \in Whitelists : e.m.white[l] = KeptWhite(m, l)
                            /\ Right(f, m.server) => e.end = "ok"
      /\ e.end = "ok" => f.err \notin {"localChain", "baseFee"}
  <2> HIDE DEF b
  <2>1. b.m \in MemType /\ b.m.config = m.config /\ b.m.server = m.server
    BY <1>1 DEF Same
  <2>2. /\ Same(e.m, b.m) /\ e.m.black = b.m.black /\ e.m.onChain = b.m.onChain
        /\ e.end \in {"ok", "error", "fatal"}
        /\ \A l \in ExtraLists : e.m.lists[l] \in {b.m.lists[l], Kept(b.m, l)}
        /\ e.end # "fatal" => /\ \A l \in ExtraLists : e.m.lists[l] = Kept(b.m, l)
                              /\ \A l \in Whitelists : e.m.white[l] = KeptWhite(b.m, l)
                              /\ Right(f, b.m.server) => e.end = "ok"
        /\ e.end = "ok" => f.err \notin {"localChain", "baseFee"}
    BY <2>1, CheckExtra
  <2>3. (\A l : Kept(b.m, l) = Kept(m, l)) /\ (\A l : KeptWhite(b.m, l) = KeptWhite(m, l))
    BY <1>1 DEF Kept, KeptWhite, Same
  <2> HIDE DEF e
  <2> QED BY <1>1, <2>1, <2>2, <2>3 DEF Same
<1>3. /\ Same(s.m, m) /\ s.m.black = e.m.black /\ s.m.onChain = e.m.onChain
      /\ s.m.lists = e.m.lists /\ s.m.white = e.m.white
      /\ s.end \in {"ok", "error", "fatal"}
      /\ s.end = "ok" =>
           /\ m.server => e.m.lists[DFE] \subseteq f.fees
           /\ ~isReload => /\ m.server => f.err \notin {"gasLimit", "fixedPrice", "maxPrice", "fee"}
                           /\ ~m.server => f.err # "oracle"
      /\ Right(f, m.server) /\ s.end # "fatal" =>
           /\ m.server => s.m.fixed = f.fixed /\ s.m.max = f.max
           /\ s.end = "ok" <=> (m.server => e.m.lists[DFE] \subseteq f.fees)
  <2> HIDE DEF e
  <2>1. e.m \in MemType /\ e.m.config = m.config /\ e.m.server = m.server /\ e.m.running = m.running
    BY <1>2 DEF Same
  <2>2. CASE m.server
    <3>1. s = ServerCheckConfig(f, e.m, isReload)
      BY <2>2
    <3>2. /\ Same(s.m, e.m) /\ s.m.black = e.m.black /\ s.m.onChain = e.m.onChain
          /\ s.m.lists = e.m.lists /\ s.m.white = e.m.white
          /\ s.end \in {"ok", "error", "fatal"}
          /\ s.end = "ok" => /\ e.m.lists[DFE] \subseteq f.fees
                             /\ ~isReload => f.err \notin {"gasLimit", "fixedPrice", "maxPrice", "fee"}
          /\ Right(f, TRUE) /\ s.end # "fatal" =>
               /\ s.m.fixed = f.fixed /\ s.m.max = f.max
               /\ s.end = "ok" <=> e.m.lists[DFE] \subseteq f.fees
      BY <2>1, <2>2, <3>1, CheckServer
    <3>3. Right(f, m.server) => Right(f, TRUE)
      BY <2>2 DEF Right
    <3> HIDE DEF s
    <3> QED BY <2>1, <2>2, <3>2, <3>3 DEF Same
  <2>3. CASE ~m.server
    <3>1. s.m = e.m /\ s.end = IF Refused(f, "oracle", isReload) THEN "error" ELSE "ok"
      BY <2>3 DEF OracleCheckConfig, Judged, Checked
    <3> HIDE DEF s
    <3> QED BY <2>1, <2>3, <3>1 DEF Same, Right, Refused
  <2> QED BY <2>2, <2>3
<1>4. CASE f.err = "identifier"
  <2>1. c.m = m /\ c.end = "error"
    BY <1>4 DEF CheckConfig, Checked
  <2> HIDE DEF c
  <2> QED BY <1>4, <2>1 DEF LeftBy, Same, Right, c
<1>5. CASE f.err # "identifier"
  <2>1. c = CASE b.end # "ok" -> b
              [] b.end = "ok" /\ e.end # "ok" -> e
              [] b.end = "ok" /\ e.end = "ok" /\ s.end # "ok" -> s
              [] OTHER -> Judged(s.m, MPCCheckConfig(f) /\ OnchainCheckConfig(f, isReload))
    <3>1. Same(e.m, m)
      BY <1>2
    <3>2. b.m.server = m.server /\ e.m.server = m.server
      BY <1>1, <1>2 DEF Same
    <3> QED BY <1>5, <3>2 DEF CheckConfig
  <2> SUFFICES LeftBy(c, f, m, isReload)
    OBVIOUS
  <2> HIDE DEF b, e, s, c
  <2>2. CASE b.end # "ok"
    BY <1>1, <2>1, <2>2 DEF LeftBy
  <2>3. CASE b.end = "ok" /\ e.end # "ok"
    <3>1. c = e
      BY <2>1, <2>3
    <3>2. ~Right(f, m.server) \/ e.end = "fatal"
      BY <1>2, <2>3
    <3> QED BY <1>2, <2>3, <3>1, <3>2 DEF LeftBy
  <2>4. CASE b.end = "ok" /\ e.end = "ok" /\ s.end # "ok"
    <3>1. c = s
      BY <2>1, <2>4
    <3> QED BY <1>1, <1>2, <1>3, <2>4, <3>1 DEF LeftBy
  <2>5. CASE b.end = "ok" /\ e.end = "ok" /\ s.end = "ok"
    <3>1. c.m = s.m /\ c.end = IF MPCCheckConfig(f) /\ OnchainCheckConfig(f, isReload) THEN "ok" ELSE "error"
      BY <2>1, <2>5 DEF Judged, Checked
    <3>2. Right(f, m.server) => MPCCheckConfig(f) /\ OnchainCheckConfig(f, isReload)
      BY DEF Right, MPCCheckConfig, OnchainCheckConfig, Refused
    <3>3. c.end = "ok" /\ ~isReload => Right(f, m.server)
      BY <1>1, <1>2, <1>3, <1>5, <2>5, <3>1 DEF Right, MPCCheckConfig, OnchainCheckConfig, Refused
    <3> QED BY <1>1, <1>2, <1>3, <2>5, <3>1, <3>2, <3>3 DEF LeftBy
  <2> QED BY <1>1, <2>2, <2>3, <2>4, <2>5
<1> QED BY <1>4, <1>5

\* A file the program can start with is in force after the start.
LEMMA LoadResult ==
  ASSUME NEW isServer \in BOOLEAN, NEW f \in Loadable(isServer)
  PROVE  LET m == LoadRouterConfig(f, isServer).m
         IN /\ f \in FileType /\ f.err # "toml" /\ Right(f, isServer)
            /\ isServer => f.lists["DynamicFeeTxEnabled"] \subseteq f.fees
            /\ m \in MemType /\ m.config = f /\ m.running /\ m.server = isServer
            /\ m.black = f.black /\ m.onChain = f.onChain /\ m.lists = f.lists /\ m.white = f.white
            /\ isServer => m.fixed = f.fixed /\ m.max = f.max
<1> DEFINE d == Derived(f, isServer)
           c == LoadRouterConfig(f, isServer)
<1>1. f \in FileType /\ f.err # "toml" /\ c.end = "ok"
  <2> HIDE DEF c
  <2> QED BY LocalConfigAssumption DEF Loadable, c
<1>2. /\ d \in MemType /\ d.config = f /\ d.server = isServer /\ d.running
      /\ d.lists = [l \in ExtraLists |-> {}] /\ d.white = [l \in Whitelists |-> {}]
  BY <1>1 DEF Derived, MemType
<1>3. PICK no : no = FALSE
  OBVIOUS
<1>4. LeftBy(c, f, d, no)
  <2>1. c = CheckConfig(f, d, no)
    BY <1>3 DEF LoadRouterConfig
  <2> HIDE DEF c, d
  <2> QED BY <1>1, <1>2, <1>3, <2>1, CheckResult
<1>5. /\ \A l \in ExtraLists : Kept(d, l) = f.lists[l]
      /\ \A l \in Whitelists : KeptWhite(d, l) = f.white[l]
  BY <1>2 DEF Kept, KeptWhite, Replaced
<1> SUFFICES /\ Right(f, isServer)
             /\ isServer => f.lists["DynamicFeeTxEnabled"] \subseteq f.fees
             /\ c.m \in MemType /\ c.m.config = f /\ c.m.running /\ c.m.server = isServer
             /\ c.m.black = f.black /\ c.m.onChain = f.onChain /\ c.m.lists = f.lists /\ c.m.white = f.white
             /\ isServer => c.m.fixed = f.fixed /\ c.m.max = f.max
  BY <1>1
<1> HIDE DEF c, d
<1>6. Right(f, isServer)
  BY <1>1, <1>2, <1>3, <1>4 DEF LeftBy
<1>7. "DynamicFeeTxEnabled" \in ExtraLists
  BY DEF ExtraLists, ChainLists
<1>8. c.m \in MemType /\ c.m.config = f /\ c.m.running /\ c.m.server = isServer
  BY <1>2, <1>4 DEF LeftBy, Same
<1>9. /\ c.m.black = f.black /\ c.m.onChain = f.onChain
      /\ \A l \in ExtraLists : c.m.lists[l] = f.lists[l]
      /\ \A l \in Whitelists : c.m.white[l] = f.white[l]
      /\ isServer => c.m.fixed = f.fixed /\ c.m.max = f.max
  BY <1>1, <1>2, <1>4, <1>5, <1>6 DEF LeftBy
<1>10. c.m.lists = f.lists /\ c.m.white = f.white
  BY <1>1, <1>8, <1>9 DEF MemType, FileType
<1>11. isServer => c.m.lists["DynamicFeeTxEnabled"] \subseteq f.fees
  BY <1>1, <1>2, <1>4 DEF LeftBy
<1> QED BY <1>6, <1>8, <1>9, <1>10, <1>11

\* What a maintain call changes and what it keeps.
LEMMA MaintainKeeps ==
  ASSUME LocalType, NEW x \in AdminIDs, NEW isAdd \in BOOLEAN, Maintain(x, isAdd)
  PROVE  /\ LocalType' /\ fresh' = 0 /\ mem'.server = mem.server /\ mem'.config.fees = mem.config.fees
         /\ mem'.lists = mem.lists /\ mem'.config.lists = mem.config.lists
<1> DEFINE Goal(m) == /\ m \in MemType /\ m.server = mem.server /\ m.config.fees = mem.config.fees
                      /\ m.lists = mem.lists /\ m.config.lists = mem.config.lists
<1>1. mem \in MemType /\ mem.config \in FileType /\ x \in Nat /\ Goal(mem)
  BY LocalConfigAssumption DEF LocalType, MemType
<1>2. ASSUME NEW l \in Whitelists, NEW k \in AdminIDs
      PROVE  Goal(AddOrRemoveWhitelist(mem, l, k, {x}, isAdd))
  <2> DEFINE xs == {x}
             new == AddOrRemove(OfKey(mem.white[l], k), {<<k, y>> : y \in xs}, isAdd) \cup {<<k, 0>>}
             w1 == (mem.white[l] \ OfKey(mem.white[l], k)) \cup new
             w2 == (mem.config.white[l] \ OfKey(mem.config.white[l], k)) \cup new
             m == [mem EXCEPT !.white[l] = (@ \ OfKey(@, k)) \cup new, !.config.white[l] = (@ \ OfKey(@, k)) \cup new]
  <2>1. mem.white[l] \in SUBSET Pairs /\ mem.config.white[l] \in SUBSET Pairs /\ k \in Nat
    BY <1>1, LocalConfigAssumption DEF MemType, FileType, Pairs
  <2>2. OfKey(mem.white[l], k) \in SUBSET Pairs
    BY <2>1 DEF OfKey
  <2>3. {<<k, y>> : y \in xs} \in SUBSET Pairs /\ {<<k, 0>>} \in SUBSET Pairs
    BY <1>1, <2>1 DEF Pairs
  <2>4. new \in SUBSET Pairs
    BY <2>2, <2>3 DEF AddOrRemove
  <2> HIDE DEF new
  <2>5. w1 \in SUBSET Pairs /\ w2 \in SUBSET Pairs
    BY <2>1, <2>4
  <2>6. m = [mem EXCEPT !.white = [mem.white EXCEPT ![l] = w1], !.config = [mem.config EXCEPT !.white = [mem.config.white EXCEPT ![l] = w2]]]
    BY <1>1 DEF MemType, FileType
  <2> HIDE DEF w1, w2, m
  <2>7. [mem.white EXCEPT ![l] = w1] \in [Whitelists -> SUBSET Pairs]
    BY <1>1, <2>5 DEF MemType
  <2>8. [mem.config.white EXCEPT ![l] = w2] \in [Whitelists -> SUBSET Pairs]
    BY <1>1, <2>5 DEF FileType, Pairs
  <2> DEFINE c == [mem.config EXCEPT !.white = [mem.config.white EXCEPT ![l] = w2]]
  <2>9. c \in FileType /\ c.fees = mem.config.fees /\ c.lists = mem.config.lists
    BY <1>1, <2>8 DEF FileType, Pairs
  <2> HIDE DEF c
  <2>10. m = [mem EXCEPT !.white = [mem.white EXCEPT ![l] = w1], !.config = c]
    BY <2>6 DEF c
  <2>11. Goal(m)
    BY <1>1, <2>7, <2>9, <2>10 DEF MemType
  <2>12. AddOrRemoveWhitelist(mem, l, k, xs, isAdd) \in {mem, m}
    BY DEF AddOrRemoveWhitelist, m, new
  <2> HIDE DEF Goal
  <2> QED BY <1>1, <2>11, <2>12
<1>3. ASSUME NEW b \in Blacklists PROVE Goal(AddOrRemoveBlackList(mem, b, {x}, isAdd))
  <2> DEFINE new == AddOrRemove(mem.black[b], {x}, isAdd)
             m == [mem EXCEPT !.black[b] = new, !.config.black[b] = new]
  <2>1. new \in SUBSET Nat
    BY <1>1 DEF AddOrRemove, MemType
  <2> HIDE DEF new
  <2>2. Goal(m)
    BY <1>1, <2>1 DEF MemType, FileType
  <2> QED BY <2>2 DEF AddOrRemoveBlackList, new
<1>4. Goal(mem')
  <2> HIDE DEF Goal
  <2>1. CASE UNCHANGED mem
    BY <1>1, <2>1
  <2>2. CASE \E b \in Blacklists : mem' = AddOrRemoveBlackList(mem, b, {x}, isAdd)
    BY <1>3, <2>2
  <2>3. CASE \E l \in Whitelists, k \in AdminIDs : mem' = AddOrRemoveWhitelist(mem, l, k, {x}, isAdd)
    BY <1>2, <2>3
  <2> QED BY <2>1, <2>2, <2>3
          DEF Maintain, AddPausedChainIDs, RemovePausedChainIDs, AddOrRemoveCallByContractWhitelist,
              AddOrRemoveCallByContractCodeHashWhitelist, AddOrRemoveBigValueWhitelist, Whitelists
<1> QED BY <1>4 DEF Maintain, LocalType

\* Reading the options changes nothing but the flags.
LEMMA ReadKeeps ==
  ASSUME LocalType, ReadOptions
  PROVE  LocalType' /\ UNCHANGED <<cfgFile, fresh>> /\ mem' = [mem EXCEPT !.flags = mem'.flags]
<1>1. [f \in Flags |-> ReadFlag(mem, f)] \in [Flags -> {"unread", "on", "off"}]
  BY DEF ReadFlag, LocalType, MemType
<1> QED BY <1>1 DEF ReadOptions, LocalType, MemType

\* The settings that a reload or a restart has put in force.
InForce ==
  /\ mem.black = cfgFile.black /\ mem.onChain = cfgFile.onChain /\ mem.config = cfgFile
  /\ mem.server => mem.fixed = cfgFile.fixed /\ mem.max = cfgFile.max
  /\ fresh > 1 => /\ \A l \in Whitelists : mem.white[l] = cfgFile.white[l] \/ cfgFile.white[l] = {}
                  /\ \A l \in ExtraLists : mem.lists[l] = cfgFile.lists[l] \/ cfgFile.lists[l] = {}

\* A right file is in force after a reload, or would be refused again: the lists that are left
\* over from the configuration in force enable dynamic fees the file has no settings for, and
\* another reload makes the same of them.
HasFees == mem.server => mem.lists["DynamicFeeTxEnabled"] \subseteq cfgFile.fees
CatchUpInv ==
  mem.running /\ cfgFile \in Loadable(mem.server) /\ fresh > 0 =>
  IF HasFees THEN InForce ELSE \A l \in ExtraLists : Kept(mem, l) = mem.lists[l]

\* What is kept after a reload, whose check gives c.
LEMMA ReloadResult ==
  ASSUME LocalType, LocalReload
  PROVE  LET c == CheckConfig(cfgFile, mem, TRUE)
         IN /\ LeftBy(c, cfgFile, mem, TRUE) /\ cfgFile \in FileType /\ mem \in MemType /\ mem' \in MemType
            /\ mem'.server = mem.server
            /\ cfgFile.err = "toml" => mem' = mem
            /\ cfgFile.err # "toml" /\ c.end = "ok" => mem' = [c.m EXCEPT !.config = cfgFile]
            /\ cfgFile.err # "toml" /\ c.end = "error" => mem' = c.m
            /\ cfgFile.err # "toml" /\ c.end = "fatal" => mem' = [c.m EXCEPT !.running = FALSE]
<1> DEFINE c == CheckConfig(cfgFile, mem, TRUE)
<1>1. cfgFile \in FileType /\ mem \in MemType
  BY LocalConfigAssumption DEF LocalType
<1>2. PICK yes : yes = TRUE
  OBVIOUS
<1>3. LeftBy(c, cfgFile, mem, yes)
  <2>1. c = CheckConfig(cfgFile, mem, yes)
    BY <1>2
  <2> HIDE DEF c
  <2> QED BY <1>1, <1>2, <2>1, CheckResult
<1>4. /\ cfgFile.err = "toml" => mem' = mem
      /\ cfgFile.err # "toml" /\ c.end = "ok" => mem' = [c.m EXCEPT !.config = cfgFile]
      /\ cfgFile.err # "toml" /\ c.end = "error" => mem' = c.m
      /\ cfgFile.err # "toml" /\ c.end = "fatal" => mem' = [c.m EXCEPT !.running = FALSE]
  <2>1. mem' = ParamsReloadRouterConfig(cfgFile, mem)
    BY DEF LocalReload
  <2> HIDE DEF c
  <2> QED BY <2>1 DEF ParamsReloadRouterConfig, c
<1> HIDE DEF c
<1>5. c.end \in {"ok", "error", "fatal"} /\ c.m \in MemType /\ c.m.server = mem.server
  BY <1>3 DEF LeftBy, Same
<1>6. /\ [c.m EXCEPT !.config = cfgFile] \in MemType /\ [c.m EXCEPT !.running = FALSE] \in MemType
      /\ [c.m EXCEPT !.config = cfgFile].server = c.m.server /\ [c.m EXCEPT !.running = FALSE].server = c.m.server
  BY <1>1, <1>5 DEF MemType
<1>7. mem' \in MemType /\ mem'.server = mem.server
  BY <1>1, <1>4, <1>5, <1>6
<1>8. LeftBy(c, cfgFile, mem, TRUE)
  BY <1>2, <1>3
<1> QED BY <1>1, <1>4, <1>7, <1>8 DEF c

LEMMA ReloadKeepsType ==
  ASSUME LocalType, LocalReload
  PROVE  LocalType'
<1>1. mem' \in MemType
  BY ReloadResult
<1> QED BY <1>1 DEF LocalType, LocalReload

LEMMA ReloadCatchesUp ==
  ASSUME LocalType, CatchUpInv, LocalReload
  PROVE  CatchUpInv'
<1> DEFINE c == CheckConfig(cfgFile, mem, TRUE)
           DFE == "DynamicFeeTxEnabled"
<1>1. /\ LeftBy(c, cfgFile, mem, TRUE) /\ cfgFile \in FileType /\ mem \in MemType
      /\ mem'.server = mem.server
      /\ cfgFile.err # "toml" /\ c.end = "ok" => mem' = [c.m EXCEPT !.config = cfgFile]
      /\ cfgFile.err # "toml" /\ c.end = "error" => mem' = c.m
      /\ cfgFile.err # "toml" /\ c.end = "fatal" => mem' = [c.m EXCEPT !.running = FALSE]
  BY ReloadResult
<1>2. UNCHANGED cfgFile /\ mem.running
  BY DEF LocalReload
<1> HIDE DEF c
<1> SUFFICES ASSUME mem'.running, cfgFile \in Loadable(mem.server), fresh' > 0
             PROVE  IF HasFees' THEN InForce' ELSE \A l \in ExtraLists : Kept(mem', l) = mem'.lists[l]
  BY <1>1, <1>2 DEF CatchUpInv
<1>3. /\ cfgFile.err # "toml" /\ Right(cfgFile, mem.server) /\ DFE \in ExtraLists
      /\ mem.server => cfgFile.lists[DFE] \subseteq cfgFile.fees
  <2>1. mem.server \in BOOLEAN
    BY <1>1 DEF MemType
  <2>2. DFE \in ExtraLists
    BY DEF ExtraLists, ChainLists
  <2> QED BY <2>1, <2>2, LoadResult
<1>4. c.m \in MemType /\ c.m.config = mem.config /\ c.m.server = mem.server /\ c.end \in {"ok", "error", "fatal"}
  BY <1>1 DEF LeftBy, Same
<1>5. c.end # "fatal"
  BY <1>1, <1>3, <1>4 DEF MemType
<1>6. /\ c.m.black = cfgFile.black /\ c.m.onChain = cfgFile.onChain
      /\ \A l \in ExtraLists : c.m.lists[l] = Kept(mem, l)
      /\ c.end = "ok" => \A l \in Whitelists : c.m.white[l] = KeptWhite(mem, l)
      /\ mem.server => c.m.fixed = cfgFile.fixed /\ c.m.max = cfgFile.max
      /\ c.end = "ok" <=> (mem.server => c.m.lists[DFE] \subseteq cfgFile.fees)
  BY <1>1, <1>3, <1>5 DEF LeftBy
<1>7. mem'.lists = c.m.lists
  BY <1>1, <1>3, <1>4, <1>5 DEF MemType
<1>8. CASE c.end = "ok"
  <2>1. /\ mem'.config = cfgFile /\ mem'.black = cfgFile.black /\ mem'.onChain = cfgFile.onChain
        /\ mem'.white = c.m.white /\ mem'.fixed = c.m.fixed /\ mem'.max = c.m.max
    BY <1>1, <1>3, <1>4, <1>6, <1>8 DEF MemType
  <2>2. ASSUME fresh' > 1
        PROVE  /\ \A l \in Whitelists : mem'.white[l] = cfgFile.white[l] \/ cfgFile.white[l] = {}
               /\ \A l \in ExtraLists : mem'.lists[l] = cfgFile.lists[l] \/ cfgFile.lists[l] = {}
    <3>1. fresh > 0
      BY <2>2 DEF LocalReload, LocalType
    <3>2. HasFees
      BY <1>2, <1>3, <1>6, <1>8, <3>1 DEF CatchUpInv, HasFees
    <3>3. mem.config = cfgFile
      BY <1>2, <3>1, <3>2 DEF CatchUpInv, InForce
    <3> QED BY <1>6, <1>7, <1>8, <2>1, <3>3 DEF Kept, KeptWhite, Replaced
  <2>3. InForce'
    BY <1>1, <1>2, <1>6, <2>1, <2>2 DEF InForce
  <2>4. HasFees'
    BY <1>1, <1>2, <1>6, <1>7, <1>8 DEF HasFees
  <2> QED BY <2>3, <2>4
<1>9. CASE c.end = "error"
  <2>1. mem' = c.m
    BY <1>1, <1>3, <1>9
  <2>2. \A l \in ExtraLists : Kept(mem', l) = mem'.lists[l]
    BY <1>4, <1>6, <2>1 DEF Kept, Replaced
  <2>3. ~HasFees'
    BY <1>1, <1>2, <1>6, <1>9, <2>1 DEF HasFees
  <2> QED BY <2>2, <2>3
<1> QED BY <1>4, <1>5, <1>8, <1>9

\* The theorem behind SettingsCatchUp: a right file gets into force with one reload, its lists
\* with two, whatever edits, failed reloads, maintain calls and restarts came before.
THEOREM SettingsCatchUpHolds == LocalSpec => []SettingsCatchUp
<1> DEFINE IInv == LocalType /\ CatchUpInv
<1>1. LocalInit => IInv
  <2> SUFFICES ASSUME LocalInit PROVE IInv
    OBVIOUS
  <2>1. PICK isServer \in BOOLEAN : cfgFile \in Loadable(isServer) /\ mem = LoadRouterConfig(cfgFile, isServer).m
    BY DEF LocalInit
  <2>2. mem \in MemType
    BY <2>1, LoadResult
  <2> QED BY <2>1, <2>2 DEF LocalInit, LocalType, CatchUpInv, Loadable
<1>2. IInv /\ [LocalNext]_lvars => IInv'
  <2> SUFFICES ASSUME IInv, [LocalNext]_lvars PROVE IInv'
    OBVIOUS
  <2>1. CASE \E f \in Files : EditConfig(f)
    BY <2>1 DEF EditConfig, LocalType, CatchUpInv
  <2>2. CASE \E x \in AdminIDs, isAdd \in BOOLEAN : Maintain(x, isAdd)
    BY <2>2, MaintainKeeps DEF CatchUpInv
  <2>3. CASE ReadOptions
    <3>1. LocalType' /\ UNCHANGED <<cfgFile, fresh>> /\ mem' = [mem EXCEPT !.flags = mem'.flags]
      BY <2>3, ReadKeeps
    <3>2. /\ mem'.running = mem.running /\ mem'.server = mem.server /\ mem'.config = mem.config
          /\ mem'.lists = mem.lists /\ mem'.white = mem.white /\ mem'.black = mem.black
          /\ mem'.onChain = mem.onChain /\ mem'.fixed = mem.fixed /\ mem'.max = mem.max
      BY <3>1 DEF LocalType, MemType
    <3> QED BY <3>1, <3>2 DEF CatchUpInv, InForce, HasFees, Kept
  <2>4. CASE LocalReload
    BY <2>4, ReloadKeepsType, ReloadCatchesUp
  <2>5. CASE LocalRestart
    <3>1. mem.server \in BOOLEAN /\ cfgFile \in Loadable(mem.server) /\ mem' = LoadRouterConfig(cfgFile, mem.server).m
      BY <2>5 DEF LocalRestart, LocalType, MemType
    <3>2. /\ mem' \in MemType /\ mem'.config = cfgFile /\ mem'.running /\ mem'.server = mem.server
          /\ mem'.black = cfgFile.black /\ mem'.onChain = cfgFile.onChain
          /\ mem'.lists = cfgFile.lists /\ mem'.white = cfgFile.white
          /\ mem.server => /\ mem'.fixed = cfgFile.fixed /\ mem'.max = cfgFile.max
                           /\ cfgFile.lists["DynamicFeeTxEnabled"] \subseteq cfgFile.fees
      BY <3>1, LoadResult
    <3> QED BY <2>5, <3>2 DEF LocalRestart, LocalType, CatchUpInv, InForce, HasFees
  <2>6. CASE UNCHANGED lvars
    BY <2>6 DEF lvars, LocalType, CatchUpInv, InForce, HasFees, Kept
  <2> QED BY <2>1, <2>2, <2>3, <2>4, <2>5, <2>6 DEF LocalNext
<1>3. IInv => SettingsCatchUp
  BY DEF LocalType, CatchUpInv, InForce, HasFees, SettingsCatchUp, Catches
<1> QED BY <1>1, <1>2, <1>3, PTL DEF LocalSpec

-----------------------------------------------------------------------------
\* The registry changes the settings only by reloads and restarts: what is proved of the
\* settings holds of the program that loads chains and tokens from them, too.
THEOREM RegistryUsesSettings == RegistrySpec => LocalSpec
<1>1. RouterInit => LocalInit
  BY DEF RouterInit
<1>2. [RouterNext]_cvars => [LocalNext]_lvars
  <2> SUFFICES ASSUME [RouterNext]_cvars PROVE [LocalNext]_lvars
    OBVIOUS
  <2>1. CASE InitRouterBridges \/ ReloadRouterConfig
    BY <2>1 DEF InitRouterBridges, ReloadRouterConfig, LocalNext
  <2>2. CASE FinishLoad
    BY <2>2, Zenon DEF FinishLoad
  <2>3. CASE \E c \in Chains : LoadChain(c)
    BY <2>3, Zenon DEF LoadChain
  <2>4. CASE \E t \in TokenIDs, c \in Chains : LoadToken(t, c) \/ StoreToken(t, c)
    <3>1. ASSUME NEW t, NEW c, LoadToken(t, c) PROVE UNCHANGED lvars
      BY <3>1, Zenon DEF LoadToken
    <3>2. ASSUME NEW t, NEW c, StoreToken(t, c) PROVE UNCHANGED lvars
      BY <3>2, Zenon DEF StoreToken
    <3> QED BY <2>4, <3>1, <3>2
  <2>5. CASE \E w \in Worlds : ChangeWorld(w)
    BY <2>5 DEF ChangeWorld
  <2>6. CASE (\E f \in Files : FileStep(f)) \/ UNCHANGED cvars
    BY <2>6 DEF FileStep, LocalNext, cvars
  <2> QED BY <2>1, <2>2, <2>3, <2>4, <2>5, <2>6 DEF RouterNext, LoadStep
<1> QED BY <1>1, <1>2, PTL DEF RegistrySpec, LocalSpec

-----------------------------------------------------------------------------
(* Served and HonestMedian, for every number of gateways, list, kind of      *)
(* chain, change of health and interleaving with the adjustment of the order.*)

\* A set of numbers that has a member has a least one.
LEMMA LeastIndex ==
  ASSUME NEW S, S \subseteq Nat, S # {}
  PROVE  Min(S) \in S /\ \A y \in S : Min(S) <= y
<1>1. PICK x \in S : \A y \in S : ~(<<y, x>> \in OpToRel(<, Nat))
  BY WFMin, NatLessThanWellFounded
<1>2. \A y \in S : ~(y < x)
  BY <1>1 DEF OpToRel
<1>3. \E z \in S : \A y \in S : z <= y
  BY <1>2
<1> QED BY <1>3, Zenon DEF Min

\* What s is for the indexes in S when it is sorted by the values v.
Sorts(s, S, v) ==
  /\ Cardinality(S) \in Nat /\ s \in [1..Cardinality(S) -> S]
  /\ \A p, q \in 1..Cardinality(S) : p < q => Before(v, s[p], s[q])
  /\ \A i \in S : \E p \in 1..Cardinality(S) : s[p] = i

\* The place of an index in the order of the values is a bijection, so that a sorted sequence exists.
LEMMA SortedIs ==
  ASSUME NEW S, S \subseteq Nat, IsFiniteSet(S), NEW v, \A i \in S : v[i] \in Int
  PROVE  Sorts(Sorted(S, v), S, v)
<1> DEFINE n == Cardinality(S)
           Lower(i) == {j \in S : Before(v, j, i)}
           rank == [i \in S |-> Cardinality(Lower(i)) + 1]
<1>1. n \in Nat
  BY FS_CardinalityType
<1>2. ASSUME NEW i \in S PROVE IsFiniteSet(Lower(i)) /\ Cardinality(Lower(i)) \in Nat /\ Cardinality(Lower(i)) < n
  <2>1. Lower(i) \in SUBSET S /\ i \notin Lower(i)
    BY DEF Before
  <2>2. Lower(i) # S
    BY <2>1
  <2> HIDE DEF Lower
  <2>3. IsFiniteSet(Lower(i)) /\ Cardinality(Lower(i)) <= n /\ n # Cardinality(Lower(i))
    BY <2>1, <2>2, FS_Subset
  <2> QED BY <1>1, <2>3, FS_CardinalityType
<1>3. ASSUME NEW i \in S, NEW j \in S, Before(v, i, j) PROVE rank[i] < rank[j]
  <2>1. \A k \in S : Before(v, k, i) => Before(v, k, j)
    <3> SUFFICES ASSUME NEW k \in S, Before(v, k, i) PROVE Before(v, k, j)
      OBVIOUS
    <3>1. v[i] \in Int /\ v[j] \in Int /\ v[k] \in Int /\ i \in Nat /\ j \in Nat /\ k \in Nat
      OBVIOUS
    <3> QED BY <1>3, <3>1 DEF Before
  <2>4. ~Before(v, i, i)
    BY DEF Before
  <2>5. Lower(i) \in SUBSET Lower(j) /\ i \in Lower(j) /\ i \notin Lower(i)
    BY <1>3, <2>1, <2>4
  <2>2. Lower(i) # Lower(j)
    BY <2>5
  <2> HIDE DEF Lower
  <2>3. Cardinality(Lower(i)) <= Cardinality(Lower(j)) /\ Cardinality(Lower(j)) # Cardinality(Lower(i))
    BY <1>2, <2>2, <2>5, FS_Subset
  <2> QED BY <1>2, <2>3
<1>4. \A i, j \in S : i # j => Before(v, i, j) \/ Before(v, j, i)
  BY DEF Before
<1>5. rank \in [S -> 1..n] /\ \A i \in S : rank[i] \in 1..n
  BY <1>1, <1>2
<1> HIDE DEF rank
<1>6. \A i, j \in S : rank[i] = rank[j] => i = j
  BY <1>3, <1>4, <1>5
<1>7. rank \in Injection(S, 1..n)
  BY <1>5, <1>6 DEF Injection, IsInjective
<1>8. IsFiniteSet(1..n) /\ Cardinality(1..n) = n
  BY <1>1, FS_Interval
<1>9. rank \in Surjection(S, 1..n)
  BY <1>7, <1>8, FS_Injection
<1>10. \A p \in 1..n : \E i \in S : rank[i] = p
  BY <1>9 DEF Surjection
<1> DEFINE t == [p \in 1..n |-> CHOOSE i \in S : rank[i] = p]
<1>11. /\ t \in [1..n -> S]
       /\ \A p \in 1..n : t[p] \in S /\ rank[t[p]] = p
  BY <1>10
<1> HIDE DEF t
<1>12. \A p, q \in 1..n : p < q => Before(v, t[p], t[q])
  <2> SUFFICES ASSUME NEW p \in 1..n, NEW q \in 1..n, p < q PROVE Before(v, t[p], t[q])
    OBVIOUS
  <2>1. t[p] # t[q] /\ ~(rank[t[q]] < rank[t[p]])
    BY <1>1, <1>11
  <2> QED BY <1>3, <1>4, <1>11, <2>1
<1> DEFINE s == Sorted(S, v)
<1>13. s \in [1..n -> S] /\ \A p, q \in 1..n : p < q => Before(v, s[p], s[q])
  BY <1>11, <1>12 DEF Sorted
<1> HIDE DEF s
<1>14. s \in Injection(1..n, S)
  <2>1. \A i \in S : ~Before(v, i, i)
    BY DEF Before
  <2>2. ASSUME NEW p \in 1..n, NEW q \in 1..n, s[p] = s[q] PROVE p = q
    <3>1. ~(p < q) /\ ~(q < p)
      BY <1>13, <2>1, <2>2
    <3> QED BY <1>1, <3>1
  <2> QED BY <1>13, <2>2 DEF Injection, IsInjective
<1>15. s \in Surjection(1..n, S)
  BY <1>8, <1>14, FS_Injection
<1>16. \A i \in S : \E p \in 1..n : s[p] = i
  BY <1>15 DEF Surjection
<1> QED BY <1>1, <1>13, <1>16 DEF Sorts, s, n

Lying(a) == {i \in Values(a) : a[i].st = "bad"}

\* In the order of the values the lies come last, because no honest value is as high.
LEMMA LiesComeLast ==
  ASSUME NEW m \in Nat, NEW a, DOMAIN a = 1..m, \A i \in 1..m : a[i] \in {Ok(1), Ok(2), Bad, Err},
         2 * Cardinality(Lying(a)) < Cardinality(Values(a))
  PROVE  LET n == Cardinality(Values(a))
             s == Sorted(Values(a), [i \in DOMAIN a |-> a[i].v])
         IN /\ n \in Nat \ {0} /\ s \in [1..n -> Values(a)]
            /\ \A p \in 1..n : n <= 2 * (n - p + 1) => s[p] \notin Lying(a)
<1> DEFINE v == [i \in DOMAIN a |-> a[i].v]
           n == Cardinality(Values(a))
           s == Sorted(Values(a), v)
<1>1. /\ Values(a) \in SUBSET (1..m) /\ Lying(a) \in SUBSET Values(a) /\ Values(a) \subseteq Nat
      /\ \A i \in Values(a) : v[i] \in Int /\ (i \in Lying(a) => v[i] = Tip + 5) /\ (i \notin Lying(a) => v[i] \in {1, 2})
  <2>1. \A i \in 1..m : v[i] = a[i].v
    OBVIOUS
  <2> HIDE DEF v
  <2>2. ASSUME NEW i \in 1..m, a[i].st # "err"
        PROVE  IF a[i].st = "bad" THEN v[i] = Tip + 5 ELSE v[i] \in {1, 2}
    <3>1. CASE a[i] = Ok(1) \/ a[i] = Ok(2)
      BY <2>1, <3>1 DEF Ok
    <3>2. CASE a[i] = Bad
      BY <2>1, <3>2 DEF Bad
    <3>3. CASE a[i] = Err
      BY <2>2, <3>3 DEF Err
    <3> QED BY <3>1, <3>2, <3>3
  <2>3. \A i \in Values(a) : i \in 1..m /\ a[i].st # "err" /\ (i \in Lying(a) <=> a[i].st = "bad")
    BY DEF Values, Lying
  <2>4. Lying(a) \subseteq Values(a)
    BY DEF Lying
  <2> QED BY <2>2, <2>3, <2>4, GatewaysAssumption
<1>2. IsFiniteSet(Values(a)) /\ IsFiniteSet(Lying(a))
  <2>1. IsFiniteSet(1..m)
    BY FS_Interval
  <2>2. IsFiniteSet(Values(a))
    BY <1>1, <2>1, FS_Subset
  <2> QED BY <1>1, <2>2, FS_Subset
<1>3. Cardinality(Lying(a)) \in Nat /\ n \in Nat \ {0}
  BY <1>2, FS_CardinalityType
<1> HIDE DEF v
<1>4. s \in [1..n -> Values(a)] /\ \A p, q \in 1..n : p < q => Before(v, s[p], s[q])
  <2>1. Sorts(Sorted(Values(a), v), Values(a), v)
    BY <1>1, <1>2, SortedIs
  <2> QED BY <2>1 DEF Sorts
<1> HIDE DEF s, n
<1>5. ASSUME NEW p \in 1..n, s[p] \in Lying(a) PROVE n - p + 1 <= Cardinality(Lying(a))
  <2>1. ASSUME NEW q \in p..n PROVE q \in 1..n /\ s[q] \in Lying(a)
    <3>1. q \in 1..n /\ (q = p \/ p < q)
      BY <1>3, <2>1
    <3>2. CASE p < q
      <4>1. Before(v, s[p], s[q]) /\ s[q] \in Values(a)
        BY <1>4, <3>1, <3>2
      <4>2. v[s[p]] = Tip + 5 /\ v[s[p]] <= v[s[q]] /\ v[s[q]] \in Int
        BY <1>1, <1>5, <4>1 DEF Before
      <4>3. v[s[q]] \notin {1, 2}
        BY <4>2, GatewaysAssumption
      <4> QED BY <1>1, <3>1, <4>1, <4>3
    <3> QED BY <1>5, <3>1, <3>2
  <2> DEFINE f == [q \in p..n |-> s[q]]
  <2>2. \A q, r \in p..n : s[q] = s[r] => q = r
    <3> SUFFICES ASSUME NEW q \in p..n, NEW r \in p..n, s[q] = s[r] PROVE q = r
      OBVIOUS
    <3>1. q \in 1..n /\ r \in 1..n /\ s[q] \in Values(a)
      BY <1>1, <2>1
    <3>2. ~Before(v, s[q], s[q])
      BY <1>1, <3>1 DEF Before
    <3>3. ~(q < r) /\ ~(r < q)
      BY <1>4, <3>1, <3>2
    <3> QED BY <1>3, <3>3
  <2>3. f \in Injection(p..n, Lying(a))
    BY <2>1, <2>2 DEF Injection, IsInjective
  <2>4. Cardinality(p..n) <= Cardinality(Lying(a))
    BY <1>2, <2>3, FS_Injection
  <2>5. Cardinality(p..n) = n - p + 1
    BY <1>3, FS_Interval
  <2> QED BY <2>4, <2>5
<1>6. \A p \in 1..n : n <= 2 * (n - p + 1) => s[p] \notin Lying(a)
  <2> SUFFICES ASSUME NEW p \in 1..n, n <= 2 * (n - p + 1), s[p] \in Lying(a) PROVE FALSE
    OBVIOUS
  <2>1. n - p + 1 <= Cardinality(Lying(a)) /\ 2 * Cardinality(Lying(a)) < n
    BY <1>5 DEF n
  <2> QED BY <1>3, <2>1
<1> QED BY <1>3, <1>4, <1>6 DEF s, n, v

\* The median of answers of which fewer than half lie is between two honest ones.
LEMMA MedianIsHonest ==
  ASSUME NEW m \in Nat, NEW a, DOMAIN a = 1..m, \A i \in 1..m : a[i] \in {Ok(1), Ok(2), Bad, Err},
         2 * Cardinality(Lying(a)) < Cardinality(Values(a))
  PROVE  LET honest == {a[i].v : i \in Values(a) \ Lying(a)} IN Median(a).v \in Min(honest)..Max(honest)
<1> DEFINE n == Cardinality(Values(a))
           s == Sorted(Values(a), [i \in DOMAIN a |-> a[i].v])
           honest == {a[i].v : i \in Values(a) \ Lying(a)}
           d == (n - 1) \div 2
<1>1. /\ n \in Nat \ {0} /\ s \in [1..n -> Values(a)]
      /\ \A p \in 1..n : n <= 2 * (n - p + 1) => s[p] \notin Lying(a)
  BY LiesComeLast
<1>2. honest \subseteq {1, 2}
  BY GatewaysAssumption DEF Values, Lying, Ok, Bad, Err
<1>3. Median(a) = Ok(Middle(a, s, n))
  BY <1>1 DEF Median
<1> HIDE DEF s, n
<1>4. d \in Nat /\ 2 * d <= n - 1 /\ n <= 2 * d + 2 /\ (n % 2 = 0 => n = 2 * d + 2)
  BY <1>1
<1>5. Middle(a, s, n) = IF n % 2 # 0 THEN a[s[d + 1]].v ELSE (a[s[d + 1]].v + a[s[d + 2]].v) \div 2
  <2>1. d + 1 + 1 = d + 2
    BY <1>4
  <2> QED BY <2>1 DEF Middle
<1> HIDE DEF d
<1>6. d + 1 \in 1..n /\ n <= 2 * (n - (d + 1) + 1)
  BY <1>1, <1>4
<1>7. a[s[d + 1]].v \in honest
  BY <1>1, <1>6
<1>8. n % 2 = 0 => a[s[d + 2]].v \in honest
  <2> SUFFICES ASSUME n % 2 = 0 PROVE a[s[d + 2]].v \in honest
    OBVIOUS
  <2>1. d + 2 \in 1..n /\ n <= 2 * (n - (d + 2) + 1)
    BY <1>1, <1>4
  <2> QED BY <1>1, <2>1
<1> HIDE DEF honest
<1>9. Min(honest) \in Nat /\ \A y \in honest : Min(honest) <= y
  <2>1. honest # {} /\ honest \subseteq Nat
    BY <1>2, <1>7
  <2> QED BY <2>1, LeastIndex
<1>10. Max(honest) \in honest /\ \A y \in honest : y <= Max(honest)
  <2>1. \E x \in honest : \A y \in honest : x >= y
    <3>1. CASE 2 \in honest
      BY <1>2, <3>1
    <3>2. CASE 2 \notin honest
      <4>1. honest = {1}
        BY <1>2, <1>7, <3>2
      <4> QED BY <4>1
    <3> QED BY <3>1, <3>2
  <2>2. Max(honest) \in honest /\ \A y \in honest : Max(honest) >= y
    BY <2>1, Zenon DEF Max
  <2> QED BY <1>2, <2>2
<1>11. Middle(a, s, n) \in {1, 2} /\ Min(honest) <= Middle(a, s, n) /\ Middle(a, s, n) <= Max(honest)
  <2>1. CASE n % 2 # 0
    BY <1>2, <1>5, <1>7, <1>9, <1>10, <2>1
  <2>2. CASE n % 2 = 0
    <3> DEFINE x == a[s[d + 1]].v
               y == a[s[d + 2]].v
    <3>1. Middle(a, s, n) = (x + y) \div 2 /\ x \in honest /\ y \in honest
      BY <1>5, <1>7, <1>8, <2>2
    <3> HIDE DEF x, y
    <3>2. Middle(a, s, n) \in {x, y}
      <4>1. x \in Int /\ y \in Int /\ x \in 1..2 /\ y \in 1..2
        BY <1>2, <3>1
      <4>2. (x + y) \div 2 = IF x = 2 /\ y = 2 THEN 2 ELSE 1
        BY <4>1
      <4> QED BY <3>1, <4>1, <4>2
    <3> QED BY <1>2, <1>9, <1>10, <3>1, <3>2
  <2> QED BY <2>1, <2>2
<1>12. Max(honest) \in {1, 2}
  BY <1>2, <1>10
<1>13. Median(a).v = Middle(a, s, n)
  BY <1>3 DEF Ok
<1> QED BY <1>9, <1>11, <1>12, <1>13 DEF honest

GatewaysSpec == GatewaysInit /\ [][GatewaysNext]_gvars

\* Answers all of which are v or failures, at least one of them v.
Serves(a, v) ==
  \E n \in Nat : a = [i \in 1..n |-> a[i]] /\ (\A i \in 1..n : a[i] \in {Ok(v), Err}) /\ \E i \in 1..n : a[i] = Ok(v)

LEMMA FirstServes ==
  ASSUME NEW a, NEW v, Serves(a, v), NEW accepted, "ok" \in accepted, "err" \notin accepted, NEW otherwise
  PROVE  First(a, accepted, otherwise) = Ok(v)
<1> DEFINE at == {i \in DOMAIN a : a[i].st \in accepted}
<1>1. at \subseteq Nat /\ at # {} /\ \A i \in at : a[i] = Ok(v)
  BY DEF Serves, Ok, Err
<1>2. Min(at) \in at
  BY <1>1, LeastIndex
<1> QED BY <1>1, <1>2 DEF First

\* What the loops over the gateways make of such answers.
LEMMA LoopsServe ==
  ASSUME NEW a, NEW v \in Nat \ {0}, Serves(a, v)
  PROVE  /\ FirstAnswer(a) = Ok(v) /\ FirstFound(a) = Ok(v) /\ a # <<>>
         /\ \A o : FirstTaken(a, o) = Ok(v) /\ FirstGood(a, o) = Ok(v)
         /\ \A o : First(a, {"ok", "none"}, o) = Ok(v) /\ First(a, {"ok", "none", "bad"}, o) = Ok(v)
                   /\ First(a, {"ok", "bad", "none"}, o) = Ok(v)
         /\ MissingIsError(a) = a
         /\ Highest(a) = Ok(v) /\ Median(a).st = "ok"
<1>1. FirstAnswer(a) = Ok(v) /\ FirstFound(a) = Ok(v)
  BY FirstServes DEF FirstAnswer, FirstFound
<1>2. \A o : FirstTaken(a, o) = Ok(v) /\ FirstGood(a, o) = Ok(v)
  BY FirstServes DEF FirstTaken, FirstGood
<1>3. \A o : First(a, {"ok", "none"}, o) = Ok(v) /\ First(a, {"ok", "none", "bad"}, o) = Ok(v)
             /\ First(a, {"ok", "bad", "none"}, o) = Ok(v)
  BY FirstServes
<1>4. PICK n \in Nat : a = [i \in 1..n |-> a[i]] /\ (\A i \in 1..n : a[i] \in {Ok(v), Err}) /\ \E i \in 1..n : a[i] = Ok(v)
  BY DEF Serves
<1>5. a # <<>>
  BY <1>4
<1>6. MissingIsError(a) = a
  <2>1. \A i \in DOMAIN a : a[i].st # "none"
    BY <1>4 DEF Ok, Err
  <2>2. a = [i \in DOMAIN a |-> a[i]]
    BY <1>4
  <2> QED BY <2>1, <2>2 DEF MissingIsError
<1>7. {a[i].v : i \in Values(a)} = {v}
  BY <1>4 DEF Values, Ok, Err
<1>8. Highest(a) = Ok(v)
  <2> DEFINE S == {0} \cup {a[i].v : i \in Values(a)}
  <2>1. S = {0, v}
    BY <1>7
  <2> HIDE DEF S
  <2>2. \E x \in S : \A y \in S : x >= y
    BY <2>1
  <2>3. Max(S) \in S /\ \A y \in S : Max(S) >= y
    BY <2>2, Zenon DEF Max
  <2>4. Max(S) = v
    BY <2>1, <2>3
  <2> QED BY <2>4 DEF Highest, S
<1>9. Median(a).st = "ok"
  <2>1. Values(a) # {} /\ Values(a) \in SUBSET (1..n)
    BY <1>4 DEF Values, Ok
  <2>2. IsFiniteSet(Values(a))
    BY <2>1, FS_Interval, FS_Subset
  <2>3. Cardinality(Values(a)) # 0
    BY <2>1, <2>2, FS_EmptySet
  <2> QED BY <2>3 DEF Median, Ok
<1> QED BY <1>1, <1>2, <1>3, <1>5, <1>6, <1>8, <1>9

\* Queries that the gateways in use serve.
QueryServed(q) == Serves(q.height, Tip) /\ Serves(q.object, 1) /\ Serves(q.value, 2)
GrpcServed(q) == Serves(q.grpcHeight, Tip) /\ Serves(q.grpcObject, 1) /\ Serves(q.grpcValue, 2)

IsOk(r, but) == \A c \in DOMAIN r \ but : r[c].st = "ok"

\* Every call of every adapter is answered then.
LEMMA EthServed ==
  ASSUME NEW q, QueryServed(q), q.initing \in BOOLEAN
  PROVE  \A r \in Results("eth", q) : IsOk(r, {"SuggestPriceFirst"})
<1>1. /\ FirstAnswer(q.value) = Ok(2) /\ FirstFound(q.object) = Ok(1) /\ Highest(q.height) = Ok(Tip)
      /\ Median(q.value).st = "ok" /\ Highest(q.value) = Ok(2)
      /\ \A o : First(q.value, {"ok", "none"}, o) = Ok(2) /\ First(q.value, {"ok", "none", "bad"}, o) = Ok(2)
  BY LoopsServe, GatewaysAssumption DEF QueryServed
<1>2. Results("eth", q) =
        {EthHeight(q), EthObjects(q), EthPoolNonce(q), EthPrices(q), EthTipCap(q), EthNetwork(q), EthBalance(q), EthFees(q),
         EthLogs(q), EthCall(q), SapphireCall(q)}
  BY DEF Results
<1> DEFINE but == {"SuggestPriceFirst"}
<1>3. IsOk(EthHeight(q), but) /\ IsOk(EthObjects(q), but) /\ IsOk(EthPoolNonce(q), but)
  BY <1>1 DEF IsOk, EthHeight, EthObjects, EthPoolNonce, Ok
<1>4. IsOk(EthPrices(q), but) /\ IsOk(EthTipCap(q), but) /\ IsOk(EthNetwork(q), but)
  BY <1>1 DEF IsOk, EthPrices, EthTipCap, EthNetwork, SuggestPrice, Ok
<1>5. IsOk(EthBalance(q), but) /\ IsOk(EthFees(q), but) /\ IsOk(EthLogs(q), but)
  BY <1>1 DEF IsOk, EthBalance, EthFees, EthLogs, Ok
<1>6. IsOk(EthCall(q), but) /\ IsOk(SapphireCall(q), but)
  BY <1>1 DEF IsOk, EthCall, SapphireCall, Ok
<1> HIDE DEF but
<1>7. \A r \in Results("eth", q) : IsOk(r, but)
  BY <1>2, <1>3, <1>4, <1>5, <1>6
<1> QED BY <1>7 DEF but

\* What the loops make of the answers to queries that are served.
Loops(q) ==
  /\ FirstAnswer(q.value) = Ok(2) /\ FirstFound(q.value) = Ok(2) /\ Highest(q.height) = Ok(Tip)
  /\ FirstAnswer(q.object) = Ok(1) /\ FirstFound(q.object) = Ok(1) /\ FirstAnswer(q.height) = Ok(Tip)
  /\ MissingIsError(q.height) = q.height /\ MissingIsError(q.object) = q.object /\ MissingIsError(q.value) = q.value
  /\ \A o : /\ FirstTaken(q.height, o) = Ok(Tip) /\ FirstGood(q.height, o) = Ok(Tip)
           /\ FirstTaken(q.object, o) = Ok(1) /\ FirstGood(q.object, o) = Ok(1)
           /\ FirstTaken(q.value, o) = Ok(2) /\ FirstGood(q.value, o) = Ok(2)
           /\ First(q.object, {"ok", "none", "bad"}, o) = Ok(1) /\ First(q.object, {"ok", "bad", "none"}, o) = Ok(1)
           /\ First(q.object, {"ok", "none"}, o) = Ok(1)
           /\ First(q.value, {"ok", "none"}, o) = Ok(2) /\ First(q.value, {"ok", "none", "bad"}, o) = Ok(2)

LEMMA QueryLoops ==
  ASSUME NEW q, QueryServed(q)
  PROVE  Loops(q)
<1>1. Serves(q.height, Tip) /\ Serves(q.object, 1) /\ Serves(q.value, 2) /\ Tip \in Nat \ {0}
  BY GatewaysAssumption DEF QueryServed
<1> QED BY <1>1, LoopsServe DEF Loops

LEMMA TronServed ==
  ASSUME NEW q, QueryServed(q)
  PROVE  \A r \in Results("tron", q) : IsOk(r, {"GetBalance"})
<1>1. Loops(q)
  BY QueryLoops
<1>2. Results("tron", q) = {TronHeight(q), TronTransaction(q), TronTransactionInfo(q), TronCode(q), TronBalance(q), TronBuild(q), TronCall(q)}
  BY DEF Results
<1>3. IsOk(TronHeight(q), {"GetBalance"})
  BY <1>1 DEF Loops, IsOk, TronHeight, Ok
<1>4. IsOk(TronTransaction(q), {"GetBalance"})
  BY <1>1 DEF Loops, IsOk, TronTransaction, Ok
<1>5. IsOk(TronTransactionInfo(q), {"GetBalance"})
  BY <1>1 DEF Loops, IsOk, TronTransactionInfo, Ok
<1>6. IsOk(TronCode(q), {"GetBalance"})
  BY <1>1 DEF Loops, IsOk, TronCode, Ok
<1>7. IsOk(TronBalance(q), {"GetBalance"})
  BY <1>1 DEF Loops, IsOk, TronBalance, Ok
<1>8. IsOk(TronBuild(q), {"GetBalance"})
  BY <1>1 DEF Loops, IsOk, TronBuild, Ok
<1>9. IsOk(TronCall(q), {"GetBalance"})
  BY <1>1 DEF Loops, IsOk, TronCall, Ok
<1> QED BY <1>2, <1>3, <1>4, <1>5, <1>6, <1>7, <1>8, <1>9

LEMMA SolanaServed ==
  ASSUME NEW q, QueryServed(q)
  PROVE  \A r \in Results("solana", q) : IsOk(r, {})
<1>1. Loops(q)
  BY QueryLoops
<1>2. Results("solana", q) = {SolanaHeight(q), SolanaBlocks(q), SolanaAccount(q), SolanaNumbers(q), SolanaSignatures(q)}
  BY DEF Results
<1>3. IsOk(SolanaHeight(q), {})
  BY <1>1 DEF Loops, IsOk, SolanaHeight, Ok
<1>4. IsOk(SolanaBlocks(q), {})
  BY <1>1 DEF Loops, IsOk, SolanaBlocks, Ok
<1>5. IsOk(SolanaAccount(q), {})
  BY <1>1 DEF Loops, IsOk, SolanaAccount, Ok, None
<1>6. IsOk(SolanaNumbers(q), {})
  BY <1>1 DEF Loops, IsOk, SolanaNumbers, Ok
<1>7. IsOk(SolanaSignatures(q), {})
  BY <1>1 DEF Loops, IsOk, SolanaSignatures, Ok
<1> QED BY <1>2, <1>3, <1>4, <1>5, <1>6, <1>7

LEMMA AptosServed ==
  ASSUME NEW q, QueryServed(q)
  PROVE  \A r \in Results("aptos", q) : IsOk(r, {})
<1>1. Loops(q)
  BY QueryLoops
<1>2. Results("aptos", q) = {AptosHeight(q), AptosQueries(q), AptosTransactions(q), AptosAccountBalance(q)}
  BY DEF Results
<1>3. IsOk(AptosHeight(q), {})
  BY <1>1 DEF Loops, IsOk, AptosHeight, Ok, AptosClient, AptosQueries
<1>4. IsOk(AptosQueries(q), {})
  BY <1>1 DEF Loops, IsOk, AptosQueries, Ok, AptosClient
<1>5. IsOk(AptosTransactions(q), {})
  BY <1>1 DEF Loops, IsOk, AptosTransactions, Ok, AptosClient
<1>6. IsOk(AptosAccountBalance(q), {})
  BY <1>1 DEF Loops, IsOk, AptosAccountBalance, Ok, AptosClient
<1> QED BY <1>2, <1>3, <1>4, <1>5, <1>6

LEMMA CardanoServed ==
  ASSUME NEW q, QueryServed(q)
  PROVE  \A r \in Results("cardano", q) : IsOk(r, {})
<1>1. Loops(q)
  BY QueryLoops
<1>2. Results("cardano", q) = {CardanoHeight(q), CardanoTip(q), CardanoTransaction(q), CardanoUtxos(q)}
  BY DEF Results
<1>3. IsOk(CardanoHeight(q), {})
  BY <1>1 DEF Loops, IsOk, CardanoHeight, Ok, CardanoClient
<1>4. IsOk(CardanoTip(q), {})
  BY <1>1 DEF Loops, IsOk, CardanoTip, Ok, CardanoClient
<1>5. IsOk(CardanoTransaction(q), {})
  BY <1>1 DEF Loops, IsOk, CardanoTransaction, Ok, CardanoClient
<1>6. IsOk(CardanoUtxos(q), {})
  BY <1>1 DEF Loops, IsOk, CardanoUtxos, Ok, CardanoClient
<1> QED BY <1>2, <1>3, <1>4, <1>5, <1>6

LEMMA NearServed ==
  ASSUME NEW q, QueryServed(q)
  PROVE  \A r \in Results("near", q) : IsOk(r, {})
<1>1. Loops(q)
  BY QueryLoops
<1>2. Results("near", q) = {NearBlocks(q), NearTransaction(q), NearBalances(q)}
  BY DEF Results
<1>3. IsOk(NearBlocks(q), {})
  BY <1>1 DEF Loops, IsOk, NearBlocks, Ok, NearClient
<1>4. IsOk(NearTransaction(q), {})
  BY <1>1 DEF Loops, IsOk, NearTransaction, Ok, NearClient
<1>5. IsOk(NearBalances(q), {})
  BY <1>1 DEF Loops, IsOk, NearBalances, Ok, NearClient
<1> QED BY <1>2, <1>3, <1>4, <1>5

LEMMA FlowServed ==
  ASSUME NEW q, QueryServed(q)
  PROVE  \A r \in Results("flow", q) : IsOk(r, {})
<1>1. Loops(q)
  BY QueryLoops
<1>2. Results("flow", q) = {FlowQueries(q)}
  BY DEF Results
<1>3. IsOk(FlowQueries(q), {})
  BY <1>1 DEF Loops, IsOk, FlowQueries, Ok, FlowClient
<1> QED BY <1>2, <1>3

LEMMA BtcServed ==
  ASSUME NEW q, QueryServed(q)
  PROVE  \A r \in Results("btc", q) : IsOk(r, {})
<1>1. Loops(q)
  BY QueryLoops
<1>2. Results("btc", q) = {BtcQueries(q)}
  BY DEF Results
<1>3. IsOk(BtcQueries(q), {})
  BY <1>1 DEF Loops, IsOk, BtcQueries, Ok, BtcClient
<1> QED BY <1>2, <1>3

LEMMA IotaServed ==
  ASSUME NEW q, QueryServed(q)
  PROVE  \A r \in Results("iota", q) : IsOk(r, {})
<1>1. Loops(q)
  BY QueryLoops
<1>2. Results("iota", q) = {IotaHeight(q), IotaTransactions(q), IotaBalance(q)}
  BY DEF Results
<1>3. IsOk(IotaHeight(q), {})
  BY <1>1 DEF Loops, IsOk, IotaHeight, Ok, IotaClient
<1>4. IsOk(IotaTransactions(q), {})
  BY <1>1 DEF Loops, IsOk, IotaTransactions, Ok, IotaClient
<1>5. IsOk(IotaBalance(q), {})
  BY <1>1 DEF Loops, IsOk, IotaBalance, Ok, IotaClient
<1> QED BY <1>2, <1>3, <1>4, <1>5

LEMMA RippleServed ==
  ASSUME NEW q, QueryServed(q)
  PROVE  \A r \in Results("ripple", q) : IsOk(r, {})
<1>1. Loops(q)
  BY QueryLoops
<1>2. Results("ripple", q) = {RippleHeight(q), RippleTransaction(q), RippleAccount(q), RippleAccountLine(q), RippleFeeCall(q)}
  BY DEF Results
<1>3. IsOk(RippleHeight(q), {})
  BY <1>1 DEF Loops, IsOk, RippleHeight, Ok
<1>4. IsOk(RippleTransaction(q), {})
  BY <1>1 DEF Loops, IsOk, RippleTransaction, Ok
<1>5. IsOk(RippleAccount(q), {})
  BY <1>1 DEF Loops, IsOk, RippleAccount, Ok
<1>6. IsOk(RippleAccountLine(q), {})
  BY <1>1 DEF Loops, IsOk, RippleAccountLine, Ok, NotFound
<1>7. IsOk(RippleFeeCall(q), {})
  BY <1>1 DEF Loops, IsOk, RippleFeeCall, Ok
<1> QED BY <1>2, <1>3, <1>4, <1>5, <1>6, <1>7

LEMMA ReefServed ==
  ASSUME NEW q, QueryServed(q), q.initing \in BOOLEAN
  PROVE  \A r \in Results("reef", q) : IsOk(r, {})
<1>1. Loops(q)
  BY QueryLoops
<1>2. Results("reef", q) = {ReefCall(q), ReefAddresses(q), ReefAccount(q)}
  BY DEF Results
<1>3. IsOk(ReefCall(q), {})
  BY <1>1 DEF Loops, IsOk, ReefCall, Ok, EthCall
<1>4. IsOk(ReefAddresses(q), {})
  BY <1>1 DEF Loops, IsOk, ReefAddresses, Ok, EthCall
<1>5. IsOk(ReefAccount(q), {})
  BY <1>1 DEF Loops, IsOk, ReefAccount, Ok, EthCall
<1> QED BY <1>2, <1>3, <1>4, <1>5

LEMMA CosmosServed ==
  ASSUME NEW q, QueryServed(q), GrpcServed(q), NEW k, k \notin {"eth", "tron", "solana", "aptos", "cardano", "near", "flow",
         "btc", "iota", "ripple", "stellar", "reef"}
  PROVE  \A r \in Results(k, q) : IsOk(r, {})
<1>1. GRPC(q.grpcHeight) = Ok(Tip) /\ GRPC(q.grpcObject) = Ok(1) /\ GRPC(q.grpcValue) = Ok(2)
  <2>1. Serves(q.grpcHeight, Tip) /\ Serves(q.grpcObject, 1) /\ Serves(q.grpcValue, 2) /\ Tip \in Nat \ {0}
    BY GatewaysAssumption DEF GrpcServed
  <2> QED BY <2>1, LoopsServe DEF GRPC
<1>2. \A v, rest : GRPC(v).st = "ok" => GrpcThenRest(v, rest).st = "ok"
  BY DEF GrpcThenRest, Err
<1>3. \A rest : /\ GrpcThenRest(q.grpcHeight, rest).st = "ok" /\ GrpcThenRest(q.grpcObject, rest).st = "ok"
               /\ GrpcThenRest(q.grpcValue, rest).st = "ok"
  BY <1>1, <1>2 DEF Ok
<1>4. Results(k, q) = {CosmosBlocks(q), CosmosTransaction(q), CosmosAccount(q), CosmosSimulate(q)}
  BY DEF Results
<1>5. IsOk(CosmosBlocks(q), {}) /\ IsOk(CosmosTransaction(q), {}) /\ IsOk(CosmosAccount(q), {}) /\ IsOk(CosmosSimulate(q), {})
  BY <1>3 DEF IsOk, CosmosBlocks, CosmosTransaction, CosmosAccount, CosmosSimulate
<1> QED BY <1>4, <1>5

\* The types, and what is known of the gateways that have been up all the time: the order has those
\* that are listed, also while answers are being sorted or a new list is there already. (The client
\* of stellar does not ask the gateway it is told to.)
GatewaysType ==
  /\ kind \in Kinds /\ file \in Lists /\ gateway.urls \in Lists
  /\ gateway = [urls |-> gateway.urls, order |-> gateway.order, ctx |-> gateway.ctx, fails |-> gateway.fails]
  /\ gateway.order \in Seq(Range(gateway.urls)) /\ gateway.fails \in [AllGateways -> 0..3]
  /\ grpc \in Seq(AllGateways) /\ (kind = "cosmos" => Listed \subseteq Range(grpc))
  /\ health \in [AllGateways -> Health] /\ steady \subseteq AllGateways
  /\ adjust = [step |-> adjust.step, mine |-> adjust.mine, answers |-> adjust.answers]
  /\ adjust.mine => DOMAIN adjust.answers = DOMAIN gateway.urls /\ \A i \in DOMAIN adjust.answers : adjust.answers[i].v \in Int

SteadyInv ==
  /\ \A g \in steady : health[g] = "up"
  /\ kind # "stellar" =>
     /\ Listed \cap steady \subseteq Range(gateway.order)
     /\ adjust.mine => \A i \in DOMAIN gateway.urls : gateway.urls[i] \in steady => ~NoHeight(adjust.answers[i])

GatewaysInv == GatewaysType /\ SteadyInv

LEMMA ListsAre ==
  ASSUME NEW l \in Lists
  PROVE  /\ Len(l) \in Nat /\ DOMAIN l = 1..Len(l) /\ l \in Seq(AllGateways) /\ l \in Seq(Range(l))
         /\ Range(l) \subseteq AllGateways /\ l = [i \in 1..Len(l) |-> l[i]] /\ Range(l) = {l[i] : i \in 1..Len(l)}
<1>1. l \in Seq(AllGateways)
  BY GatewaysAssumption
<1>2. Len(l) \in Nat /\ DOMAIN l = 1..Len(l) /\ l = [i \in 1..Len(l) |-> l[i]]
  BY <1>1
<1>3. Range(l) = {l[i] : i \in 1..Len(l)}
  BY <1>2 DEF Range
<1>4. l \in Seq(Range(l))
  BY <1>2, <1>3
<1>5. Range(l) \subseteq AllGateways
  BY DEF AllGateways
<1> QED BY <1>1, <1>2, <1>3, <1>4, <1>5

\* The answer of a gateway to the query for its height.
LEMMA HeightAnswer ==
  ASSUME GatewaysType, NEW g \in AllGateways
  PROVE  /\ HeightOf[health[g]].v \in Int
         /\ HeightOf[health[g]].st = "err" <=> health[g] = "down"
         /\ HeightOf[health[g]].st \in {"ok", "err"}
BY GatewaysAssumption DEF GatewaysType, HeightOf, Health, Ok, Err

\* A gateway that is up, in the order, makes the latest height of Cardano known.
LEMMA CardanoAnswer ==
  ASSUME GatewaysType
  PROVE  LET a == CardanoHeight(Queries(FALSE)).GetLatestBlockNumber
         IN /\ a.v \in Int
            /\ (\E g \in Range(gateway.order) : health[g] = "up") => ~NoHeight(a)
<1> DEFINE heights == Ask(gateway.order, HeightOf)
           client == MissingIsError(heights)
           at == {i \in DOMAIN client : client[i].st \in {"ok", "bad"}}
           a == CardanoHeight(Queries(FALSE)).GetLatestBlockNumber
<1>1. a = IF at = {} THEN NotFound ELSE client[Min(at)]
  BY DEF CardanoHeight, CardanoClient, FirstTaken, First, Queries
<1>2. gateway.order \in Seq(AllGateways) /\ DOMAIN gateway.order = 1..Len(gateway.order) /\ Len(gateway.order) \in Nat
  <2>1. Range(gateway.urls) \subseteq AllGateways
    BY ListsAre DEF GatewaysType
  <2> QED BY <2>1 DEF GatewaysType
<1>3. /\ DOMAIN client = DOMAIN gateway.order
      /\ \A i \in DOMAIN gateway.order : client[i] = HeightOf[health[gateway.order[i]]]
  <2>1. \A i \in DOMAIN gateway.order : HeightOf[health[gateway.order[i]]].st # "none"
    BY <1>2, HeightAnswer
  <2> QED BY <2>1 DEF Ask, MissingIsError
<1> HIDE DEF client
<1>4. at # {} => Min(at) \in at
  <2>1. at \subseteq Nat
    BY <1>2, <1>3
  <2> QED BY <2>1, LeastIndex
<1>5. \A i \in DOMAIN client : client[i].v \in Int /\ client[i].st \in {"ok", "err"}
  BY <1>2, <1>3, HeightAnswer
<1>6. ASSUME NEW g \in Range(gateway.order), health[g] = "up" PROVE at # {}
  <2>1. PICK i \in DOMAIN gateway.order : gateway.order[i] = g
    BY DEF Range
  <2>2. client[i].st # "err"
    BY <1>2, <1>3, <1>6, <2>1, HeightAnswer
  <2> QED BY <1>3, <1>5, <2>1, <2>2
<1>9. \A i \in at : i \in DOMAIN client /\ client[i].st \in {"ok", "bad"}
  OBVIOUS
<1> HIDE DEF a, at
<1>7. a.v \in Int
  BY <1>1, <1>4, <1>5, <1>9 DEF NotFound
<1>8. at # {} => ~NoHeight(a)
  BY <1>1, <1>4, <1>9 DEF NoHeight
<1> QED BY <1>6, <1>7, <1>8 DEF a

\* What an adjustment asks.
LEMMA AskKeeps ==
  ASSUME GatewaysInv, AdjustAsk
  PROVE  GatewaysInv'
<1> DEFINE answers == [i \in DOMAIN gateway.urls |-> GetLatestBlockNumberOf(gateway.urls[i])]
<1>1. ASSUME NEW i \in DOMAIN gateway.urls
      PROVE  /\ GetLatestBlockNumberOf(gateway.urls[i]).v \in Int
             /\ kind # "stellar" /\ gateway.urls[i] \in steady => ~NoHeight(GetLatestBlockNumberOf(gateway.urls[i]))
  <2>1. gateway.urls[i] \in AllGateways /\ gateway.urls[i] \in Listed
    BY ListsAre DEF GatewaysInv, GatewaysType, Listed
  <2>2. CASE kind = "cardano"
    <3>1. /\ GetLatestBlockNumberOf(gateway.urls[i]).v \in Int
          /\ (\E g \in Range(gateway.order) : health[g] = "up") => ~NoHeight(GetLatestBlockNumberOf(gateway.urls[i]))
      BY <2>2, CardanoAnswer DEF GetLatestBlockNumberOf, GatewaysInv
    <3>2. gateway.urls[i] \in steady =>
            gateway.urls[i] \in Range(gateway.order) /\ health[gateway.urls[i]] = "up"
      BY <2>1, <2>2 DEF GatewaysInv, SteadyInv
    <3> QED BY <3>1, <3>2
  <2>3. CASE kind = "stellar"
    <3> DEFINE heights == Ask(gateway.urls, HeightOf)
               a == StellarHeight(Queries(FALSE)).GetLatestBlockNumber
               at == {k \in DOMAIN Shared(heights) : Shared(heights)[k].st \in {"ok", "bad"}}
    <3>1. GetLatestBlockNumberOf(gateway.urls[i]) = a
      BY <2>3 DEF GetLatestBlockNumberOf
    <3>2. a = IF at = {} THEN Err ELSE Shared(heights)[Min(at)]
      BY DEF StellarHeight, FirstTaken, First, Queries
    <3>3. Len(gateway.urls) \in Nat /\ DOMAIN gateway.urls = 1..Len(gateway.urls) /\ Len(gateway.urls) > 0
          /\ \A k \in 1..Len(gateway.urls) : gateway.urls[k] \in AllGateways
      BY ListsAre DEF GatewaysInv, GatewaysType
    <3>4. heights = [k \in 1..Len(gateway.urls) |-> HeightOf[health[gateway.urls[k]]]]
      BY <3>3 DEF Ask
    <3> HIDE DEF heights
    <3>5. Len(heights) = Len(gateway.urls) /\ heights # <<>>
      BY <3>3, <3>4
    <3>6. Shared(heights) = <<heights[Len(gateway.urls)]>>
      BY <3>5 DEF Shared, Last
    <3>7. heights[Len(gateway.urls)].v \in Int
      BY <3>3, <3>4, HeightAnswer DEF GatewaysInv
    <3>8. at \subseteq {1}
      BY <3>6
    <3>9. at # {} => Min(at) = 1
      BY <3>8, LeastIndex
    <3> HIDE DEF a, at
    <3>10. a.v \in Int
      BY <3>2, <3>6, <3>7, <3>9 DEF Err
    <3> QED BY <2>3, <3>1, <3>10
  <2>4. CASE kind \notin {"cardano", "stellar"}
    <3>1. GetLatestBlockNumberOf(gateway.urls[i]) = HeightOf[health[gateway.urls[i]]]
      BY <2>4 DEF GetLatestBlockNumberOf
    <3>2. gateway.urls[i] \in steady => health[gateway.urls[i]] = "up"
      BY DEF GatewaysInv, SteadyInv
    <3> QED BY <2>1, <3>1, <3>2, HeightAnswer DEF GatewaysInv, NoHeight
  <2> QED BY <2>2, <2>3, <2>4
<1> HIDE DEF answers
<1>2. /\ adjust' = [step |-> "asking", mine |-> TRUE, answers |-> answers]
      /\ gateway' = [gateway EXCEPT !.ctx = TRUE]
      /\ UNCHANGED <<kind, file, grpc, health, steady>>
  BY DEF AdjustAsk, answers
<1>4. gateway' = [urls |-> gateway.urls, order |-> gateway.order, ctx |-> TRUE, fails |-> gateway.fails]
  BY <1>2 DEF GatewaysInv, GatewaysType
<1>5. /\ gateway'.urls = gateway.urls /\ gateway'.order = gateway.order
      /\ gateway'.fails = gateway.fails /\ gateway'.ctx = TRUE
  BY <1>4
<1>3. /\ DOMAIN answers = DOMAIN gateway.urls
      /\ \A i \in DOMAIN answers : answers[i].v \in Int
      /\ kind # "stellar" => \A i \in DOMAIN gateway.urls : gateway.urls[i] \in steady => ~NoHeight(answers[i])
  BY <1>1 DEF answers
<1>6. GatewaysType'
  <2>1. Listed' = Listed
    BY <1>5 DEF Listed
  <2>2. gateway' = [urls |-> gateway'.urls, order |-> gateway'.order, ctx |-> gateway'.ctx, fails |-> gateway'.fails]
    BY <1>4
  <2>3. /\ adjust' = [step |-> adjust'.step, mine |-> adjust'.mine, answers |-> adjust'.answers]
        /\ adjust'.mine => DOMAIN adjust'.answers = DOMAIN gateway'.urls
                            /\ \A i \in DOMAIN adjust'.answers : adjust'.answers[i].v \in Int
    BY <1>2, <1>3, <1>5
  <2> QED BY <1>2, <1>5, <2>1, <2>2, <2>3 DEF GatewaysInv, GatewaysType
<1>7. SteadyInv'
  BY <1>2, <1>3, <1>5 DEF GatewaysInv, SteadyInv, Listed
<1> QED BY <1>6, <1>7 DEF GatewaysInv

\* Failures in a row, of which a gateway that answered has none.
LEMMA FailsAre ==
  ASSUME GatewaysType, NEW answers, DOMAIN answers = DOMAIN gateway.urls
  PROVE  /\ Fails(answers) \in [AllGateways -> 0..3]
         /\ \A g \in Range(gateway.urls) :
              (\A i \in DOMAIN gateway.urls : gateway.urls[i] = g => ~NoHeight(answers[i])) => Fails(answers)[g] = 0
<1> DEFINE at(g) == {i \in DOMAIN answers : gateway.urls[i] = g}
           fails(g) == IF at(g) = {} \/ ~NoHeight(answers[Min(at(g))]) THEN 0 ELSE Min({3, gateway.fails[g] + 1})
<1>1. Fails(answers) = [g \in AllGateways |-> fails(g)]
  BY DEF Fails
<1>2. \A g : at(g) \subseteq Nat /\ (at(g) # {} => Min(at(g)) \in at(g))
  <2>1. DOMAIN answers \subseteq Nat
    BY ListsAre DEF GatewaysType
  <2>2. \A g : at(g) \subseteq Nat
    BY <2>1
  <2> HIDE DEF at
  <2> QED BY <2>2, LeastIndex
<1>3. ASSUME NEW g \in AllGateways PROVE fails(g) \in 0..3
  <2>1. gateway.fails[g] \in 0..3
    BY DEF GatewaysType
  <2> DEFINE S == {3, gateway.fails[g] + 1}
  <2>2. S \subseteq Nat /\ S # {}
    BY <2>1
  <2>3. Min(S) \in S /\ \A y \in S : Min(S) <= y
    BY <2>2, LeastIndex
  <2>4. Min(S) \in 0..3
    BY <2>1, <2>2, <2>3
  <2> HIDE DEF at, S
  <2> QED BY <2>4 DEF S
<1>4. ASSUME NEW g \in Range(gateway.urls),
             \A i \in DOMAIN gateway.urls : gateway.urls[i] = g => ~NoHeight(answers[i])
      PROVE  fails(g) = 0 /\ g \in AllGateways
  <2>1. g \in AllGateways
    BY ListsAre DEF GatewaysType
  <2>2. at(g) # {} => ~NoHeight(answers[Min(at(g))])
    BY <1>2, <1>4
  <2> QED BY <2>1, <2>2
<1> HIDE DEF fails
<1> QED BY <1>1, <1>3, <1>4

\* The new order has gateways of the list only, and every one of them that answered.
LEMMA ReorderedIs ==
  ASSUME GatewaysType, NEW answers, DOMAIN answers = DOMAIN gateway.urls, \A i \in DOMAIN answers : answers[i].v \in Int
  PROVE  /\ Reordered(answers) \in Seq(Range(gateway.urls))
         /\ \A i \in DOMAIN gateway.urls : Fails(answers)[gateway.urls[i]] < 3 => gateway.urls[i] \in Range(Reordered(answers))
<1> DEFINE kept == {i \in DOMAIN answers : Fails(answers)[gateway.urls[i]] < 3}
           v == [i \in DOMAIN answers |-> -answers[i].v]
           s == Sorted(kept, v)
           n == Cardinality(kept)
           order == [p \in 1..n |-> gateway.urls[s[p]]]
<1>1. /\ Len(gateway.urls) \in Nat /\ DOMAIN gateway.urls = 1..Len(gateway.urls) /\ gateway.urls \in Seq(Range(gateway.urls))
      /\ \A i \in DOMAIN gateway.urls : gateway.urls[i] \in Range(gateway.urls)
  BY ListsAre DEF GatewaysType
<1>2. kept \in SUBSET (1..Len(gateway.urls)) /\ kept \subseteq Nat /\ \A i \in kept : v[i] \in Int
  BY <1>1
<1>3. IsFiniteSet(kept)
  <2> HIDE DEF kept
  <2>1. IsFiniteSet(1..Len(gateway.urls))
    BY <1>1, FS_Interval
  <2> QED BY <1>2, <2>1, FS_Subset
<1>4. Reordered(answers) = IF kept = {} THEN gateway.urls ELSE order
  BY DEF Reordered
<1>5. ASSUME NEW i \in DOMAIN gateway.urls, Fails(answers)[gateway.urls[i]] < 3 PROVE i \in kept
  BY <1>5
<1>6. kept \subseteq DOMAIN gateway.urls
  OBVIOUS
<1> HIDE DEF kept, v
<1>7. n \in Nat /\ s \in [1..n -> kept] /\ \A i \in kept : \E p \in 1..n : s[p] = i
  <2>1. kept \subseteq Nat /\ IsFiniteSet(kept) /\ \A i \in kept : v[i] \in Int
    BY <1>2, <1>3
  <2>2. Sorts(Sorted(kept, v), kept, v)
    BY <2>1, SortedIs
  <2> QED BY <2>2 DEF Sorts
<1> HIDE DEF s, n
<1>8. order \in Seq(Range(gateway.urls))
  <2>1. order \in [1..n -> Range(gateway.urls)]
    BY <1>1, <1>6, <1>7
  <2> QED BY <1>7, <2>1
<1>9. ASSUME NEW i \in kept PROVE gateway.urls[i] \in Range(order)
  BY <1>7 DEF Range
<1> HIDE DEF order
<1> QED BY <1>1, <1>4, <1>5, <1>8, <1>9

\* The end of an adjustment.
LEMMA AdjustKeeps ==
  ASSUME GatewaysInv, AdjustGatewayOrder
  PROVE  GatewaysInv'
<1>1. /\ adjust' = [step |-> adjust'.step, mine |-> FALSE, answers |-> <<>>]
      /\ UNCHANGED <<kind, file, grpc, health, steady>>
      /\ gateway' = IF adjust.mine
                     THEN [gateway EXCEPT !.fails = Fails(adjust.answers), !.order = Reordered(adjust.answers)]
                     ELSE gateway
  BY DEF AdjustGatewayOrder, At
<1>2. CASE ~adjust.mine
  BY <1>1, <1>2 DEF GatewaysInv, GatewaysType, SteadyInv, Listed
<1>3. CASE adjust.mine
  <2> DEFINE answers == adjust.answers
  <2>1. DOMAIN answers = DOMAIN gateway.urls /\ \A i \in DOMAIN answers : answers[i].v \in Int
    BY <1>3 DEF GatewaysInv, GatewaysType
  <2>2. /\ Fails(answers) \in [AllGateways -> 0..3]
        /\ \A g \in Range(gateway.urls) :
             (\A i \in DOMAIN gateway.urls : gateway.urls[i] = g => ~NoHeight(answers[i])) => Fails(answers)[g] = 0
    BY <2>1, FailsAre DEF GatewaysInv
  <2>3. /\ Reordered(answers) \in Seq(Range(gateway.urls))
        /\ \A i \in DOMAIN gateway.urls :
             Fails(answers)[gateway.urls[i]] < 3 => gateway.urls[i] \in Range(Reordered(answers))
    BY <2>1, ReorderedIs DEF GatewaysInv
  <2>4. gateway' = [urls |-> gateway.urls, order |-> Reordered(answers), ctx |-> gateway.ctx, fails |-> Fails(answers)]
    BY <1>1, <1>3 DEF GatewaysInv, GatewaysType
  <2>5. ASSUME kind # "stellar", NEW g \in Listed \cap steady PROVE g \in Range(Reordered(answers))
    <3>1. PICK i \in DOMAIN gateway.urls : gateway.urls[i] = g
      BY DEF Listed, Range
    <3>2. Fails(answers)[g] = 0
      BY <1>3, <2>2, <2>5 DEF GatewaysInv, SteadyInv, Listed
    <3> QED BY <2>3, <3>1, <3>2
  <2> HIDE DEF answers
  <2> DEFINE order == Reordered(answers)
             fails == Fails(answers)
  <2> HIDE DEF order, fails
  <2>8. /\ gateway' = [urls |-> gateway.urls, order |-> order, ctx |-> gateway.ctx, fails |-> fails]
        /\ order \in Seq(Range(gateway.urls)) /\ fails \in [AllGateways -> 0..3]
        /\ kind # "stellar" => Listed \cap steady \subseteq Range(order)
    BY <2>2, <2>3, <2>4, <2>5 DEF order, fails
  <2>9. gateway'.urls = gateway.urls /\ gateway'.order = order /\ gateway'.fails = fails /\ Listed' = Listed /\ gateway'.ctx = gateway.ctx
    BY <2>8 DEF Listed
  <2>10. adjust'.mine = FALSE
    BY <1>1
  <2>6. GatewaysType'
    BY <1>1, <2>8, <2>9, <2>10 DEF GatewaysInv, GatewaysType
  <2>7. SteadyInv'
    BY <1>1, <2>8, <2>9, <2>10 DEF GatewaysInv, SteadyInv
  <2> QED BY <2>6, <2>7 DEF GatewaysInv
<1> QED BY <1>2, <1>3

\* A new list of gateways.
LEMMA UpdateKeeps ==
  ASSUME GatewaysInv, updateGateway
  PROVE  GatewaysInv'
<1>1. /\ gateway' = [urls |-> file, order |-> file, ctx |-> FALSE, fails |-> [g \in AllGateways |-> 0]]
      /\ grpc' = IF kind = "cosmos" THEN grpc \o file ELSE grpc
      /\ adjust' = [adjust EXCEPT !.mine = FALSE] /\ UNCHANGED <<kind, file, health, steady>>
  BY DEF updateGateway, SetGatewayConfig, InitGrpcClients
<1>2. /\ file \in Lists /\ file \in Seq(Range(file)) /\ file \in Seq(AllGateways)
      /\ Len(file) \in Nat /\ Range(file) = {file[i] : i \in 1..Len(file)}
  BY ListsAre DEF GatewaysInv, GatewaysType
<1>3. adjust' = [step |-> adjust.step, mine |-> FALSE, answers |-> adjust.answers]
  BY <1>1 DEF GatewaysInv, GatewaysType
<1>4. grpc' \in Seq(AllGateways) /\ (kind = "cosmos" => Range(file) \subseteq Range(grpc'))
  <2>1. grpc \in Seq(AllGateways)
    BY DEF GatewaysInv, GatewaysType
  <2>2. CASE kind = "cosmos"
    <3>1. grpc' = grpc \o file
      BY <1>1, <2>2
    <3>2. grpc \o file \in Seq(AllGateways) /\ Len(grpc \o file) = Len(grpc) + Len(file)
      BY <1>2, <2>1
    <3>3. ASSUME NEW i \in 1..Len(file) PROVE file[i] \in Range(grpc \o file)
      <4>1. /\ Len(grpc) + i \in 1..Len(grpc \o file) /\ (grpc \o file)[Len(grpc) + i] = file[i]
        BY <1>2, <2>1, <3>2
      <4>2. DOMAIN (grpc \o file) = 1..Len(grpc \o file)
        BY <3>2
      <4> QED BY <4>1, <4>2 DEF Range
    <3> QED BY <1>2, <3>1, <3>2, <3>3
  <2>3. CASE kind # "cosmos"
    BY <1>1, <2>1, <2>3
  <2> QED BY <2>2, <2>3
<1>7. gateway'.urls = file /\ gateway'.order = file /\ gateway'.ctx = FALSE /\ Listed' = Range(file) /\ adjust'.mine = FALSE
  BY <1>1, <1>3 DEF Listed
<1>8. gateway'.fails \in [AllGateways -> 0..3]
  BY <1>1
<1>9. /\ gateway' = [urls |-> gateway'.urls, order |-> gateway'.order, ctx |-> gateway'.ctx, fails |-> gateway'.fails]
      /\ adjust' = [step |-> adjust'.step, mine |-> adjust'.mine, answers |-> adjust'.answers]
  BY <1>1, <1>3
<1>5. GatewaysType'
  BY <1>1, <1>2, <1>4, <1>7, <1>8, <1>9 DEF GatewaysInv, GatewaysType
<1>6. SteadyInv'
  BY <1>1, <1>7 DEF GatewaysInv, SteadyInv
<1> QED BY <1>5, <1>6 DEF GatewaysInv

\* The log of an adjustment leaves the lists alone, also when it ends the program.
LEMMA LogKeeps ==
  ASSUME GatewaysInv, LogAdjustment
  PROVE  GatewaysInv'
<1>1. adjust' = [step |-> adjust'.step, mine |-> FALSE, answers |-> <<>>]
  BY DEF LogAdjustment, At
<1>2. UNCHANGED <<kind, file, gateway, grpc, health, steady>> /\ adjust'.mine = FALSE
  BY <1>1 DEF LogAdjustment
<1> QED BY <1>1, <1>2 DEF GatewaysInv, GatewaysType, SteadyInv, Listed

\* A program that starts again has the list of the file.
LEMMA RestartKeeps ==
  ASSUME GatewaysInv, RestartGateways
  PROVE  GatewaysInv'
<1>1. /\ gateway' = [urls |-> file, order |-> file, ctx |-> FALSE, fails |-> [g \in AllGateways |-> 0]]
      /\ grpc' = IF kind = "cosmos" THEN file ELSE <<>>
      /\ adjust' = [step |-> "idle", mine |-> FALSE, answers |-> <<>>] /\ UNCHANGED <<kind, file, health, steady>>
  BY DEF RestartGateways, SetGatewayConfig, At
<1>2. file \in Lists /\ file \in Seq(Range(file)) /\ file \in Seq(AllGateways)
  BY ListsAre DEF GatewaysInv, GatewaysType
<1>3. gateway'.urls = file /\ gateway'.order = file /\ gateway'.ctx = FALSE /\ Listed' = Range(file) /\ adjust'.mine = FALSE
  BY <1>1 DEF Listed
<1>4. gateway'.fails \in [AllGateways -> 0..3] /\ grpc' \in Seq(AllGateways) /\ (kind = "cosmos" => grpc' = file)
  BY <1>1, <1>2
<1>5. GatewaysType'
  BY <1>1, <1>2, <1>3, <1>4 DEF GatewaysInv, GatewaysType
<1>6. SteadyInv'
  BY <1>1, <1>3 DEF GatewaysInv, SteadyInv
<1> QED BY <1>5, <1>6 DEF GatewaysInv

LEMMA GatewaysPreserved ==
  ASSUME GatewaysInv, [GatewaysNext]_gvars
  PROVE  GatewaysInv'
<1>1. CASE \E g \in AllGateways, h \in Health : HealthChanges(g, h)
  BY <1>1 DEF HealthChanges, GatewaysInv, GatewaysType, SteadyInv, Listed
<1>2. CASE \E l \in Lists : EditFile(l)
  BY <1>2 DEF EditFile, GatewaysInv, GatewaysType, SteadyInv, Listed
<1>3. CASE UNCHANGED gvars
  BY <1>3 DEF gvars, GatewaysInv, GatewaysType, SteadyInv, Listed
<1> QED BY <1>1, <1>2, <1>3, UpdateKeeps, AskKeeps, AdjustKeeps, LogKeeps, RestartKeeps DEF GatewaysNext, AdjustLoop

LEMMA GatewaysStart == GatewaysInit => GatewaysInv
<1> SUFFICES ASSUME GatewaysInit PROVE GatewaysInv
  OBVIOUS
<1>1. /\ file \in Lists /\ file \in Seq(Range(file)) /\ file \in Seq(AllGateways)
  BY ListsAre DEF GatewaysInit
<1>2. gateway = [urls |-> file, order |-> file, ctx |-> FALSE, fails |-> [g \in AllGateways |-> 0]]
  BY DEF GatewaysInit, SetGatewayConfig
<1>3. adjust = [step |-> "idle", mine |-> FALSE, answers |-> <<>>]
  BY DEF GatewaysInit, At
<1>4. grpc \in Seq(AllGateways) /\ (kind = "cosmos" => Listed \subseteq Range(grpc))
  BY <1>1, <1>2 DEF GatewaysInit, Listed
<1> QED BY <1>1, <1>2, <1>3, <1>4 DEF GatewaysInit, GatewaysInv, GatewaysType, SteadyInv, Listed, Health


\* The answers of gateways all of which are up or down.
LEMMA AskServes ==
  ASSUME NEW l, Len(l) \in Nat, DOMAIN l = 1..Len(l), NEW answer, NEW v,
         \A h \in Range(l) : answer[health[h]] \in {Ok(v), Err},
         NEW g \in Range(l), answer[health[g]] = Ok(v)
  PROVE  Serves(Ask(l, answer), v)
<1> DEFINE a == Ask(l, answer)
<1>1. a = [i \in 1..Len(l) |-> answer[health[l[i]]]]
  BY DEF Ask
<1>2. \A i \in 1..Len(l) : l[i] \in Range(l)
  BY DEF Range
<1>3. PICK k \in 1..Len(l) : l[k] = g
  BY DEF Range
<1> HIDE DEF a
<1>4. a = [i \in 1..Len(l) |-> a[i]] /\ (\A i \in 1..Len(l) : a[i] \in {Ok(v), Err}) /\ a[k] = Ok(v)
  BY <1>1, <1>2, <1>3
<1> QED BY <1>4 DEF Serves, a

\* With a gateway that was never down, and none that answers wrongly, all queries are served.
LEMMA QueriesServed ==
  ASSUME GatewaysInv, kind # "stellar", NEW g \in Listed \cap steady,
         \A h \in Listed \cup Range(grpc) : health[h] \in {"up", "down"}, NEW i
  PROVE  /\ QueryServed(Queries(i)) /\ Queries(i).initing = i
         /\ kind = "cosmos" => GrpcServed(Queries(i))
<1> DEFINE order == gateway.order
<1>1. /\ order \in Seq(Listed) /\ Len(order) \in Nat /\ DOMAIN order = 1..Len(order) /\ Range(order) \subseteq Listed
      /\ g \in Range(order) /\ health[g] = "up"
  <2>1. order \in Seq(Listed)
    BY DEF GatewaysInv, GatewaysType, Listed
  <2>2. Range(order) \subseteq Listed
    BY <2>1 DEF Range
  <2>3. g \in Range(order) /\ health[g] = "up"
    BY DEF GatewaysInv, SteadyInv
  <2> QED BY <2>1, <2>2, <2>3
<1>2. /\ \A h \in {"up", "down"} : HeightOf[h] \in {Ok(Tip), Err} /\ ObjectOf[h] \in {Ok(1), Err} /\ ValueOf[h] \in {Ok(2), Err}
      /\ HeightOf[health[g]] = Ok(Tip) /\ ObjectOf[health[g]] = Ok(1) /\ ValueOf[health[g]] = Ok(2)
  BY <1>1 DEF HeightOf, ObjectOf, ValueOf
<1>3. \A h \in Range(order) : health[h] \in {"up", "down"}
  BY <1>1
<1> HIDE DEF order
<1>4. Serves(Ask(order, HeightOf), Tip) /\ Serves(Ask(order, ObjectOf), 1) /\ Serves(Ask(order, ValueOf), 2)
  BY <1>1, <1>2, <1>3, AskServes
<1>5. QueryServed(Queries(i)) /\ Queries(i).initing = i
  BY <1>4 DEF QueryServed, Queries, order
<1>6. ASSUME kind = "cosmos" PROVE GrpcServed(Queries(i))
  <2>1. grpc \in Seq(AllGateways) /\ g \in Range(grpc)
    BY <1>6 DEF GatewaysInv, GatewaysType
  <2>2. Len(grpc) \in Nat /\ DOMAIN grpc = 1..Len(grpc)
    BY <2>1
  <2>3. \A h \in Range(grpc) : health[h] \in {"up", "down"}
    OBVIOUS
  <2>4. Serves(Ask(grpc, HeightOf), Tip) /\ Serves(Ask(grpc, ObjectOf), 1) /\ Serves(Ask(grpc, ValueOf), 2)
    BY <1>2, <2>1, <2>2, <2>3, AskServes
  <2> QED BY <2>4 DEF GrpcServed, Queries
<1> QED BY <1>5, <1>6

\* Every call but the fragile ones succeeds then.
LEMMA CallsServed ==
  ASSUME NEW q, QueryServed(q), q.initing \in BOOLEAN, kind \in Kinds, kind # "stellar", kind = "cosmos" => GrpcServed(q)
  PROVE  \A r \in Results(kind, q) : IsOk(r, Fragile[kind])
<1>1. CASE kind = "eth"
  <2>1. Fragile[kind] = {"SuggestPriceFirst"}
    BY <1>1 DEF Fragile
  <2> QED BY <1>1, <2>1, EthServed
<1>2. CASE kind = "tron"
  <2>1. Fragile[kind] = {"GetBalance"}
    BY <1>2 DEF Fragile
  <2> QED BY <1>2, <2>1, TronServed
<1>3. CASE kind \notin {"eth", "tron"}
  <2>1. Fragile[kind] = {}
    BY <1>3 DEF Fragile
  <2>2. kind \in {"solana", "aptos", "cardano", "near", "flow", "btc", "iota", "ripple", "reef", "cosmos"}
    BY <1>3, GatewaysAssumption
  <2>3. kind = "cosmos" => \A r \in Results(kind, q) : IsOk(r, {})
    BY CosmosServed
  <2> QED BY <2>1, <2>2, <2>3, SolanaServed, AptosServed, CardanoServed, NearServed, FlowServed, BtcServed, IotaServed, RippleServed, ReefServed
<1> QED BY <1>1, <1>2, <1>3

\* A transaction that a gateway in use accepts is reported as sent.
LEMMA SendServed ==
  ASSUME GatewaysInv, kind \notin {"stellar", "near", "flow", "btc", "cosmos", "solana"},
         NEW g \in Range(gateway.order), health[g] = "up"
  PROVE  \A s \in Sends(kind, Queries(FALSE)) : s.st = "ok"
<1> DEFINE order == gateway.order
           q == Queries(FALSE)
<1>1. Len(order) \in Nat /\ DOMAIN order = 1..Len(order) /\ Range(order) \subseteq AllGateways
  <2>1. order \in Seq(Listed) /\ Listed \subseteq AllGateways
    BY ListsAre DEF GatewaysInv, GatewaysType, Listed
  <2>2. Range(order) \subseteq Listed
    BY <2>1 DEF Range
  <2> QED BY <2>1, <2>2
<1>2. /\ \A h \in Health : SendOf[h] \in {Ok(1), Err}
      /\ SendOf[health[g]] = Ok(1)
  BY DEF SendOf, Health
<1>3. \A h \in Range(order) : health[h] \in Health
  BY <1>1 DEF GatewaysInv, GatewaysType
<1>4. Serves(Ask(order, SendOf), 1)
  <2> HIDE DEF order
  <2>1. g \in Range(order)
    BY DEF order
  <2> QED BY <1>1, <1>2, <1>3, <2>1, AskServes
<1>5. Serves(q.send, 1)
  BY <1>4 DEF Queries
<1> HIDE DEF q
<1>6. FirstAnswer(q.send) = Ok(1) /\ \A o : FirstGood(q.send, o) = Ok(1)
  BY <1>5, LoopsServe
<1>7. Ok(1).st = "ok"
  BY DEF Ok
<1>8. kind \in {"eth", "tron", "aptos", "iota", "ripple", "cardano", "reef"}
  BY GatewaysAssumption DEF GatewaysInv, GatewaysType
<1>9. Sends("eth", q) = {Ok(1)}
  BY <1>6 DEF Sends, SendSignedTransaction, SendSignedZKSyncTransaction, SendSignedTransactionSapphire
<1>10. Sends("tron", q) = {Ok(1)} /\ Sends("aptos", q) = {Ok(1)} /\ Sends("iota", q) = {Ok(1)} /\ Sends("ripple", q) = {Ok(1)}
  BY <1>6 DEF Sends, TronBroadcastTx, AptosSubmit, IotaSend, RippleSubmit
<1>11. Sends("cardano", q) = {} /\ Sends("reef", q) = {}
  BY DEF Sends
<1>12. Sends(kind, q) \subseteq {Ok(1)}
  BY <1>8, <1>9, <1>10, <1>11
<1> QED BY <1>7, <1>12 DEF q

LEMMA GatewaysInvServes == GatewaysInv => Served
<1> SUFFICES ASSUME GatewaysInv PROVE Served
  OBVIOUS
<1>1. ASSUME kind # "stellar", NEW g \in Listed \cap steady, \A h \in Listed \cup Range(grpc) : health[h] \in {"up", "down"},
             NEW i \in BOOLEAN
      PROVE  \A r \in Results(kind, Queries(i)) : \A c \in DOMAIN r \ Fragile[kind] : r[c].st = "ok"
  <2> DEFINE q == Queries(i)
  <2>1. QueryServed(q) /\ q.initing \in BOOLEAN /\ (kind = "cosmos" => GrpcServed(q))
    <3>1. QueryServed(q) /\ q.initing = i /\ (kind = "cosmos" => GrpcServed(q))
      BY <1>1, QueriesServed
    <3> QED BY <3>1
  <2>2. kind \in Kinds
    BY DEF GatewaysInv, GatewaysType
  <2> HIDE DEF q
  <2>3. \A r \in Results(kind, q) : IsOk(r, Fragile[kind])
    BY <1>1, <2>1, <2>2, CallsServed
  <2> QED BY <2>3 DEF IsOk, q
<1>2. ASSUME kind \notin {"stellar", "near", "flow", "btc", "cosmos", "solana"}, NEW g \in Range(gateway.order), health[g] = "up"
      PROVE  \A s \in Sends(kind, Queries(FALSE)) : s.st = "ok"
  BY <1>2, SendServed
<1> QED BY <1>1, <1>2 DEF Served

\* The answers to a query for a number are those that the lemma on the median is about.
LEMMA GatewaysInvMedian == GatewaysInv => HonestMedian
<1> SUFFICES ASSUME GatewaysInv PROVE HonestMedian
  OBVIOUS
<1> DEFINE order == gateway.order
           a == Ask(order, ValueOf)
<1>1. Len(order) \in Nat /\ DOMAIN order = 1..Len(order) /\ \A i \in DOMAIN order : health[order[i]] \in Health
  <2>1. order \in Seq(AllGateways)
    <3>1. Range(gateway.urls) \subseteq AllGateways
      BY ListsAre DEF GatewaysInv, GatewaysType
    <3> QED BY <3>1 DEF GatewaysInv, GatewaysType
  <2> QED BY <2>1 DEF GatewaysInv, GatewaysType
<1>2. \A h \in Health : ValueOf[h] \in {Ok(1), Ok(2), Bad, Err}
  BY DEF ValueOf, Health
<1>3. a = [i \in 1..Len(order) |-> ValueOf[health[order[i]]]]
  BY <1>1 DEF Ask
<1> HIDE DEF order
<1>4. DOMAIN a = 1..Len(order) /\ \A i \in 1..Len(order) : a[i] \in {Ok(1), Ok(2), Bad, Err}
  BY <1>1, <1>2, <1>3
<1> HIDE DEF a
<1>5. 2 * Cardinality(Lying(a)) < Cardinality(Values(a)) =>
        LET honest == {a[i].v : i \in Values(a) \ Lying(a)} IN Median(a).v \in Min(honest)..Max(honest)
  BY <1>1, <1>4, MedianIsHonest
<1> QED BY <1>5 DEF HonestMedian, Lying, a, order

\* From the types and what is known of gateways that were never down: for every number of gateways,
\* every list and every kind of chain but stellar, whatever happens to the gateways, the configuration
\* and the adjustment of the order in whatever order, a listed gateway that was never down serves every
\* call (the loops of callapi.go, bridge.go and rpcclient.go of each chain, AdjustGatewayOrder of
\* router/bridge/adjustgateway.go), and what a gateway accepts is reported as sent.
THEOREM ServedHolds == GatewaysSpec => []Served
<1> USE GatewaysStart, GatewaysInvServes
<1>1. GatewaysInv /\ [GatewaysNext]_gvars => GatewaysInv'
  BY GatewaysPreserved
<1> QED BY <1>1, PTL DEF GatewaysSpec

\* For every number of gateways: the median of getMedianGasPrice and of GetPoolNonce (tokens/eth/callapi.go)
\* is between honest answers while fewer than half of those that answer lie, whatever the order.
THEOREM HonestMedianHolds == GatewaysSpec => []HonestMedian
<1> USE GatewaysStart, GatewaysInvMedian
<1>1. GatewaysInv /\ [GatewaysNext]_gvars => GatewaysInv'
  BY GatewaysPreserved
<1> QED BY <1>1, PTL DEF GatewaysSpec
=============================================================================
