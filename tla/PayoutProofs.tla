---------------------------- MODULE PayoutProofs ----------------------------
(***************************************************************************)
(* Proofs about the payouts (Payouts): for all swaps, configurations,      *)
(* states of the chains and numbers of faults                              *)
(*   - transactions signed for a swap exclude each other,                  *)
(*   - a node agrees only to what pays the swap,                           *)
(*   - signatures that are verified are genuine and in place,              *)
(*   - no EVM transaction is signed above the limits of its fees,          *)
(*   - a node builds the transaction an honest server asks for,            *)
(*   - what a Bitcoin or Iota transaction spends pays for what it says.    *)
(* Each rests on lemmas about what the adapters build and on an invariant  *)
(* about the request that is under way.                                    *)
(***************************************************************************)
EXTENDS Payouts, FiniteSetTheorems, SequenceTheorems, WellFoundedInduction, TLAPS

-----------------------------------------------------------------------------
(* Records and sequences *)

\* The fields of AllExtras that the models carry.
ExtraFields == {"seq", "gas", "price", "tip", "cap", "fee", "block", "raw", "replaceNum"}
\* A record with those fields.
IsExtra(e) == DOMAIN e = ExtraFields

\* The extra of a request that settles nothing has those fields.
LEMMA NoExtraIsExtra == IsExtra(NoExtra)
BY DEF IsExtra, ExtraFields, NoExtra

\* The extra that doSwap and ReplaceRouterSwap start from has them too.
LEMMA StartIsExtra == IsExtra(StartExtra)
BY DEF StartExtra, IsExtra, ExtraFields, NoExtra

-----------------------------------------------------------------------------
(* The nonce of a transaction *)

\* The chains where a signed transaction is tied to a nonce of the account.
WithNonce == NonceSetters \ {"iota"}

\* What BuildRawTransaction gives when it succeeds.
BuiltFields == {"err", "extra", "tx", "mem"}

\* The transaction has the nonce of its extra, and the nonce of the request when that has one.
KeepsNonce(extra, built) ==
  /\ DOMAIN built = BuiltFields
  /\ "seq" \in DOMAIN built.tx[1]
  /\ IsExtra(built.extra)
  /\ built.tx[1].seq = built.extra.seq
  /\ built.extra.seq # Nil
  /\ extra.seq # Nil => built.extra.seq = extra.seq

\* Aptos: a sequence number is asked for only when the request has none.
LEMMA AptosNonce ==
  ASSUME NEW args, NEW isServer, NEW view, NEW extra, IsExtra(extra), NEW mem,
         AptosBuildRawTransaction(args, isServer, view, extra, mem).err = "nil"
  PROVE  KeepsNonce(extra, AptosBuildRawTransaction(args, isServer, view, extra, mem))
<1> DEFINE full == AptosSetExtraArgs(args, view, extra)
           tx == AptosBuildSwapinTransferTransaction(args, full)
<1>1. /\ AptosBuildRawTransaction(args, isServer, view, extra, mem) = Built(full, tx, mem)
      /\ full.seq # Nil
  BY DEF AptosBuildRawTransaction, Refused
<1>2. IsExtra(full) /\ (extra.seq # Nil => full.seq = extra.seq)
  BY DEF IsExtra, ExtraFields, AptosSetExtraArgs, Default
<1> HIDE DEF full
<1> QED BY <1>1, <1>2 DEF KeepsNonce, BuiltFields, Built, AptosBuildSwapinTransferTransaction

\* Cosmos: the same of initExtra.
LEMMA CosmosNonce ==
  ASSUME NEW args, NEW isServer, NEW view, NEW extra, IsExtra(extra), NEW mem,
         CosmosBuildRawTransaction(args, isServer, view, extra, mem).err = "nil"
  PROVE  KeepsNonce(extra, CosmosBuildRawTransaction(args, isServer, view, extra, mem))
<1> DEFINE full == CosmosInitExtra(args, isServer, view, extra)
           tx == [recv |-> args.bind, amount |-> SwapAmount(args),
                  charged |-> IF args.cfg.chargeFee THEN CosmosBridgeFee(args) ELSE 0,
                  fee |-> full.fee, gas |-> full.gas, seq |-> full.seq,
                  account |-> CosmosAccountNum(view, mem)]
<1>1. /\ CosmosBuildRawTransaction(args, isServer, view, extra, mem) = Built(full, tx, [mem EXCEPT !.account = CosmosAccountNum(view, mem)])
      /\ full.seq # Nil
  BY DEF CosmosBuildRawTransaction, Refused
<1>2. IsExtra(full) /\ (extra.seq # Nil => full.seq = extra.seq)
  BY DEF IsExtra, ExtraFields, CosmosInitExtra, Default
<1> HIDE DEF full
<1> QED BY <1>1, <1>2 DEF KeepsNonce, BuiltFields, Built

\* Flow: the same of initExtra.
LEMMA FlowNonce ==
  ASSUME NEW args, NEW isServer, NEW view, NEW extra, IsExtra(extra), NEW mem,
         FlowBuildRawTransaction(args, isServer, view, extra, mem).err = "nil"
  PROVE  KeepsNonce(extra, FlowBuildRawTransaction(args, isServer, view, extra, mem))
<1> DEFINE full == FlowInitExtra(view, extra)
           tx == [recv |-> args.bind, amount |-> args.value, key |-> view.account,
                  seq |-> full.seq, block |-> full.block]
<1>1. /\ FlowBuildRawTransaction(args, isServer, view, extra, mem) = Built(full, tx, mem)
      /\ full.seq # Nil
  BY DEF FlowBuildRawTransaction, Refused
<1>2. IsExtra(full) /\ (extra.seq # Nil => full.seq = extra.seq)
  BY DEF IsExtra, ExtraFields, FlowInitExtra, Default
<1> HIDE DEF full
<1> QED BY <1>1, <1>2 DEF KeepsNonce, BuiltFields, Built

\* Near: the same of initExtra.
LEMMA NearNonce ==
  ASSUME NEW args, NEW isServer, NEW view, NEW extra, IsExtra(extra), NEW mem,
         NearBuildRawTransaction(args, isServer, view, extra, mem).err = "nil"
  PROVE  KeepsNonce(extra, NearBuildRawTransaction(args, isServer, view, extra, mem))
<1> DEFINE full == NearInitExtra(view, extra)
           tx == [method |-> NearMethod(args), recv |-> args.bind, amount |-> SwapAmount(args),
                  seq |-> full.seq, gas |-> full.gas, block |-> full.block]
<1>1. /\ NearBuildRawTransaction(args, isServer, view, extra, mem) = Built(full, tx, mem)
      /\ full.seq # Nil
  BY DEF NearBuildRawTransaction, Refused
<1>2. IsExtra(full) /\ (extra.seq # Nil => full.seq = extra.seq)
  BY DEF IsExtra, ExtraFields, NearInitExtra, Default
<1> HIDE DEF full
<1> QED BY <1>1, <1>2 DEF KeepsNonce, BuiltFields, Built

\* Ripple: the same of the sequence.
LEMMA RippleNonce ==
  ASSUME NEW args, NEW isServer, NEW view, NEW extra, IsExtra(extra), NEW mem,
         RippleBuildRawTransaction(args, isServer, view, extra, mem).err = "nil"
  PROVE  KeepsNonce(extra, RippleBuildRawTransaction(args, isServer, view, extra, mem))
<1> DEFINE full == RippleSetExtraArgs(view, extra)
           tx == RippleNewUnsignedPaymentTransaction(args, SwapAmount(args), full)
<1>1. /\ RippleBuildRawTransaction(args, isServer, view, extra, mem) = Built(full, tx, mem)
      /\ full.seq # Nil
  BY DEF RippleBuildRawTransaction, Refused
<1>2. IsExtra(full) /\ (extra.seq # Nil => full.seq = extra.seq)
  BY DEF IsExtra, ExtraFields, RippleSetExtraArgs, Default
<1> HIDE DEF full
<1> QED BY <1>1, <1>2 DEF KeepsNonce, BuiltFields, Built, RippleNewUnsignedPaymentTransaction

\* The part of setDefaults that settles the fees, by the kind of transaction.
EthFees(args, isServer, view, extra, mem) ==
  IF args.cfg.dynamic THEN DynamicFees(args, isServer, view, extra, mem)
  ELSE LegacyFees(args, isServer, view, extra, mem)

\* The fees are settled before the nonce and leave it alone.
LEMMA FeesKeepNonce ==
  ASSUME NEW args, NEW isServer, NEW view, NEW extra, IsExtra(extra), NEW mem,
         EthFees(args, isServer, view, extra, mem).err = "nil"
  PROVE  /\ IsExtra(EthFees(args, isServer, view, extra, mem).extra)
         /\ EthFees(args, isServer, view, extra, mem).extra.seq = extra.seq
<1>1. CASE args.cfg.dynamic
  <2> DEFINE tip == Default(extra.tip, getGasTipCap(args, view, extra.replaceNum))
             cap == Default(extra.cap, getGasFeeCap(args, view, tip))
             done == [extra EXCEPT !.tip = tip, !.cap = cap, !.price = Nil]
  <2>1. EthFees(args, isServer, view, extra, mem) = Built(done, "fees", mem)
    BY <1>1 DEF EthFees, DynamicFees, Refused
  <2>2. IsExtra(done) /\ done.seq = extra.seq
    <3> HIDE DEF tip, cap
    <3> QED BY DEF IsExtra, ExtraFields
  <2> HIDE DEF done
  <2> QED BY <2>1, <2>2 DEF Built
<1>2. CASE ~args.cfg.dynamic
  <2> DEFINE gasPrice == EthGetGasPrice(args, isServer, view, extra.replaceNum, mem)
             priced == [extra EXCEPT !.price = gasPrice.price, !.tip = Nil, !.cap = Nil]
  <2>1. \/ EthFees(args, isServer, view, extra, mem) = Built(extra, "fees", mem)
        \/ EthFees(args, isServer, view, extra, mem)
             = Built(priced, "fees", gasPrice.mem)
    BY <1>2 DEF EthFees, LegacyFees, Refused
  <2>2. IsExtra(priced) /\ priced.seq = extra.seq
    <3> HIDE DEF gasPrice
    <3> QED BY DEF IsExtra, ExtraFields
  <2> HIDE DEF priced
  <2> QED BY <2>1, <2>2 DEF Built
<1> QED BY <1>1, <1>2

\* A build of the EVM adapter that succeeds ends in buildTx with fees and gas settled.
LEMMA EthBuilds ==
  ASSUME NEW args, NEW isServer, NEW view, NEW extra, NEW mem,
         EthBuildRawTransaction(args, isServer, view, extra, mem).err = "nil"
  PROVE  LET fees == EthFees(args, isServer, view, extra, mem)
             gas == Default(extra.gas, GasLimit(args.cfg, view.gas))
         IN /\ fees.err = "nil"
            /\ BuildInput(args).err = "nil"
            /\ EthBuildRawTransaction(args, isServer, view, extra, mem)
                 = buildTx(args, isServer, view, [fees.extra EXCEPT !.gas = gas], BuildInput(args), fees.mem)
BY DEF EthBuildRawTransaction, EthFees, Refused

\* The transaction buildTx makes of an extra and a call.
EthTx(extra, call) ==
  [to |-> Contract, method |-> call.method, recv |-> call.recv, amount |-> call.amount,
   data |-> call.data, seq |-> extra.seq, gas |-> extra.gas, price |-> extra.price,
   tip |-> extra.tip, cap |-> extra.cap]

\* What buildTx makes when it succeeds.
LEMMA BuildTxResult ==
  ASSUME NEW args, NEW isServer, NEW view, NEW extra, IsExtra(extra), NEW call, NEW mem,
         buildTx(args, isServer, view, extra, call, mem).err = "nil"
  PROVE  LET full == [extra EXCEPT !.seq = Default(extra.seq, view.seq)]
         IN /\ full.seq # Nil
            /\ buildTx(args, isServer, view, extra, call, mem)
                 = Built(full, EthTx(full, call), [mem EXCEPT !.cached = full.seq])
BY DEF buildTx, Refused, EthTx, IsExtra, ExtraFields

\* EVM: buildTx asks for a nonce only when the request has none.
LEMMA EthNonce ==
  ASSUME NEW args, NEW isServer, NEW view, NEW extra, IsExtra(extra), NEW mem,
         EthBuildRawTransaction(args, isServer, view, extra, mem).err = "nil"
  PROVE  KeepsNonce(extra, EthBuildRawTransaction(args, isServer, view, extra, mem))
<1> DEFINE fees == EthFees(args, isServer, view, extra, mem)
           gas == Default(extra.gas, GasLimit(args.cfg, view.gas))
           filled == [fees.extra EXCEPT !.gas = gas]
           full == [filled EXCEPT !.seq = Default(filled.seq, view.seq)]
<1>0. fees.err = "nil"
  BY EthBuilds
<1>1. IsExtra(fees.extra) /\ fees.extra.seq = extra.seq
  BY <1>0, FeesKeepNonce
<1>2. EthBuildRawTransaction(args, isServer, view, extra, mem)
        = buildTx(args, isServer, view, filled, BuildInput(args), fees.mem)
  BY EthBuilds
<1> HIDE DEF fees, gas
<1>3. IsExtra(filled) /\ filled.seq = extra.seq
  BY <1>1 DEF IsExtra, ExtraFields
<1> HIDE DEF filled
<1>4. /\ full.seq # Nil
      /\ EthBuildRawTransaction(args, isServer, view, extra, mem)
           = Built(full, EthTx(full, BuildInput(args)), [fees.mem EXCEPT !.cached = full.seq])
  BY <1>2, <1>3, BuildTxResult
<1>5. IsExtra(full) /\ full.seq = Default(extra.seq, view.seq)
  BY <1>3 DEF IsExtra, ExtraFields
<1> HIDE DEF full
<1> QED BY <1>4, <1>5 DEF KeepsNonce, BuiltFields, Built, EthTx, Default

\* Reef: the same of setDefaults.
LEMMA ReefNonce ==
  ASSUME NEW args, NEW isServer, NEW view, NEW extra, IsExtra(extra), NEW mem,
         ReefBuildRawTransaction(args, isServer, view, extra, mem).err = "nil"
  PROVE  KeepsNonce(extra, ReefBuildRawTransaction(args, isServer, view, extra, mem))
<1> DEFINE full == ReefSetDefaults(view, extra)
           call == BuildERC20SwapTxInput(args)
           tx == [to |-> Contract, method |-> call.method, recv |-> call.recv, amount |-> call.amount,
                  data |-> call.data, seq |-> full.seq, gas |-> full.gas, price |-> full.price,
                  block |-> full.block]
<1>1. /\ ReefBuildRawTransaction(args, isServer, view, extra, mem) = Built(full, tx, mem)
      /\ view.seq # Nil
  BY DEF ReefBuildRawTransaction, Refused, ReefHasSignInfo
<1>2. IsExtra(full) /\ full.seq = Default(extra.seq, view.seq)
  BY DEF IsExtra, ExtraFields, ReefSetDefaults, Default
<1> HIDE DEF full, call
<1> QED BY <1>1, <1>2 DEF KeepsNonce, BuiltFields, Built, Default

\* All of the adapters that have a nonce setter keep the nonce of the request.
LEMMA BuildKeepsNonce ==
  ASSUME NEW args, args.chain \in WithNonce, NEW isServer, NEW view, NEW extra, IsExtra(extra), NEW mem,
         BuildRawTransaction(args, isServer, view, extra, mem).err = "nil"
  PROVE  KeepsNonce(extra, BuildRawTransaction(args, isServer, view, extra, mem))
<1>1. CASE args.chain = "aptos"  BY <1>1, AptosNonce DEF BuildRawTransaction
<1>2. CASE args.chain = "cosmos"  BY <1>2, CosmosNonce DEF BuildRawTransaction
<1>3. CASE args.chain = "eth"  BY <1>3, EthNonce DEF BuildRawTransaction
<1>4. CASE args.chain = "flow"  BY <1>4, FlowNonce DEF BuildRawTransaction
<1>5. CASE args.chain = "near"  BY <1>5, NearNonce DEF BuildRawTransaction
<1>6. CASE args.chain = "reef"  BY <1>6, ReefNonce DEF BuildRawTransaction
<1>7. CASE args.chain = "ripple"  BY <1>7, RippleNonce DEF BuildRawTransaction
<1> QED BY <1>1, <1>2, <1>3, <1>4, <1>5, <1>6, <1>7 DEF WithNonce, NonceSetters

\* What MPCSignTransaction changes of a transaction before the request is never the nonce.
LEMMA SignKeepsNonce ==
  ASSUME NEW args, args.chain \in WithNonce, NEW view, NEW extra, NEW built, KeepsNonce(extra, built),
         MPCSignTransaction(args, view, built).err = "nil"
  PROVE  KeepsNonce(extra, MPCSignTransaction(args, view, built))
<1> DEFINE asked == MPCSignTransaction(args, view, built)
<1>1. CASE args.chain = "eth"
  <2> DEFINE gasPrice == EthGetGasPrice(args, TRUE, view, built.extra.replaceNum, built.mem)
             tx == [built.tx[1] EXCEPT !.price = gasPrice.price]
             raised == [built.extra EXCEPT !.price = gasPrice.price]
             kept == [built EXCEPT !.mem = gasPrice.mem]
  <2>1. asked = built \/ asked = Built(raised, tx, gasPrice.mem) \/ asked = kept
    BY <1>1 DEF MPCSignTransaction, EthMPCSignTransaction, Refused
  <2>2. KeepsNonce(extra, kept)
    <3> HIDE DEF gasPrice
    <3> QED BY DEF KeepsNonce, BuiltFields
  <2>3. KeepsNonce(extra, Built(raised, tx, gasPrice.mem))
    <3> HIDE DEF gasPrice
    <3>1. IsExtra(raised) /\ raised.seq = built.extra.seq
      BY DEF KeepsNonce, IsExtra, ExtraFields
    <3>2. "seq" \in DOMAIN tx /\ tx.seq = built.tx[1].seq
      BY DEF KeepsNonce
    <3> HIDE DEF raised, tx
    <3> QED BY <3>1, <3>2 DEF KeepsNonce, BuiltFields, Built
  <2> QED BY <2>1, <2>2, <2>3
<1>2. CASE args.chain # "eth"
  <2>1. asked = built
    BY <1>2 DEF MPCSignTransaction, AptosMPCSignTransaction, ReefMPCSignTransaction,
      RippleMPCSignTransaction, Refused, WithNonce, NonceSetters
  <2> QED BY <2>1
<1> QED BY <1>1, <1>2

-----------------------------------------------------------------------------
(* The invariant *)

\* The fields of the two processes.
ServerFields == {"pc", "built", "pair", "conf", "mem"}
NodeFields == {"answer", "conf", "mem"}

\* The type invariant: what the other invariants need to know of the records.
Shape ==
  /\ swap \in Swaps
  /\ world \in Worlds[swap]
  /\ DOMAIN server = ServerFields /\ server.conf \in 1 .. Len(Pairs) /\ server.pair \in 1 .. Len(Pairs)
  /\ DOMAIN node = NodeFields /\ node.conf \in 1 .. Len(Pairs)
  /\ \E T : signed \in Seq(T)

\* The arguments of a build are the swap, with the configured token pair.
LEMMA ArgsAreTheSwap ==
  ASSUME Shape, NEW conf
  PROVE  /\ DOMAIN ArgsWith(conf) = SwapFields
         /\ \A f \in SwapFields \ {"pair"} : ArgsWith(conf)[f] = swap[f]
         /\ ArgsWith(conf).pair = Pairs[conf]
BY SwapAssumption DEF Shape, ArgsWith, SwapFields

\* What is added to a sequence leaves a sequence.
LEMMA AddSignedIsSeq ==
  ASSUME Shape, NEW built, NEW result
  PROVE  \E T : AddSigned(built, result) \in Seq(T)
<1> DEFINE new == Signed(built, result.sigs)
<1>1. PICK T : signed \in Seq(T)
  BY DEF Shape
<1>2. AddSigned(built, result) \in {signed, Append(signed, new)}
  BY DEF AddSigned
<1> HIDE DEF new
<1>3. signed \in Seq(T \cup {new})
  BY <1>1
<1>4. Append(signed, new) \in Seq(T \cup {new})
  BY <1>3
<1> QED BY <1>2, <1>3, <1>4

\* The type invariant holds in all states.
LEMMA ShapeHolds == Spec => []Shape
<1>1. Init => Shape
  <2> SUFFICES ASSUME Init PROVE Shape
    OBVIOUS
  <2>1. 1 \in 1 .. Len(Pairs)
    BY SwapAssumption
  <2>2. signed \in Seq({})
    BY DEF Init
  <2> QED BY <2>1, <2>2 DEF Init, Shape, ServerFields, NodeFields
<1>2. Shape /\ [Next]_vars => Shape'
  <2> SUFFICES ASSUME Shape, [Next]_vars PROVE Shape'
    OBVIOUS
  <2>1. CASE Drift
    BY <2>1 DEF Drift, Shape
  <2>2. CASE ServerReload
    BY <2>2, SwapAssumption DEF ServerReload, Shape, ServerFields
  <2>3. CASE NodeReload
    BY <2>3, SwapAssumption DEF NodeReload, Shape, NodeFields
  <2>4. CASE ServerBuild
    <3>1. PICK b, mem : \/ server' = BackToIdle(mem)
                       \/ server' = [server EXCEPT !.pc = "built", !.built = b, !.pair = server.conf, !.mem = mem]
      BY <2>4 DEF ServerBuild
    <3> QED BY <2>4, <3>1 DEF ServerBuild, BackToIdle, Shape, ServerFields
  <2>5. CASE ServerSign
    <3>1. PICK b, mem : \/ server' = BackToIdle(mem)
                       \/ server' = [server EXCEPT !.pc = "asked", !.built = b, !.mem = mem]
      BY <2>5 DEF ServerSign
    <3>2. \E built, result : signed' = signed \/ signed' = AddSigned(built, result)
      BY <2>5 DEF ServerSign
    <3>3. \E T : signed' \in Seq(T)
      BY <3>2, AddSignedIsSeq DEF Shape
    <3> QED BY <2>5, <3>1, <3>3 DEF ServerSign, BackToIdle, Shape, ServerFields
  <2>6. CASE ServerFinish
    <3>1. \E built, result : signed' = signed \/ signed' = AddSigned(built, result)
      BY <2>6 DEF ServerFinish
    <3>2. \E T : signed' \in Seq(T)
      BY <3>1, AddSignedIsSeq DEF Shape
    <3> QED BY <2>6, <3>2 DEF ServerFinish, BackToIdle, Shape, ServerFields, NodeFields
  <2>7. CASE ServerRestart
    BY <2>7 DEF ServerRestart, Restarted, Shape, ServerFields, NodeFields
  <2>8. CASE NodeVerify
    <3>1. PICK answer, mem : node' = [node EXCEPT !.answer = answer, !.mem = mem]
      BY <2>8 DEF NodeVerify
    <3> QED BY <2>8, <3>1 DEF NodeVerify, Shape, NodeFields
  <2>9. CASE NodeRestart
    BY <2>9 DEF NodeRestart, Shape, NodeFields
  <2>10. CASE UNCHANGED vars
    BY <2>10 DEF vars, Shape
  <2> QED BY <2>1, <2>2, <2>3, <2>4, <2>5, <2>6, <2>7, <2>8, <2>9, <2>10 DEF Next
<1> QED BY <1>1, <1>2, PTL DEF Spec

-----------------------------------------------------------------------------
(* What the steps of the server do *)

\* What the server builds and asks for with the answers it gets.
ServerBuilds(view) == BuildRawTransaction(ArgsWith(server.conf), TRUE, view, StartExtra, server.mem)
ServerAsks(view) == MPCSignTransaction(ArgsWith(server.conf), view, server.built)

\* ServerBuild: a refused build is forgotten, another is kept with the configuration it was made with.
LEMMA BuildStep ==
  ASSUME Shape, ServerBuild
  PROVE  /\ UNCHANGED <<swap, world, node, signed>>
         /\ \E view \in Views :
              \/ /\ ServerBuilds(view).err # "nil"
                 /\ server'.pc = "idle" /\ server'.mem = ServerBuilds(view).mem
              \/ /\ ServerBuilds(view).err = "nil"
                 /\ server'.pc = "built" /\ server'.built = ServerBuilds(view)
                 /\ server'.pair = server.conf /\ server'.mem = ServerBuilds(view).mem
<1>1. PICK view \in Views :
        server' = IF ServerBuilds(view).err # "nil" THEN BackToIdle(ServerBuilds(view).mem)
                  ELSE [server EXCEPT !.pc = "built", !.built = ServerBuilds(view), !.pair = server.conf,
                                      !.mem = ServerBuilds(view).mem]
  BY DEF ServerBuild, ServerBuilds
<1> DEFINE built == ServerBuilds(view)
<1>2. CASE built.err # "nil"
  <2>1. server' = BackToIdle(built.mem)
    BY <1>1, <1>2
  <2> QED BY <1>2, <2>1 DEF BackToIdle, Shape, ServerFields, ServerBuild
<1>3. CASE built.err = "nil"
  <2>1. server' = [server EXCEPT !.pc = "built", !.built = built, !.pair = server.conf, !.mem = built.mem]
    BY <1>1, <1>3
  <2> QED BY <1>3, <2>1 DEF Shape, ServerFields, ServerBuild
<1> QED BY <1>2, <1>3

\* ServerSign: the request is refused, signed with the key of the server, or sent to the nodes.
LEMMA SignStep ==
  ASSUME Shape, ServerSign
  PROVE  /\ UNCHANGED <<swap, world, node>> /\ server.pc # "idle"
         /\ \E view \in Views :
              \/ /\ ServerAsks(view).err # "nil"
                 /\ server'.pc = "idle" /\ server'.mem = ServerAsks(view).mem /\ UNCHANGED signed
              \/ /\ ServerAsks(view).err = "nil"
                 /\ server'.pc = "idle" /\ server'.mem = ServerAsks(view).mem
                 /\ signed' = AddSigned(ServerAsks(view),
                                SignTransactionWithPrivateKey(swap, view, ServerAsks(view).tx[1]))
              \/ /\ ServerAsks(view).err = "nil"
                 /\ server'.pc = "asked" /\ server'.built = ServerAsks(view) /\ server'.pair = server.pair
                 /\ server'.mem = ServerAsks(view).mem /\ UNCHANGED signed
<1>1. PICK view \in Views :
        LET own == ServerAsks(view).err = "nil" /\ swap.ownKey
        IN /\ server' = IF ServerAsks(view).err # "nil" \/ own THEN BackToIdle(ServerAsks(view).mem)
                        ELSE [server EXCEPT !.pc = "asked", !.built = ServerAsks(view),
                                            !.mem = ServerAsks(view).mem]
           /\ signed' = IF own
                          THEN AddSigned(ServerAsks(view),
                                         SignTransactionWithPrivateKey(swap, view, ServerAsks(view).tx[1]))
                        ELSE signed
  BY DEF ServerSign, ServerAsks
<1> DEFINE asked == ServerAsks(view)
<1>2. CASE asked.err # "nil" \/ swap.ownKey
  <2>1. server' = BackToIdle(asked.mem)
    BY <1>1, <1>2
  <2>2. server'.pc = "idle" /\ server'.mem = asked.mem
    BY <2>1 DEF BackToIdle, Shape, ServerFields
  <2> QED BY <1>1, <1>2, <2>2 DEF ServerSign
<1>3. CASE asked.err = "nil" /\ ~swap.ownKey
  <2>1. server' = [server EXCEPT !.pc = "asked", !.built = asked, !.mem = asked.mem] /\ signed' = signed
    BY <1>1, <1>3
  <2> QED BY <1>3, <2>1 DEF Shape, ServerFields, ServerSign
<1> QED BY <1>2, <1>3

\* ServerFinish: the request ends, and the transaction may have been signed.
LEMMA FinishStep ==
  ASSUME Shape, ServerFinish
  PROVE  /\ UNCHANGED <<swap, world>> /\ server.pc # "idle"
         /\ server'.pc = "idle" /\ server'.mem = server.mem
         /\ \/ UNCHANGED signed
            \/ \E view \in Views, rsvs \in Answers \cup WrongAnswers :
                 signed' = AddSigned(server.built, Signatures(swap, view, server.built.tx[1], rsvs))
<1>1. server'.pc = "idle" /\ server'.mem = server.mem
  BY DEF ServerFinish, BackToIdle, Shape, ServerFields
<1>2. world \in Views
  BY DEF Views
<1> QED BY <1>1, <1>2 DEF ServerFinish

\* The other steps leave the request and the signed transactions alone.
LEMMA OtherSteps ==
  ASSUME Shape, ServerReload \/ Drift \/ NodeReload \/ NodeVerify \/ NodeRestart \/ UNCHANGED vars
  PROVE  /\ UNCHANGED <<swap, signed>>
         /\ server'.pc = server.pc /\ server'.built = server.built /\ server'.pair = server.pair
         /\ server'.mem = server.mem
BY DEF Drift, ServerReload, NodeReload, NodeVerify, NodeRestart, vars, Shape, ServerFields

\* A restart of the server forgets the request.
LEMMA RestartStep ==
  ASSUME Shape, ServerRestart
  PROVE  UNCHANGED <<swap, signed>> /\ server'.pc = "idle" /\ server'.mem = FreshMem
BY DEF ServerRestart, Restarted, Shape, ServerFields

-----------------------------------------------------------------------------
\* All signed transactions have the nonce stored with the first.
SignedOnce ==
  /\ signed # <<>> => signed[1].seq # Nil
  /\ \A i \in DOMAIN signed : signed[i].tx.seq = signed[1].seq

\* The inductive invariant: a request under way keeps the nonce of the swap as well.
NonceInv ==
  swap.chain \in WithNonce =>
    /\ SignedOnce
    /\ server.pc # "idle" => KeepsNonce(StartExtra, server.built)

\* A transaction that keeps the nonce of the swap may be added.
LEMMA AddSignedOnce ==
  ASSUME Shape, SignedOnce, NEW built, KeepsNonce(StartExtra, built), NEW result,
         signed' = AddSigned(built, result)
  PROVE  SignedOnce'
<1> DEFINE new == Signed(built, result.sigs)
<1>1. CASE signed' = signed
  BY <1>1 DEF SignedOnce
<1>2. CASE signed' = Append(signed, new)
  <2>1. PICK T : signed \in Seq(T)
    BY DEF Shape
  <2>2. new.seq # Nil /\ new.tx.seq = new.seq
    BY DEF Signed, KeepsNonce
  <2>3. signed # <<>> => new.seq = signed[1].seq
    BY DEF Signed, KeepsNonce, StartExtra, NoExtra, SignedOnce
  <2> HIDE DEF new
  <2>4. DOMAIN signed' = 1 .. Len(signed) + 1 /\ signed'[Len(signed) + 1] = new
    BY <1>2, <2>1
  <2>5. \A i \in DOMAIN signed : signed'[i] = signed[i]
    BY <1>2, <2>1
  <2>6. CASE signed = <<>>
    BY <2>2, <2>4, <2>6 DEF SignedOnce
  <2>7. CASE signed # <<>>
    <3>1. Len(signed) \in Nat \ {0} /\ 1 \in DOMAIN signed /\ DOMAIN signed = 1 .. Len(signed)
      BY <2>1, <2>7
    <3> QED BY <2>2, <2>3, <2>4, <2>5, <2>7, <3>1 DEF SignedOnce
  <2> QED BY <2>6, <2>7
<1> QED BY <1>1, <1>2 DEF AddSigned

\* For all chains with a nonce, configurations and states of the chain: at most one of the
\* transactions signed for a swap can be mined, because ReplaceRouterSwap reuses the nonce of the
\* swap (worker/replace.go) and no adapter asks for another.
THEOREM OneCanBeMinedHolds == Spec => []OneCanBeMined
<1>1. Init => NonceInv
  BY DEF Init, NonceInv, SignedOnce
<1>2. Shape /\ NonceInv /\ [Next]_vars => NonceInv'
  <2> SUFFICES ASSUME Shape, NonceInv, [Next]_vars, swap'.chain \in WithNonce
               PROVE  /\ SignedOnce'
                      /\ server'.pc # "idle" => KeepsNonce(StartExtra', server'.built)
    BY DEF NonceInv
  <2>1. UNCHANGED signed => StartExtra' = StartExtra /\ (SignedOnce => SignedOnce')
    BY DEF StartExtra, SignedOnce
  <2>2. \A conf : ArgsWith(conf).chain = swap.chain
    BY ArgsAreTheSwap DEF SwapFields
  <2>3. CASE ServerBuild
    <3>1. ASSUME NEW view, ServerBuilds(view).err = "nil" PROVE KeepsNonce(StartExtra, ServerBuilds(view))
      BY <2>2, <2>3, <3>1, BuildStep, BuildKeepsNonce, StartIsExtra DEF ServerBuilds
    <3> QED BY <2>1, <2>3, <3>1, BuildStep DEF NonceInv
  <2>4. CASE ServerSign
    <3>1. swap.chain \in WithNonce /\ KeepsNonce(StartExtra, server.built)
      BY <2>4, SignStep DEF NonceInv
    <3>2. ASSUME NEW view, ServerAsks(view).err = "nil" PROVE KeepsNonce(StartExtra, ServerAsks(view))
      BY <2>2, <3>1, <3>2, SignKeepsNonce DEF ServerAsks
    <3> QED BY <2>1, <2>4, <3>1, <3>2, SignStep, AddSignedOnce DEF NonceInv
  <2>5. CASE ServerFinish
    BY <2>1, <2>5, FinishStep, AddSignedOnce DEF NonceInv
  <2>6. CASE ServerRestart
    BY <2>1, <2>6, RestartStep DEF NonceInv
  <2>7. CASE Drift \/ ServerReload \/ NodeReload \/ NodeVerify \/ NodeRestart \/ UNCHANGED vars
    BY <2>1, <2>7, OtherSteps DEF NonceInv
  <2> QED BY <2>3, <2>4, <2>5, <2>6, <2>7 DEF Next
<1>3. NonceInv => OneCanBeMined
  BY DEF NonceInv, SignedOnce, OneCanBeMined, WithNonce
<1> QED BY <1>1, <1>2, <1>3, ShapeHolds, PTL DEF Spec

-----------------------------------------------------------------------------
(* What a node agrees to *)

\* The transaction pays the value of the swap to its receiver.
Pays(args, built) == built.tx[1].recv = args.bind /\ built.tx[1].amount = SwapAmount(args)

\* The call of an ERC20 or mixpool swap pays the receiver the value of the swap.
LEMMA InputPays ==
  ASSUME NEW args, args.type \in {"erc20", "mixpool"}, BuildInput(args).err = "nil"
  PROVE  BuildInput(args).recv = args.bind /\ BuildInput(args).amount = SwapAmount(args)
BY DEF BuildInput, BuildERC20SwapTxInput, NoCall, Call

\* The same of BuildERC20SwapTxInput, which Reef calls directly.
LEMMA ERC20InputPays ==
  ASSUME NEW args, BuildERC20SwapTxInput(args).err = "nil"
  PROVE  BuildERC20SwapTxInput(args).recv = args.bind /\ BuildERC20SwapTxInput(args).amount = SwapAmount(args)
BY DEF BuildERC20SwapTxInput, NoCall, Call

\* What the Aptos adapter builds pays the swap.
LEMMA AptosPays ==
  ASSUME NEW args, args.type \in {"erc20", "mixpool"}, NEW isServer, NEW view, NEW extra, NEW mem,
         AptosBuildRawTransaction(args, isServer, view, extra, mem).err = "nil"
  PROVE  Pays(args, AptosBuildRawTransaction(args, isServer, view, extra, mem))
BY DEF AptosBuildRawTransaction, AptosBuildSwapinTransferTransaction, Refused, Built, Pays

\* The same of Cosmos.
LEMMA CosmosPays ==
  ASSUME NEW args, args.type \in {"erc20", "mixpool"}, NEW isServer, NEW view, NEW extra, NEW mem,
         CosmosBuildRawTransaction(args, isServer, view, extra, mem).err = "nil"
  PROVE  Pays(args, CosmosBuildRawTransaction(args, isServer, view, extra, mem))
BY DEF CosmosBuildRawTransaction, Refused, Built, Pays

\* The same of Near.
LEMMA NearPays ==
  ASSUME NEW args, args.type \in {"erc20", "mixpool"}, NEW isServer, NEW view, NEW extra, NEW mem,
         NearBuildRawTransaction(args, isServer, view, extra, mem).err = "nil"
  PROVE  Pays(args, NearBuildRawTransaction(args, isServer, view, extra, mem))
BY DEF NearBuildRawTransaction, Refused, Built, Pays

\* The same of Ripple.
LEMMA RipplePays ==
  ASSUME NEW args, args.type \in {"erc20", "mixpool"}, NEW isServer, NEW view, NEW extra, NEW mem,
         RippleBuildRawTransaction(args, isServer, view, extra, mem).err = "nil"
  PROVE  Pays(args, RippleBuildRawTransaction(args, isServer, view, extra, mem))
BY DEF RippleBuildRawTransaction, RippleNewUnsignedPaymentTransaction, Refused, Built, Pays

\* The same of Solana.
LEMMA SolanaPays ==
  ASSUME NEW args, args.type \in {"erc20", "mixpool"}, NEW isServer, NEW view, NEW extra, NEW mem,
         SolanaBuildRawTransaction(args, isServer, view, extra, mem).err = "nil"
  PROVE  Pays(args, SolanaBuildRawTransaction(args, isServer, view, extra, mem))
BY DEF SolanaBuildRawTransaction, Refused, Built, Pays

\* The same of Reef.
LEMMA ReefPays ==
  ASSUME NEW args, args.type \in {"erc20", "mixpool"}, NEW isServer, NEW view, NEW extra, NEW mem,
         ReefBuildRawTransaction(args, isServer, view, extra, mem).err = "nil"
  PROVE  Pays(args, ReefBuildRawTransaction(args, isServer, view, extra, mem))
BY ERC20InputPays DEF ReefBuildRawTransaction, Refused, Built, Pays

\* The same of Tron.
LEMMA TronPays ==
  ASSUME NEW args, args.type \in {"erc20", "mixpool"}, NEW isServer, NEW view, NEW extra, NEW mem,
         TronBuildRawTransaction(args, isServer, view, extra, mem).err = "nil"
  PROVE  Pays(args, TronBuildRawTransaction(args, isServer, view, extra, mem))
BY InputPays DEF TronBuildRawTransaction, TriggerTx, verifyRawTransaction, Refused, Built, Pays

\* The same of EVM chains, through BuildInput.
LEMMA EthPays ==
  ASSUME NEW args, args.type \in {"erc20", "mixpool"}, NEW isServer, NEW view, NEW extra, NEW mem,
         EthBuildRawTransaction(args, isServer, view, extra, mem).err = "nil"
  PROVE  Pays(args, EthBuildRawTransaction(args, isServer, view, extra, mem))
<1> DEFINE fees == EthFees(args, isServer, view, extra, mem)
           gas == Default(extra.gas, GasLimit(args.cfg, view.gas))
           e == [fees.extra EXCEPT !.gas = gas]
           m == fees.mem
<1>1. BuildInput(args).err = "nil"
  BY EthBuilds
<1>2. EthBuildRawTransaction(args, isServer, view, extra, mem)
        = buildTx(args, isServer, view, e, BuildInput(args), m)
  BY EthBuilds
<1> HIDE DEF e, m
<1>3. buildTx(args, isServer, view, e, BuildInput(args), m).err = "nil"
  BY <1>2
<1>4. /\ buildTx(args, isServer, view, e, BuildInput(args), m).tx[1].recv = BuildInput(args).recv
      /\ buildTx(args, isServer, view, e, BuildInput(args), m).tx[1].amount = BuildInput(args).amount
  BY <1>3 DEF buildTx, Refused, Built
<1> QED BY <1>1, <1>2, <1>4, InputPays DEF Pays

\* A value that fits is not changed by the conversions to 64 bits.
LEMMA Fits ==
  ASSUME NEW x \in 0 .. MaxInt64
  PROVE  Uint64(x) = x /\ Int64(x) = x
<1>1. x % (MaxUint64 + 1) = x
  BY PayoutAssumption DEF MaxUint64
<1> QED BY <1>1, PayoutAssumption DEF Uint64, Int64

\* Iota converts the value to 64 bits first.
LEMMA IotaPays ==
  ASSUME NEW args, SwapAmount(args) \in 0 .. MaxInt64, NEW isServer, NEW view, NEW extra, NEW mem,
         IotaBuildRawTransaction(args, isServer, view, extra, mem).err = "nil"
  PROVE  Pays(args, IotaBuildRawTransaction(args, isServer, view, extra, mem))
BY Fits DEF IotaBuildRawTransaction, IotaBuildMessage, Refused, Built, Pays

\* A transaction of Bitcoin says whom it pays, and how much.
LEMMA BtcTxFields ==
  ASSUME NEW args, NEW isServer, NEW view, NEW extra, NEW mem,
         BtcBuildRawTransaction(args, isServer, view, extra, mem).err = "nil"
  PROVE  {"recv", "amount"} \subseteq DOMAIN BtcBuildRawTransaction(args, isServer, view, extra, mem).tx[1]
BY DEF BtcBuildRawTransaction, BtcNewUnsignedTransaction, Refused, Built

\* Bitcoin converts the value to 64 bits first.
LEMMA BtcPays ==
  ASSUME NEW args, SwapAmount(args) \in 1 .. MaxInt64, NEW isServer, NEW view, NEW extra, NEW mem,
         BtcBuildRawTransaction(args, isServer, view, extra, mem).err = "nil"
  PROVE  Pays(args, BtcBuildRawTransaction(args, isServer, view, extra, mem))
<1> DEFINE amount == SwapAmount(args)
           rate == BtcGetRelayFeePerKb(view.price)
           tx == BtcNewUnsignedTransaction(args, rate, BtcSpendable(view), amount)
<1>1. MaxOf(Int64(amount), 0) = amount
  BY Fits, PayoutAssumption DEF MaxOf
<1>2. BtcBuildRawTransaction(args, isServer, view, extra, mem) = Built(extra, tx, mem)
  BY <1>1 DEF BtcBuildRawTransaction, Refused
<1>3. tx.recv = args.bind /\ tx.amount = amount
  BY PayoutAssumption DEF BtcNewUnsignedTransaction, BtcGetTxOutputs
<1> HIDE DEF tx
<1> QED BY <1>2, <1>3 DEF Built, Pays

\* The values of the swaps to Bitcoin and Iota fit a signed integer of 64 bits, as all the
\* coins of these chains do.  (Int64 and Uint64 drop what does not fit.)
ValuesFit ==
  \A s \in Swaps, conf \in 1 .. Len(Pairs) :
    s.chain \in {"btc", "iota"} => CalcSwapValue(Pairs[conf], s.value, s.whitelisted) \in 0 .. MaxInt64

\* All of the adapters but Flow and Stellar pay the swap.
LEMMA BuildPays ==
  ASSUME Shape, ValuesFit, NEW conf \in 1 .. Len(Pairs), NEW isServer, NEW view, NEW extra, NEW mem,
         swap.type \in {"erc20", "mixpool"}, swap.chain \notin {"flow", "stellar"},
         SwapAmount(ArgsWith(conf)) > 0,
         BuildRawTransaction(ArgsWith(conf), isServer, view, extra, mem).err = "nil"
  PROVE  Pays(ArgsWith(conf), BuildRawTransaction(ArgsWith(conf), isServer, view, extra, mem))
<1> DEFINE args == ArgsWith(conf)
<1>1. args.chain = swap.chain /\ args.type = swap.type
  BY ArgsAreTheSwap DEF SwapFields
<1>2. args.value = swap.value /\ args.whitelisted = swap.whitelisted /\ args.pair = Pairs[conf]
  BY ArgsAreTheSwap DEF SwapFields
<1>3. swap.chain \in {"btc", "iota"} => SwapAmount(args) \in 1 .. MaxInt64
  BY <1>2 DEF ValuesFit, Shape, SwapAmount
<1> HIDE DEF args
<1>4. /\ swap.type \in {"erc20", "mixpool"} /\ swap.chain \notin {"flow", "stellar"}
      /\ BuildRawTransaction(args, isServer, view, extra, mem).err = "nil"
  BY DEF args
<1> SUFFICES Pays(args, BuildRawTransaction(args, isServer, view, extra, mem))
  BY DEF args
<1>5. CASE args.chain = "aptos"  BY <1>1, <1>4, <1>5, AptosPays DEF BuildRawTransaction
<1>6. CASE args.chain = "btc"  BY <1>1, <1>3, <1>4, <1>6, BtcPays DEF BuildRawTransaction
<1>7. CASE args.chain = "cosmos"  BY <1>1, <1>4, <1>7, CosmosPays DEF BuildRawTransaction
<1>8. CASE args.chain = "iota"
  BY <1>1, <1>3, <1>4, <1>8, IotaPays, PayoutAssumption DEF BuildRawTransaction
<1>9. CASE args.chain = "near"  BY <1>1, <1>4, <1>9, NearPays DEF BuildRawTransaction
<1>10. CASE args.chain = "reef"  BY <1>1, <1>4, <1>10, ReefPays DEF BuildRawTransaction
<1>11. CASE args.chain = "ripple"  BY <1>1, <1>4, <1>11, RipplePays DEF BuildRawTransaction
<1>12. CASE args.chain = "solana"  BY <1>1, <1>4, <1>12, SolanaPays DEF BuildRawTransaction
<1>13. CASE args.chain = "tron"  BY <1>1, <1>4, <1>13, TronPays DEF BuildRawTransaction
<1>14. CASE args.chain \notin {"aptos", "btc", "cosmos", "iota", "near", "reef", "ripple", "solana", "tron"}
  BY <1>1, <1>4, <1>14, EthPays DEF BuildRawTransaction
<1> QED BY <1>5, <1>6, <1>7, <1>8, <1>9, <1>10, <1>11, <1>12, <1>13, <1>14

\* A transaction that passes VerifyMsgHash pays the same to the same as the one built again.
LEMMA SameTxPays ==
  ASSUME NEW tx, NEW hash, VerifyMsgHash(tx, hash),
         swap.chain = "btc" => {"recv", "amount"} \subseteq DOMAIN tx
  PROVE  hash.recv = tx.recv /\ hash.amount = tx.amount
<1>1. CASE tx = hash
  BY <1>1
<1>2. CASE swap.chain = "btc" /\ [tx EXCEPT !.rate = 0] = [hash EXCEPT !.rate = 0]
  <2>1. DOMAIN tx = DOMAIN hash
    <3>1. DOMAIN [tx EXCEPT !.rate = 0] = DOMAIN tx /\ DOMAIN [hash EXCEPT !.rate = 0] = DOMAIN hash
      OBVIOUS
    <3> QED BY <1>2, <3>1
  <2>2. \A f \in {"recv", "amount"} : [tx EXCEPT !.rate = 0][f] = tx[f] /\ [hash EXCEPT !.rate = 0][f] = hash[f]
    BY <1>2, <2>1
  <2> QED BY <1>2, <2>2
<1> QED
  BY <1>1, <1>2 DEF VerifyMsgHash, AptosVerifyMsgHash, BtcVerifyMsgHash, CosmosVerifyMsgHash,
    FlowVerifyMsgHash, IotaVerifyMsgHash, NearVerifyMsgHash, ReefVerifyMsgHash, RippleVerifyMsgHash,
    SolanaVerifyMsgHash, StellarVerifyMsgHash, TronVerifyMsgHash, EthVerifyMsgHash

\* What a node builds from the request with the answers it gets.
NodeBuilds(view) == BuildRawTransaction(ArgsWith(node.conf), FALSE, view, server.built.extra, node.mem)

\* A node that had not answered and now has, has verified the request.
LEMMA VerifyStep ==
  ASSUME Shape, [Next]_vars, node.answer = "none", node'.answer # "none"
  PROVE  /\ NodeVerify
         /\ \E view \in Views : node'.answer = NodeAnswer(NodeBuilds(view))
<1>1. NodeVerify
  <2>1. ASSUME NodeReload \/ ServerRestart \/ ServerFinish \/ NodeRestart PROVE FALSE
    BY <2>1 DEF NodeReload, ServerRestart, ServerFinish, NodeRestart, Shape, NodeFields
  <2>2. ASSUME UNCHANGED node PROVE FALSE
    BY <2>2
  <2> QED BY <2>1, <2>2 DEF Next, Drift, ServerReload, ServerBuild, ServerSign, vars
<1>2. PICK view \in Views : node' = [node EXCEPT !.answer = NodeAnswer(NodeBuilds(view)), !.mem = NodeBuilds(view).mem]
  BY <1>1 DEF NodeVerify, NodeBuilds
<1> DEFINE rebuilt == NodeBuilds(view)
           answer == NodeAnswer(rebuilt)
<1>3. node' = [node EXCEPT !.answer = answer, !.mem = rebuilt.mem]
  BY <1>2
<1>4. node'.answer = answer
  <2> HIDE DEF answer, rebuilt
  <2> QED BY <1>3 DEF Shape, NodeFields
<1> QED BY <1>1, <1>4

\* For all swaps of values that fit: whatever the server asked for, a node agrees only to pay the
\* receiver the value under its own configuration, more than nothing (rebuildAndVerifyMsgHash).
THEOREM AgreedPaysTheSwapHolds == ASSUME ValuesFit PROVE Spec => AgreedPaysTheSwap
<1> DEFINE Step ==
      /\ node.answer = "none" /\ node'.answer = "agree"
      /\ swap.type \in {"erc20", "mixpool"} /\ swap.chain \notin {"flow", "stellar"}
      => PaysTheSwap(server.built.tx[1], ArgsWith(node.conf))
<1>1. Shape /\ [Next]_vars => [Step]_vars
  <2> SUFFICES ASSUME Shape, [Next]_vars, node.answer = "none", node'.answer = "agree",
                      swap.type \in {"erc20", "mixpool"}, swap.chain \notin {"flow", "stellar"}
               PROVE  PaysTheSwap(server.built.tx[1], ArgsWith(node.conf))
    OBVIOUS
  <2> DEFINE args == ArgsWith(node.conf)
  <2>1. PICK view \in Views : NodeAnswer(NodeBuilds(view)) = "agree"
    BY VerifyStep
  <2>0. PICK no : no = FALSE
    OBVIOUS
  <2> DEFINE rebuilt == BuildRawTransaction(args, no, view, server.built.extra, node.mem)
  <2>2. /\ rebuilt.err = "nil"
        /\ CheckTokenSwapValue(Pairs[node.conf], swap.value, swap.whitelisted)
        /\ VerifyMsgHash(rebuilt.tx[1], server.built.tx[1])
    BY <2>0, <2>1 DEF NodeAnswer, NodeBuilds
  <2>3. SwapAmount(args) > 0
    <3>1. args.value = swap.value /\ args.whitelisted = swap.whitelisted /\ args.pair = Pairs[node.conf]
      BY ArgsAreTheSwap DEF SwapFields
    <3> QED BY <2>2, <3>1 DEF SwapAmount, CheckTokenSwapValue
  <2>4. node.conf \in 1 .. Len(Pairs)
    BY DEF Shape
  <2>5. Pays(args, rebuilt)
    BY <2>2, <2>3, <2>4, BuildPays
  <2>6. swap.chain = "btc" => {"recv", "amount"} \subseteq DOMAIN rebuilt.tx[1]
    <3> SUFFICES ASSUME swap.chain = "btc" PROVE {"recv", "amount"} \subseteq DOMAIN rebuilt.tx[1]
      OBVIOUS
    <3>1. args.chain = "btc"
      BY ArgsAreTheSwap DEF SwapFields
    <3>2. rebuilt = BtcBuildRawTransaction(args, no, view, server.built.extra, node.mem)
      BY <3>1 DEF BuildRawTransaction
    <3> HIDE DEF rebuilt, args
    <3> QED BY <2>2, <3>2, BtcTxFields
  <2> HIDE DEF rebuilt
  <2> QED BY <2>2, <2>3, <2>5, <2>6, SameTxPays DEF Pays, PaysTheSwap
<1>2. Spec => [][Step]_vars
  BY <1>1, ShapeHolds, PTL DEF Spec
<1> QED BY <1>2 DEF AgreedPaysTheSwap

-----------------------------------------------------------------------------
(* Signatures *)

\* A set of natural numbers has a least element, which is its Min.
LEMMA LeastNatural ==
  ASSUME NEW S, S \subseteq Nat, S # {}
  PROVE  Min(S) \in S /\ \A y \in S : Min(S) <= y
<1>1. PICK x \in S : \A y \in S : ~(<<y, x>> \in OpToRel(<, Nat))
  BY WFMin, NatLessThanWellFounded
<1>2. \A y \in S : ~(y < x)
  BY <1>1 DEF OpToRel
<1>3. \E z \in S : \A y \in S : z <= y
  BY <1>2
<1> QED BY <1>3, Zenon DEF Min

\* A transaction of Bitcoin spends outputs.
SpendsOutputs(tx) == Len(tx.inputs) \in Nat \ {0}

\* A build of Bitcoin that succeeds spends some output.
LEMMA BtcSpends ==
  ASSUME NEW args, NEW isServer, NEW view, NEW extra, NEW mem,
         BtcBuildRawTransaction(args, isServer, view, extra, mem).err = "nil"
  PROVE  SpendsOutputs(BtcBuildRawTransaction(args, isServer, view, extra, mem).tx[1])
<1> DEFINE amount == MaxOf(Int64(SwapAmount(args)), 0)
           rate == BtcGetRelayFeePerKb(view.price)
           outs == BtcSpendable(view)
           enough == {k \in 1 .. Len(outs) : BtcEnough(rate, outs, k, amount)}
           inputs == SubSeq(outs, 1, Min(enough))
           tx == BtcNewUnsignedTransaction(args, rate, outs, amount)
<1>1. /\ BtcBuildRawTransaction(args, isServer, view, extra, mem) = Built(extra, tx, mem)
      /\ enough # {}
  BY DEF BtcBuildRawTransaction, Refused
<1>2. Min(enough) \in Nat \ {0}
  BY <1>1, LeastNatural
<1>3. tx.inputs = inputs
  BY DEF BtcNewUnsignedTransaction
<1>4. Len(inputs) \in Nat \ {0}
  <2> HIDE DEF outs, enough
  <2>1. DOMAIN inputs = 1 .. Min(enough)
    BY <1>2
  <2> QED BY <1>2, <2>1
<1> HIDE DEF tx, inputs
<1> QED BY <1>1, <1>3, <1>4 DEF Built, SpendsOutputs

\* Signatures as records.
SigSet == [of : Nat, size : Nat, v : BOOLEAN]

\* Right or wrong, the nodes answer with a sequence of signatures.
LEMMA AnswersAreSignatures ==
  ASSUME Messages(server.built.tx[1]) \in Nat \ {0}, NEW rsvs \in Answers \cup WrongAnswers
  PROVE  rsvs \in Seq(SigSet)
<1> DEFINE n == Messages(server.built.tx[1])
<1>0. ECKey \in BOOLEAN /\ \A ec \in BOOLEAN, of \in Nat : Genuine(of, ec) \in SigSet
  BY DEF ECKey, Genuine, Sig, ECSize, EDSize, SigSet
<1>1. ASSUME NEW answer \in Answers
      PROVE  answer \in [1 .. n -> SigSet]
  <2>1. PICK order \in SetToSeqs(1 .. n) : answer = [i \in DOMAIN order |-> Genuine(order[i], ECKey)]
    BY <1>1 DEF Answers
  <2>2. Cardinality(1 .. n) = n
    BY FS_Interval
  <2>3. order \in [1 .. n -> 1 .. n]
    BY <2>2 DEF SetToSeqs
  <2> QED BY <1>0, <2>1, <2>3
<1>2. ASSUME NEW answer \in [1 .. n -> SigSet] PROVE answer \in Seq(SigSet) /\ Len(answer) = n
  BY <1>2
<1>3. CASE rsvs \in Answers
  BY <1>1, <1>2, <1>3
<1>4. CASE rsvs \in WrongAnswers
  <2>1. PICK answer \in Answers : rsvs = Tail(answer) \/ \E wrong \in SigSet : rsvs = [answer EXCEPT ![1] = wrong]
    <3>1. WrongSigs \subseteq SigSet
      BY DEF WrongSigs, Sig, ECSize, EDSize, SigSet
    <3>2. PICK answer \in Answers : rsvs \in OneWrong(answer)
      BY <1>4 DEF WrongAnswers
    <3> QED BY <3>1, <3>2 DEF OneWrong
  <2>2. answer \in [1 .. n -> SigSet] /\ answer \in Seq(SigSet) /\ Len(answer) = n
    BY <1>1, <1>2
  <2>3. CASE rsvs = Tail(answer)
    BY <2>2, <2>3
  <2>4. CASE \E wrong \in SigSet : rsvs = [answer EXCEPT ![1] = wrong]
    <3>1. rsvs \in [1 .. n -> SigSet]
      BY <2>2, <2>4
    <3> QED BY <1>2, <3>1
  <2> QED BY <2>1, <2>3, <2>4
<1> QED BY <1>3, <1>4

\* Each message has its signature, in its place.
InPlace(tx, sigs) == Len(sigs) = Messages(tx) /\ \A k \in DOMAIN sigs : sigs[k].of = k

\* The adapters that verify one signature accept the signature of the message only.
LEMMA OneIsInPlace ==
  ASSUME NEW ec \in BOOLEAN, NEW rsvs \in Seq(SigSet), OneVerified(ec, rsvs).err = "nil"
  PROVE  LET sigs == OneVerified(ec, rsvs).sigs IN Len(sigs) = 1 /\ \A k \in DOMAIN sigs : sigs[k].of = k
<1>1. Len(rsvs) = 1 /\ rsvs[1].of = 1 /\ OneVerified(ec, rsvs) = SignedWith(rsvs)
  BY DEF OneVerified, DoSignOne, DoSign, Unsigned, SignedWith
<1> QED BY <1>1 DEF SignedWith

\* Bitcoin finds the signature of each of several inputs, whatever order they come in.
LEMMA BtcInPlace ==
  ASSUME NEW tx, SpendsOutputs(tx), Len(tx.inputs) > 1, NEW rsvs \in Seq(SigSet),
         BtcSignatures(tx, rsvs).err = "nil"
  PROVE  LET sigs == BtcSignatures(tx, rsvs).sigs
         IN Len(sigs) = Len(tx.inputs) /\ \A k \in DOMAIN sigs : sigs[k].of = k
<1> DEFINE n == Len(tx.inputs)
           matching(i) == {k \in DOMAIN rsvs : Recovers(rsvs[k], i)}
           ordered == [i \in 1 .. n |-> rsvs[Min(matching(i))]]
<1>1. BtcSignatures(tx, rsvs) = BtcAdjustRsvOrders(rsvs, n) /\ Len(rsvs) = n
  BY DEF BtcSignatures, Unsigned
<1>2. /\ \A i \in 1 .. n : matching(i) # {}
      /\ BtcAdjustRsvOrders(rsvs, n) = SignedWith(ordered)
  <2>1. ~(Len(rsvs) <= 1)
    BY <1>1 DEF SpendsOutputs
  <2>2. BtcAdjustRsvOrders(rsvs, n)
          = IF \E i \in 1 .. n : matching(i) = {} THEN Unsigned("msgHash has no matched rsv")
            ELSE SignedWith(ordered)
    BY <2>1, Zenon DEF BtcAdjustRsvOrders
  <2>3. Unsigned("msgHash has no matched rsv").err # "nil"
    BY DEF Unsigned
  <2>4. ~\E i \in 1 .. n : matching(i) = {}
    <3> HIDE DEF ordered
    <3> QED BY <1>1, <2>2, <2>3
  <2> QED BY <2>2, <2>4, Zenon
<1>3. ASSUME NEW i \in 1 .. n PROVE rsvs[Min(matching(i))].of = i
  <2>1. matching(i) \subseteq Nat
    OBVIOUS
  <2>2. Min(matching(i)) \in matching(i)
    BY <1>2, <2>1, LeastNatural
  <2> QED BY <2>2 DEF Recovers
<1>4. DOMAIN ordered = 1 .. n /\ Len(ordered) = n /\ \A i \in 1 .. n : ordered[i].of = i
  BY <1>3 DEF SpendsOutputs
<1> HIDE DEF ordered
<1> QED BY <1>1, <1>2, <1>4 DEF SignedWith

\* EVM: the sender that is recovered must be the account, which only its signature gives.
LEMMA EthInPlace ==
  ASSUME NEW args, ~args.cfg.zkSync, NEW rsvs \in Seq(SigSet), EthSignatures(args, rsvs).err = "nil"
  PROVE  LET sigs == EthSignatures(args, rsvs).sigs
         IN Len(sigs) = 1 /\ \A k \in DOMAIN sigs : sigs[k].of = k
<1>1. OneOfSize(TRUE, rsvs).err = "nil"
  BY DEF EthSignatures
<1>2. Len(rsvs) = 1
  BY <1>1 DEF OneOfSize, DoSignOne, DoSign, Unsigned, SignedWith
<1>3. EthSignatures(args, rsvs) = signTxWithSignature(rsvs[1])
  BY <1>1 DEF EthSignatures
<1> DEFINE sig == [rsvs[1] EXCEPT !.v = TRUE]
<1>4. rsvs[1].of = 1 /\ EthSignatures(args, rsvs) = SignedWith(<<sig>>)
  <2>1. signTxWithSignature(rsvs[1]) = IF rsvs[1].of = 1 THEN SignedWith(<<sig>>) ELSE Unsigned("wrong sender address")
    BY Zenon DEF signTxWithSignature
  <2>2. Unsigned("wrong sender address").err # "nil"
    BY DEF Unsigned
  <2>3. signTxWithSignature(rsvs[1]).err = "nil"
    BY <1>3
  <2>4. rsvs[1].of = 1
    BY <2>1, <2>2, <2>3
  <2> QED BY <1>3, <2>1, <2>4
<1>5. rsvs[1] \in SigSet
  BY <1>2
<1>6. sig.of = 1
  BY <1>4, <1>5 DEF SigSet
<1> HIDE DEF sig
<1> QED BY <1>4, <1>6 DEF SignedWith

\* The inductive invariant: a request of Bitcoin under way spends some output.
AccountInv ==
  /\ SignedByTheAccount
  /\ swap.chain = "btc" /\ server.pc # "idle" => SpendsOutputs(server.built.tx[1])

\* So the signatures of the nodes are in place where they are verified.
LEMMA NodesSignInPlace ==
  ASSUME NEW view, NEW tx, swap.chain = "btc" => SpendsOutputs(tx), Verified(tx),
         NEW rsvs \in Seq(SigSet), Signatures(swap, view, tx, rsvs).err = "nil"
  PROVE  InPlace(tx, Signatures(swap, view, tx, rsvs).sigs)
<1> DEFINE result == Signatures(swap, view, tx, rsvs)
<1>1. CASE swap.chain \in {"cosmos", "ripple", "stellar"}
  <2>1. PICK ec \in BOOLEAN : result = OneVerified(ec, rsvs)
    BY <1>1 DEF Signatures, CosmosSignatures, RippleSignatures, StellarSignatures
  <2>2. OneVerified(ec, rsvs).err = "nil"
    BY <2>1
  <2>3. Len(OneVerified(ec, rsvs).sigs) = 1 /\ \A k \in DOMAIN OneVerified(ec, rsvs).sigs : OneVerified(ec, rsvs).sigs[k].of = k
    BY <2>2, OneIsInPlace
  <2>4. Messages(tx) = 1
    BY <1>1 DEF Messages
  <2> QED BY <2>1, <2>3, <2>4 DEF InPlace
<1>2. CASE swap.chain = "eth" /\ ~swap.cfg.zkSync
  <2>1. result = EthSignatures(swap, rsvs) /\ Messages(tx) = 1
    BY <1>2 DEF Signatures, Messages
  <2>2. EthSignatures(swap, rsvs).err = "nil"
    BY <2>1
  <2> QED BY <1>2, <2>1, <2>2, EthInPlace DEF InPlace
<1>3. CASE swap.chain = "btc" /\ Len(tx.inputs) > 1
  <2>1. result = BtcSignatures(tx, rsvs) /\ Messages(tx) = Len(tx.inputs)
    BY <1>3 DEF Signatures, Messages
  <2>2. BtcSignatures(tx, rsvs).err = "nil"
    BY <2>1
  <2> QED BY <1>3, <2>1, <2>2, BtcInPlace DEF InPlace
<1> QED BY <1>1, <1>2, <1>3 DEF Verified

\* A server with a key of its own signs message by message.
LEMMA OwnKeySignsInPlace ==
  ASSUME NEW view, NEW tx, swap.chain = "btc" => SpendsOutputs(tx), Verified(tx),
         SignTransactionWithPrivateKey(swap, view, tx).err = "nil"
  PROVE  InPlace(tx, SignTransactionWithPrivateKey(swap, view, tx).sigs)
<1>1. SignTransactionWithPrivateKey(swap, view, tx) = SignedWith(InOrder(tx))
  BY DEF Verified, SignTransactionWithPrivateKey, EthSignWithPrivateKey, Unsigned
<1>2. Messages(tx) \in Nat
  BY DEF Messages, SpendsOutputs
<1>3. DOMAIN InOrder(tx) = 1 .. Messages(tx) /\ \A k \in 1 .. Messages(tx) : InOrder(tx)[k].of = k
  BY DEF InOrder, Genuine, Sig
<1>4. Len(InOrder(tx)) = Messages(tx)
  BY <1>2 DEF InOrder
<1> QED BY <1>1, <1>3, <1>4 DEF InPlace, SignedWith

\* A transaction signed in place may be added.
LEMMA AddSignedInPlace ==
  ASSUME Shape, SignedByTheAccount, NEW built, NEW result, UNCHANGED swap,
         result.err = "nil" /\ Verified(built.tx[1]) => InPlace(built.tx[1], result.sigs),
         signed' = AddSigned(built, result)
  PROVE  SignedByTheAccount'
<1> DEFINE new == Signed(built, result.sigs)
           Good(s) == Verified(s.tx) => InPlace(s.tx, s.sigs)
<1>1. SignedByTheAccount <=> \A i \in DOMAIN signed : Good(signed[i])
  BY DEF SignedByTheAccount, InPlace
<1>2. \A tx : Verified(tx)' = Verified(tx) /\ Messages(tx)' = Messages(tx)
  BY DEF Verified, Messages
<1>3. SignedByTheAccount' <=> \A i \in DOMAIN signed' : Good(signed'[i])
  BY <1>2 DEF SignedByTheAccount, InPlace
<1>4. CASE signed' = signed
  BY <1>1, <1>3, <1>4
<1>5. CASE signed' = Append(signed, new) /\ result.err = "nil"
  <2>1. PICK T : signed \in Seq(T)
    BY DEF Shape
  <2>2. Good(new)
    BY <1>5 DEF Signed
  <2> HIDE DEF new
  <2>3. \A i \in DOMAIN signed' : signed'[i] = new \/ (i \in DOMAIN signed /\ signed'[i] = signed[i])
    <3>1. DOMAIN signed' = 1 .. Len(signed) + 1 /\ signed'[Len(signed) + 1] = new
      BY <1>5, <2>1
    <3>2. \A i \in DOMAIN signed : signed'[i] = signed[i]
      BY <1>5, <2>1
    <3>3. Len(signed) \in Nat /\ DOMAIN signed = 1 .. Len(signed)
      BY <2>1
    <3> QED BY <3>1, <3>2, <3>3
  <2>4. ASSUME NEW i \in DOMAIN signed' PROVE Good(signed'[i])
    BY <1>1, <2>2, <2>3
  <2> QED BY <1>3, <2>4
<1> QED BY <1>4, <1>5 DEF AddSigned

\* For all chains, orders of signatures and faults in them: where an adapter verifies signatures or
\* sorts them to the inputs, a transaction counts as signed only with the genuine ones, in place.
THEOREM SignedByTheAccountHolds == Spec => []SignedByTheAccount
<1>1. Init => AccountInv
  BY DEF Init, AccountInv, SignedByTheAccount
<1>2. Shape /\ AccountInv /\ [Next]_vars => AccountInv'
  <2> SUFFICES ASSUME Shape, AccountInv, [Next]_vars PROVE AccountInv'
    OBVIOUS
  <2>1. \A conf : ArgsWith(conf).chain = swap.chain
    BY ArgsAreTheSwap DEF SwapFields
  <2>2. UNCHANGED <<swap, signed>> => SignedByTheAccount'
    BY DEF AccountInv, SignedByTheAccount, Verified, Messages
  <2>3. CASE ServerBuild
    <3>1. ASSUME NEW view, ServerBuilds(view).err = "nil", swap.chain = "btc"
          PROVE  SpendsOutputs(ServerBuilds(view).tx[1])
      <4>1. PICK yes : yes = TRUE
        OBVIOUS
      <4>2. ServerBuilds(view) = BtcBuildRawTransaction(ArgsWith(server.conf), yes, view, StartExtra, server.mem)
        BY <2>1, <3>1, <4>1 DEF ServerBuilds, BuildRawTransaction
      <4> QED BY <3>1, <4>2, BtcSpends
    <3> QED BY <2>2, <2>3, <3>1, BuildStep DEF AccountInv
  <2>4. CASE ServerSign
    <3>1. ASSUME NEW view, ServerAsks(view).err = "nil", swap.chain = "btc"
          PROVE  SpendsOutputs(ServerAsks(view).tx[1])
      <4>1. ServerAsks(view) = server.built
        BY <2>1, <3>1 DEF ServerAsks, MPCSignTransaction, BtcMPCSignTransaction, Refused
      <4> QED BY <2>4, <3>1, <4>1, SignStep DEF AccountInv
    <3> QED BY <2>2, <2>4, <3>1, SignStep, OwnKeySignsInPlace, AddSignedInPlace DEF AccountInv
  <2>5. CASE ServerFinish
    <3> DEFINE tx == server.built.tx[1]
    <3>1. swap.chain = "btc" => SpendsOutputs(tx)
      BY <2>5, FinishStep DEF AccountInv
    <3>2. Messages(tx) \in Nat \ {0}
      BY <3>1 DEF Messages, SpendsOutputs
    <3>3. ASSUME NEW view, NEW rsvs \in Answers \cup WrongAnswers, Signatures(swap, view, tx, rsvs).err = "nil",
                 Verified(tx)
          PROVE  InPlace(tx, Signatures(swap, view, tx, rsvs).sigs)
      BY <3>1, <3>2, <3>3, AnswersAreSignatures, NodesSignInPlace
    <3> QED BY <2>2, <2>5, <3>3, FinishStep, AddSignedInPlace DEF AccountInv
  <2>6. CASE ServerRestart
    BY <2>2, <2>6, RestartStep DEF AccountInv
  <2>7. CASE Drift \/ ServerReload \/ NodeReload \/ NodeVerify \/ NodeRestart \/ UNCHANGED vars
    BY <2>2, <2>7, OtherSteps DEF AccountInv
  <2> QED BY <2>3, <2>4, <2>5, <2>6, <2>7 DEF Next
<1>3. AccountInv => SignedByTheAccount
  BY DEF AccountInv
<1> QED BY <1>1, <1>2, <1>3, ShapeHolds, PTL DEF Spec

-----------------------------------------------------------------------------
(* Numbers *)

\* Quotient and remainder.
LEMMA DivMod ==
  ASSUME NEW x \in Int, NEW u \in Nat \ {0}
  PROVE  /\ x % u \in 0 .. (u - 1)
         /\ x \div u \in Int
         /\ x = u * (x \div u) + (x % u)
OBVIOUS

\* Less than one multiple more is no more multiples.
LEMMA FewerMultiples ==
  ASSUME NEW u \in Nat \ {0}, NEW a \in Int, NEW b \in Int, u * a < u * b + u
  PROVE  a <= b
<1> SUFFICES ASSUME a >= b + 1 PROVE FALSE
  OBVIOUS
<1>1. u * (a - b - 1) >= 0
  OBVIOUS
<1> QED BY <1>1

\* The lesser of two numbers.
LEMMA MinOfTwo ==
  ASSUME NEW a \in Int, NEW b \in Int
  PROVE  Min({a, b}) \in {a, b} /\ Min({a, b}) <= a /\ Min({a, b}) <= b
<1>1. \E x \in {a, b} : \A y \in {a, b} : x <= y
  OBVIOUS
<1>2. Min({a, b}) \in {a, b} /\ \A y \in {a, b} : Min({a, b}) <= y
  BY <1>1, Zenon DEF Min
<1> QED BY <1>2

\* RoundUp gives the next multiple of the unit.
LEMMA RoundUpMultiple ==
  ASSUME NEW x \in Int, NEW u \in Nat \ {0}
  PROVE  \E a \in Int : RoundUp(x, u) = u * a /\ x <= RoundUp(x, u) /\ RoundUp(x, u) < x + u
<1> DEFINE q == x \div u
           r == x % u
<1>1. r \in 0 .. (u - 1) /\ q \in Int /\ x = u * q + r
  BY DivMod
<1>2. RoundUp(x, u) = IF r = 0 THEN x ELSE x + u - r
  BY DEF RoundUp
<1> HIDE DEF q, r
<1>3. CASE r = 0
  BY <1>1, <1>2, <1>3
<1>4. CASE r # 0
  <2>1. RoundUp(x, u) = u * q + u
    BY <1>1, <1>2, <1>4
  <2>2. u * q + u = u * (q + 1)
    BY <1>1
  <2>3. RoundUp(x, u) = u * (q + 1) /\ q + 1 \in Int
    BY <1>1, <2>1, <2>2
  <2>4. x <= RoundUp(x, u) /\ RoundUp(x, u) < x + u
    BY <1>1, <1>2, <1>4
  <2> QED BY <2>3, <2>4
<1> QED BY <1>3, <1>4

\* It keeps the order of prices, and a unit of 0 keeps the price.
LEMMA RoundUpMonotone ==
  ASSUME NEW x \in Int, NEW y \in Int, x <= y, NEW u \in Nat
  PROVE  RoundUp(x, u) <= RoundUp(y, u) /\ y <= RoundUp(y, u) /\ RoundUp(x, u) \in Int /\ RoundUp(y, u) \in Int
<1>1. CASE u = 0
  BY <1>1 DEF RoundUp
<1>2. CASE u # 0
  <2>1. PICK a \in Int : RoundUp(x, u) = u * a /\ x <= RoundUp(x, u) /\ RoundUp(x, u) < x + u
    BY <1>2, RoundUpMultiple
  <2>2. PICK b \in Int : RoundUp(y, u) = u * b /\ y <= RoundUp(y, u) /\ RoundUp(y, u) < y + u
    BY <1>2, RoundUpMultiple
  <2>3. u * a < u * b + u
    BY <2>1, <2>2
  <2>4. a <= b
    BY <1>2, <2>3, FewerMultiples
  <2>5. u * (b - a) >= 0
    BY <2>4
  <2>6. u * a <= u * b
    BY <2>5
  <2> QED BY <2>1, <2>2, <2>6
<1> QED BY <1>1, <1>2

\* It never lowers a price.
LEMMA RoundUpIsMore ==
  ASSUME NEW x \in Int, NEW u \in Nat
  PROVE  x <= RoundUp(x, u) /\ RoundUp(x, u) \in Int
<1>1. x <= x
  OBVIOUS
<1> QED BY <1>1, RoundUpMonotone

-----------------------------------------------------------------------------
(* Prices of EVM chains *)

\* What an EVM process remembers: the latest price is a number.
MemOK(mem) == DOMAIN mem = {"latest", "autoMax", "cached", "account"} /\ mem.latest \in Int

\* A natural number, or nothing.
OptNat == Nat \cup {Nil}

\* The configuration of an EVM chain, as EvmAssumption has it.
CfgOK(cfg) ==
  /\ {cfg.unit, cfg.plus, cfg.replacePlus, cfg.maxPlus, cfg.fluct, cfg.plusCap, cfg.defaultGas} \subseteq Nat
  /\ {cfg.fixedPrice, cfg.maxPrice, cfg.maxTip, cfg.maxCap} \subseteq OptNat

\* A fixed price is not above the limit, when there are both.
FixedIsWithin(cfg) == cfg.fixedPrice # Nil /\ cfg.maxPrice # Nil => cfg.fixedPrice <= cfg.maxPrice

\* The percentage added to a price is a natural number.
LEMMA AddPercentIsNat ==
  ASSUME NEW cfg, CfgOK(cfg), NEW plus \in Nat, NEW n \in Nat
  PROVE  AddPercent(cfg, plus, n) \in Nat
<1> DEFINE a == plus + n * cfg.replacePlus
           b == cfg.maxPlus
<1>1. n * cfg.replacePlus \in Nat
  BY DEF CfgOK
<1>2. a \in Nat /\ b \in Nat
  BY <1>1 DEF CfgOK
<1>3. AddPercent(cfg, plus, n) = Min({a, b})
  BY DEF AddPercent
<1> HIDE DEF a, b
<1>4. a \in Int /\ b \in Int
  BY <1>2
<1>5. Min({a, b}) \in {a, b}
  BY <1>4, MinOfTwo
<1> QED BY <1>2, <1>3, <1>5

\* So is a price raised by it.
LEMMA PlusPercentIsNat ==
  ASSUME NEW x \in Nat, NEW p \in Nat
  PROVE  PlusPercent(x, p) \in Nat
<1>1. x * (100 + p) \in Nat
  OBVIOUS
<1>2. \A y \in Nat : y \div 100 \in Nat
  OBVIOUS
<1> QED BY <1>1, <1>2 DEF PlusPercent

\* adjustSwapGasPrice gives a price, and remembers one.
LEMMA AdjustedIsNat ==
  ASSUME NEW cfg, CfgOK(cfg), NEW price \in Nat, NEW n \in Nat, NEW mem, MemOK(mem)
  PROVE  /\ adjustSwapGasPrice(cfg, price, n, mem).price \in Nat
         /\ MemOK(adjustSwapGasPrice(cfg, price, n, mem).mem)
<1> DEFINE plus == IF cfg.fixedPrice # Nil THEN 0 ELSE cfg.plus
           raised == PlusPercent(price, AddPercent(cfg, plus, n))
           new == IF cfg.fluct = 0 \/ mem.latest = Nil THEN raised
                  ELSE MaxOf(raised, mem.latest - (mem.latest * cfg.fluct) \div 100)
           latest == IF cfg.fluct > 0 /\ n = 0 THEN new ELSE mem.latest
           autoMax == IF mem.autoMax = Nil \/ mem.autoMax > 10 * new THEN 10 * new
                      ELSE mem.autoMax + mem.autoMax \div 10
           mem2 == [mem EXCEPT !.latest = latest, !.autoMax = autoMax]
<1>1. adjustSwapGasPrice(cfg, price, n, mem) = [price |-> new, mem |-> mem2]
  BY Zenon DEF adjustSwapGasPrice
<1>2. raised \in Nat
  <2>1. plus \in Nat
    BY DEF CfgOK
  <2> QED BY <2>1, AddPercentIsNat, PlusPercentIsNat
<1> HIDE DEF raised
<1>3. new \in Nat
  BY <1>2 DEF MaxOf, MemOK, CfgOK
<1> HIDE DEF new
<1>4. latest \in Int
  BY <1>3 DEF MemOK
<1> HIDE DEF latest, autoMax
<1>5. MemOK(mem2)
  BY <1>4 DEF MemOK
<1> HIDE DEF mem2
<1> QED BY <1>1, <1>3, <1>5

\* A price that a process may use, and what it remembers.
PriceWithin(cfg, gasPrice) ==
  /\ MemOK(gasPrice.mem)
  /\ gasPrice.err = "nil" =>
       /\ gasPrice.price \in Nat
       /\ FixedIsWithin(cfg) /\ cfg.maxPrice # Nil => gasPrice.price <= RoundUp(cfg.maxPrice, cfg.unit)

\* getGasPrice gives no price above the limit, whether raised for a replacement, rounded or fixed.
LEMMA GasPriceWithin ==
  ASSUME NEW args, CfgOK(args.cfg), NEW isServer, NEW view, view.price \in OptNat, NEW n \in Nat,
         NEW mem, MemOK(mem)
  PROVE  PriceWithin(args.cfg, EthGetGasPrice(args, isServer, view, n, mem))
<1> DEFINE cfg == args.cfg
           fixed == cfg.fixedPrice # Nil
           suggested == IF fixed THEN cfg.fixedPrice ELSE view.price
           adjusted == adjustSwapGasPrice(cfg, suggested, n, mem)
           limit == IF cfg.maxPrice # Nil THEN cfg.maxPrice ELSE adjusted.mem.autoMax
           gasPrice == EthGetGasPrice(args, isServer, view, n, mem)
<1>1. suggested \in OptNat /\ cfg.unit \in Nat /\ cfg.maxPrice \in Int /\ cfg.fixedPrice \in OptNat
  BY DEF CfgOK, OptNat, Nil
<1>2. suggested # Nil => adjusted.price \in Nat /\ MemOK(adjusted.mem)
  BY <1>1, AdjustedIsNat DEF OptNat
<1> HIDE DEF adjusted
<1>3. gasPrice =
        IF fixed /\ (n = 0 \/ cfg.maxPrice = cfg.fixedPrice) THEN GasPrice("nil", cfg.fixedPrice, mem)
        ELSE IF suggested = Nil THEN GasPrice("rpc error", Nil, mem)
        ELSE IF ~isServer THEN GasPrice("no router server config", Nil, mem)
        ELSE IF adjusted.price > limit THEN GasPrice("gas price exceeded maximum limit", Nil, adjusted.mem)
        ELSE GasPrice("nil", RoundUp(adjusted.price, cfg.unit), adjusted.mem)
  BY Zenon DEF EthGetGasPrice, adjusted
<1>4. ASSUME NEW err, err # "nil", NEW m, MemOK(m)
      PROVE  PriceWithin(cfg, GasPrice(err, Nil, m))
  BY <1>4 DEF PriceWithin, GasPrice
<1>5. ASSUME NEW price \in Nat, FixedIsWithin(cfg) /\ cfg.maxPrice # Nil => price <= RoundUp(cfg.maxPrice, cfg.unit),
             NEW m, MemOK(m)
      PROVE  PriceWithin(cfg, GasPrice("nil", price, m))
  BY <1>5 DEF PriceWithin, GasPrice
<1>6. CASE fixed /\ (n = 0 \/ cfg.maxPrice = cfg.fixedPrice)
  <2>1. FixedIsWithin(cfg) /\ cfg.maxPrice # Nil => cfg.fixedPrice <= RoundUp(cfg.maxPrice, cfg.unit)
    <3>1. FixedIsWithin(cfg) /\ cfg.maxPrice # Nil => cfg.fixedPrice <= cfg.maxPrice
      BY <1>6 DEF FixedIsWithin
    <3>2. cfg.maxPrice <= RoundUp(cfg.maxPrice, cfg.unit) /\ RoundUp(cfg.maxPrice, cfg.unit) \in Int
      BY <1>1, RoundUpIsMore
    <3>3. cfg.fixedPrice \in Nat
      BY <1>1, <1>6 DEF OptNat
    <3> QED BY <1>1, <3>1, <3>2, <3>3
  <2>2. PriceWithin(cfg, GasPrice("nil", cfg.fixedPrice, mem))
    BY <1>1, <1>5, <1>6, <2>1 DEF OptNat
  <2>3. gasPrice = GasPrice("nil", cfg.fixedPrice, mem)
    BY <1>3, <1>6, Zenon
  <2> QED BY <2>2, <2>3
<1>7. CASE ~(fixed /\ (n = 0 \/ cfg.maxPrice = cfg.fixedPrice)) /\ (suggested = Nil \/ ~isServer)
  <2>1. /\ PriceWithin(cfg, GasPrice("rpc error", Nil, mem))
        /\ PriceWithin(cfg, GasPrice("no router server config", Nil, mem))
    BY <1>4, Zenon
  <2>2. gasPrice \in {GasPrice("rpc error", Nil, mem), GasPrice("no router server config", Nil, mem)}
    <3> HIDE DEF gasPrice, suggested, fixed, limit, cfg
    <3> QED BY <1>3, <1>7, Zenon
  <2> HIDE DEF gasPrice
  <2>3. PriceWithin(cfg, gasPrice)
    BY <2>1, <2>2, Zenon
  <2> QED BY <2>3 DEF gasPrice
<1>8. CASE /\ ~(fixed /\ (n = 0 \/ cfg.maxPrice = cfg.fixedPrice)) /\ ~(suggested = Nil \/ ~isServer)
           /\ adjusted.price > limit
  <2>1. PriceWithin(cfg, GasPrice("gas price exceeded maximum limit", Nil, adjusted.mem))
    BY <1>2, <1>4, <1>8, Zenon
  <2>2. gasPrice = GasPrice("gas price exceeded maximum limit", Nil, adjusted.mem)
    <3> HIDE DEF gasPrice, suggested, fixed, limit, cfg
    <3> QED BY <1>3, <1>8, Zenon
  <2> HIDE DEF gasPrice
  <2>3. PriceWithin(cfg, gasPrice)
    BY <2>1, <2>2, Zenon
  <2> QED BY <2>3 DEF gasPrice
<1>9. CASE /\ ~(fixed /\ (n = 0 \/ cfg.maxPrice = cfg.fixedPrice)) /\ ~(suggested = Nil \/ ~isServer)
           /\ ~(adjusted.price > limit)
  <2>0. adjusted.price \in Int /\ adjusted.price >= 0 /\ MemOK(adjusted.mem)
    BY <1>2, <1>9
  <2>1. cfg.maxPrice # Nil => RoundUp(adjusted.price, cfg.unit) <= RoundUp(cfg.maxPrice, cfg.unit)
    <3>1. cfg.maxPrice # Nil => adjusted.price <= cfg.maxPrice
      BY <1>1, <1>9, <2>0
    <3> HIDE DEF cfg
    <3> QED BY <1>1, <2>0, <3>1, RoundUpMonotone
  <2>2. RoundUp(adjusted.price, cfg.unit) \in Nat
    <3>1. RoundUp(adjusted.price, cfg.unit) \in Int /\ adjusted.price <= RoundUp(adjusted.price, cfg.unit)
      BY <1>1, <2>0, RoundUpIsMore
    <3> QED BY <2>0, <3>1
  <2>3. PriceWithin(cfg, GasPrice("nil", RoundUp(adjusted.price, cfg.unit), adjusted.mem))
    BY <1>5, <2>0, <2>1, <2>2, Zenon
  <2>4. gasPrice = GasPrice("nil", RoundUp(adjusted.price, cfg.unit), adjusted.mem)
    <3> HIDE DEF gasPrice, suggested, fixed, limit, cfg
    <3> QED BY <1>3, <1>9, Zenon
  <2> HIDE DEF gasPrice
  <2>5. PriceWithin(cfg, gasPrice)
    BY <2>3, <2>4, Zenon
  <2> QED BY <2>5 DEF gasPrice
<1> QED BY <1>6, <1>7, <1>8, <1>9

\* The fees of the kind of transaction are there, and no others.
FeesSettled(cfg, x) ==
  IF cfg.dynamic THEN x.price = Nil /\ x.tip \in Nat /\ x.cap \in Nat
  ELSE x.price \in Nat /\ x.tip = Nil /\ x.cap = Nil

\* The fees are within the limits.
FieldsWithin(cfg, x) ==
  /\ FixedIsWithin(cfg) /\ cfg.maxPrice # Nil => x.price <= RoundUp(cfg.maxPrice, cfg.unit)
  /\ cfg.maxTip # Nil => x.tip <= cfg.maxTip
  /\ cfg.maxCap # Nil => x.cap <= cfg.maxCap

\* What a build starts from when no fee is settled.
Unpriced(extra) ==
  /\ IsExtra(extra) /\ extra.replaceNum \in Nat
  /\ extra.gas = Nil /\ extra.price = Nil /\ extra.tip = Nil /\ extra.cap = Nil

\* The fees that are settled are within the limits.
FeesWithin(cfg, fees) ==
  /\ MemOK(fees.mem)
  /\ fees.err = "nil" =>
       /\ IsExtra(fees.extra) /\ fees.extra.replaceNum \in Nat
       /\ FeesSettled(cfg, fees.extra) /\ FieldsWithin(cfg, fees.extra)

\* What is cut off at a limit is within it.
LEMMA CutOff ==
  ASSUME NEW x \in Nat, NEW max \in OptNat
  PROVE  Min({x, Default(max, x)}) \in Nat /\ (max # Nil => Min({x, Default(max, x)}) <= max)
<1>1. Default(max, x) \in Nat /\ (max # Nil => Default(max, x) = max)
  BY DEF Default, OptNat, Nil
<1> DEFINE y == Default(max, x)
<1> HIDE DEF y
<1>2. x \in Int /\ y \in Int
  BY <1>1 DEF y
<1>3. Min({x, y}) \in {x, y} /\ Min({x, y}) <= x /\ Min({x, y}) <= y
  BY <1>2, MinOfTwo
<1> QED BY <1>1, <1>3 DEF y

\* A build that is refused has no fees.
LEMMA RefusedWithin ==
  ASSUME NEW cfg, NEW err, err # "nil", NEW mem, MemOK(mem)
  PROVE  FeesWithin(cfg, Refused(err, mem))
BY DEF FeesWithin, Refused

\* A fee the transaction does not have is below all limits.
LEMMA NilIsWithin ==
  ASSUME NEW cfg, CfgOK(cfg)
  PROVE  /\ cfg.maxPrice # Nil => Nil <= RoundUp(cfg.maxPrice, cfg.unit)
         /\ cfg.maxTip # Nil => Nil <= cfg.maxTip
         /\ cfg.maxCap # Nil => Nil <= cfg.maxCap
<1>1. cfg.maxPrice # Nil => cfg.maxPrice \in Nat /\ cfg.unit \in Nat
  BY DEF CfgOK, OptNat
<1>2. cfg.maxPrice # Nil => Nil <= RoundUp(cfg.maxPrice, cfg.unit)
  <2> SUFFICES ASSUME cfg.maxPrice # Nil PROVE Nil <= RoundUp(cfg.maxPrice, cfg.unit)
    OBVIOUS
  <2> DEFINE top == RoundUp(cfg.maxPrice, cfg.unit)
  <2>0. cfg.maxPrice \in Int /\ cfg.unit \in Nat
    BY <1>1
  <2>1. cfg.maxPrice <= top /\ top \in Int
    BY <2>0, RoundUpIsMore
  <2> HIDE DEF top
  <2>2. Nil <= top
    BY <1>1, <2>1 DEF Nil
  <2> QED BY <2>2 DEF top
<1> QED BY <1>2 DEF CfgOK, OptNat, Nil

\* The fees of a dynamic fee transaction are within the limits.
LEMMA DynamicFeesWithin ==
  ASSUME NEW args, CfgOK(args.cfg), args.cfg.dynamic, NEW isServer,
         NEW view, view.price \in OptNat, view.base \in OptNat,
         NEW extra, Unpriced(extra), NEW mem, MemOK(mem)
  PROVE  FeesWithin(args.cfg, DynamicFees(args, isServer, view, extra, mem))
<1> DEFINE cfg == args.cfg
           fees == DynamicFees(args, isServer, view, extra, mem)
           tip == getGasTipCap(args, view, extra.replaceNum)
           cap == getGasFeeCap(args, view, tip)
           done == [extra EXCEPT !.tip = tip, !.cap = cap, !.price = Nil]
<1>0. extra.tip = Nil /\ extra.cap = Nil
  BY DEF Unpriced
<1>1. fees = IF ~isServer THEN Refused("ErrMissDynamicFeeConfig", mem)
             ELSE IF view.price = Nil \/ view.base = Nil THEN Refused("rpc error", mem)
             ELSE Built(done, "fees", mem)
  BY <1>0 DEF DynamicFees, Default
<1>2. FeesWithin(cfg, Refused("ErrMissDynamicFeeConfig", mem)) /\ FeesWithin(cfg, Refused("rpc error", mem))
  BY RefusedWithin, Zenon
<1>3. CASE view.price # Nil /\ view.base # Nil
  <2>1. view.price \in Nat /\ view.base \in Nat /\ extra.replaceNum \in Nat
    BY <1>3 DEF OptNat, Unpriced
  <2>2. cfg.plus \in Nat /\ cfg.plusCap \in Nat /\ cfg.maxTip \in OptNat /\ cfg.maxCap \in OptNat
    BY DEF CfgOK
  <2>3. PlusPercent(view.price, AddPercent(cfg, cfg.plus, extra.replaceNum)) \in Nat
    <3>1. AddPercent(cfg, cfg.plus, extra.replaceNum) \in Nat
      BY <2>1, <2>2, AddPercentIsNat
    <3> HIDE DEF cfg
    <3> QED BY <2>1, <3>1, PlusPercentIsNat
  <2>4. tip \in Nat /\ (cfg.maxTip # Nil => tip <= cfg.maxTip)
    BY <2>2, <2>3, CutOff DEF getGasTipCap
  <2> HIDE DEF tip
  <2>5. PlusPercent(tip + 2 * view.base, cfg.plusCap) \in Nat
    <3>1. tip + 2 * view.base \in Nat /\ cfg.plusCap \in Nat
      BY <2>1, <2>2, <2>4
    <3> QED BY <3>1, PlusPercentIsNat
  <2>6. cap \in Nat /\ (cfg.maxCap # Nil => cap <= cfg.maxCap)
    BY <2>2, <2>5, CutOff DEF getGasFeeCap
  <2> HIDE DEF cap
  <2>7. /\ IsExtra(done) /\ done.replaceNum = extra.replaceNum
        /\ done.tip = tip /\ done.cap = cap /\ done.price = Nil
    BY DEF Unpriced, IsExtra, ExtraFields
  <2> HIDE DEF done
  <2>8. FeesSettled(cfg, done) /\ FieldsWithin(cfg, done)
    BY <2>4, <2>6, <2>7, NilIsWithin DEF FieldsWithin, FeesSettled
  <2>9. FeesWithin(cfg, Built(done, "fees", mem))
    BY <2>1, <2>7, <2>8 DEF FeesWithin, Built
  <2> HIDE DEF fees
  <2> QED BY <1>1, <1>2, <2>9, Zenon DEF fees
<1>4. CASE ~(view.price # Nil /\ view.base # Nil)
  <2>1. fees \in {Refused("ErrMissDynamicFeeConfig", mem), Refused("rpc error", mem)}
    <3> HIDE DEF fees, done
    <3> QED BY <1>1, <1>4, Zenon
  <2> HIDE DEF fees
  <2> QED BY <1>2, <2>1, Zenon DEF fees
<1> QED BY <1>3, <1>4

\* The price of a legacy transaction is within the limit.
LEMMA LegacyFeesWithin ==
  ASSUME NEW args, CfgOK(args.cfg), ~args.cfg.dynamic, NEW isServer, NEW view, view.price \in OptNat,
         NEW extra, Unpriced(extra), NEW mem, MemOK(mem)
  PROVE  FeesWithin(args.cfg, LegacyFees(args, isServer, view, extra, mem))
<1> DEFINE cfg == args.cfg
           gasPrice == EthGetGasPrice(args, isServer, view, extra.replaceNum, mem)
           done == [extra EXCEPT !.price = gasPrice.price, !.tip = Nil, !.cap = Nil]
<1>1. PriceWithin(cfg, gasPrice)
  BY GasPriceWithin DEF Unpriced
<1>2. LegacyFees(args, isServer, view, extra, mem)
        = IF gasPrice.err # "nil" THEN Refused(gasPrice.err, gasPrice.mem)
          ELSE Built(done, "fees", gasPrice.mem)
  BY DEF LegacyFees, Unpriced
<1> HIDE DEF gasPrice
<1>3. CASE gasPrice.err # "nil"
  BY <1>1, <1>2, <1>3, RefusedWithin DEF PriceWithin
<1>4. CASE gasPrice.err = "nil"
  <2>1. /\ IsExtra(done) /\ done.replaceNum = extra.replaceNum
        /\ done.tip = Nil /\ done.cap = Nil /\ done.price = gasPrice.price
    BY DEF Unpriced, IsExtra, ExtraFields
  <2> HIDE DEF done
  <2>2. FeesSettled(cfg, done) /\ FieldsWithin(cfg, done)
    BY <1>1, <1>4, <2>1, NilIsWithin DEF FieldsWithin, FeesSettled, PriceWithin
  <2> HIDE DEF cfg
  <2>3. FeesWithin(cfg, Built(done, "fees", gasPrice.mem))
    BY <1>1, <2>1, <2>2 DEF FeesWithin, Built, PriceWithin, Unpriced
  <2> QED BY <1>2, <1>4, <2>3 DEF cfg
<1> QED BY <1>3, <1>4

\* A build of the EVM adapter: nothing of its transaction is left open in the extra.
BuiltWithin(cfg, call, built) ==
  /\ MemOK(built.mem)
  /\ built.err = "nil" =>
       /\ DOMAIN built = BuiltFields
       /\ IsExtra(built.extra) /\ built.extra.replaceNum \in Nat
       /\ built.extra.seq # Nil /\ built.extra.gas # Nil
       /\ FeesSettled(cfg, built.extra) /\ FieldsWithin(cfg, built.extra)
       /\ built.tx[1] = EthTx(built.extra, call)

\* buildTx remembers the nonce only.
LEMMA BuildTxMem ==
  ASSUME NEW args, NEW isServer, NEW view, NEW extra, NEW call, NEW mem, MemOK(mem)
  PROVE  MemOK(buildTx(args, isServer, view, extra, call, mem).mem)
<1> DEFINE nonce == Default(extra.seq, view.seq)
           built == buildTx(args, isServer, view, extra, call, mem)
<1>1. built.mem = mem \/ built.mem = [mem EXCEPT !.cached = nonce]
  BY DEF buildTx, Refused, Built
<1> HIDE DEF built, nonce
<1>2. MemOK(built.mem)
  BY <1>1 DEF MemOK
<1> QED BY <1>2 DEF built

\* A build that passes the gas check has a gas limit.
LEMMA GasIsSettled ==
  ASSUME NEW args, CfgOK(args.cfg), NEW view, view.gas \in OptNat, NEW extra, gasError(args, view, extra) = "nil"
  PROVE  Default(extra.gas, GasLimit(args.cfg, view.gas)) # Nil
<1>1. CASE extra.gas # Nil
  BY <1>1 DEF Default
<1>2. CASE extra.gas = Nil
  <2>1. view.gas # Nil
    BY <1>2 DEF gasError
  <2>2. view.gas \in Nat /\ args.cfg.defaultGas \in Nat
    BY <2>1 DEF OptNat, CfgOK
  <2>3. PlusPercent(view.gas, 30) \in Nat
    BY <2>2, PlusPercentIsNat
  <2>4. GasLimit(args.cfg, view.gas) \in Nat
    BY <2>2, <2>3 DEF GasLimit, MaxOf
  <2> QED BY <1>2, <2>4 DEF Default, Nil
<1> QED BY <1>1, <1>2

\* A build of the EVM adapter is within the limits.
LEMMA EthBuildWithin ==
  ASSUME NEW args, CfgOK(args.cfg), NEW isServer,
         NEW view, view.price \in OptNat, view.base \in OptNat, view.gas \in OptNat,
         NEW extra, Unpriced(extra), NEW mem, MemOK(mem)
  PROVE  BuiltWithin(args.cfg, BuildInput(args), EthBuildRawTransaction(args, isServer, view, extra, mem))
<1> DEFINE cfg == args.cfg
           call == BuildInput(args)
           fees == EthFees(args, isServer, view, extra, mem)
           gas == Default(extra.gas, GasLimit(args.cfg, view.gas))
           filled == [fees.extra EXCEPT !.gas = gas]
           full == [filled EXCEPT !.seq = Default(filled.seq, view.seq)]
           built == EthBuildRawTransaction(args, isServer, view, extra, mem)
           tx == buildTx(args, isServer, view, filled, call, fees.mem)
<1>1. FeesWithin(cfg, fees)
  BY DynamicFeesWithin, LegacyFeesWithin DEF EthFees
<1>2. MemOK(fees.mem)
  BY <1>1 DEF FeesWithin
<1>3. MemOK(built.mem)
  <2>1. MemOK(tx.mem)
    <3> HIDE DEF fees, filled, call
    <3> QED BY <1>2, BuildTxMem
  <2>2. built.mem \in {mem, fees.mem, tx.mem}
    <3> HIDE DEF tx, gas
    <3>1. built \in {Refused(senderError(args), mem), Refused(call.err, mem), fees,
                     Refused(gasError(args, view, extra), fees.mem), tx}
      BY DEF EthBuildRawTransaction, EthFees, tx, gas
    <3> HIDE DEF built, fees, call
    <3> QED BY <3>1 DEF Refused
  <2> HIDE DEF built, fees, tx
  <2> QED BY <1>2, <2>1, <2>2
<1>4. ASSUME built.err = "nil"
      PROVE  /\ DOMAIN built = BuiltFields
             /\ IsExtra(built.extra) /\ built.extra.replaceNum \in Nat
             /\ built.extra.seq # Nil /\ built.extra.gas # Nil
             /\ FeesSettled(cfg, built.extra) /\ FieldsWithin(cfg, built.extra)
             /\ built.tx[1] = EthTx(built.extra, call)
  <2>1. fees.err = "nil" /\ built = tx
    BY <1>4, EthBuilds
  <2>0. gas # Nil
    <3>1. gasError(args, view, extra) = "nil"
      BY <1>4 DEF EthBuildRawTransaction, Refused
    <3> QED BY <3>1, GasIsSettled
  <2>2. /\ IsExtra(fees.extra) /\ fees.extra.replaceNum \in Nat
        /\ FeesSettled(cfg, fees.extra) /\ FieldsWithin(cfg, fees.extra)
    BY <1>1, <2>1 DEF FeesWithin
  <2> HIDE DEF fees, gas, call
  <2>3. /\ IsExtra(filled) /\ filled.replaceNum = fees.extra.replaceNum /\ filled.gas = gas
        /\ filled.price = fees.extra.price /\ filled.tip = fees.extra.tip /\ filled.cap = fees.extra.cap
    BY <2>2 DEF IsExtra, ExtraFields
  <2> HIDE DEF filled
  <2>4. built = Built(full, EthTx(full, call), [fees.mem EXCEPT !.cached = full.seq]) /\ full.seq # Nil
    BY <1>4, <2>1, <2>3, BuildTxResult
  <2>5. /\ IsExtra(full) /\ full.replaceNum = filled.replaceNum /\ full.gas = filled.gas
        /\ full.price = filled.price /\ full.tip = filled.tip /\ full.cap = filled.cap
    BY <2>3 DEF IsExtra, ExtraFields
  <2> HIDE DEF full, built
  <2>6. FeesSettled(cfg, full) /\ FieldsWithin(cfg, full)
    BY <2>2, <2>3, <2>5 DEF FieldsWithin, FeesSettled
  <2> QED BY <2>0, <2>2, <2>3, <2>4, <2>5, <2>6 DEF Built, BuiltFields
<1> HIDE DEF built
<1>5. BuiltWithin(cfg, call, built)
  BY <1>3, <1>4 DEF BuiltWithin
<1> QED BY <1>5 DEF built

\* It still is after the raise of the price before the signing, which has the same limit.
LEMMA EthAskWithin ==
  ASSUME NEW args, CfgOK(args.cfg), NEW view, view.price \in OptNat,
         NEW call, NEW built, BuiltWithin(args.cfg, call, built), built.err = "nil"
  PROVE  BuiltWithin(args.cfg, call, EthMPCSignTransaction(args, view, built))
<1>0. PICK yes : yes = TRUE
  OBVIOUS
<1> DEFINE cfg == args.cfg
           asked == EthMPCSignTransaction(args, view, built)
           gasPrice == EthGetGasPrice(args, yes, view, built.extra.replaceNum, built.mem)
           tx == [built.tx[1] EXCEPT !.price = gasPrice.price]
           raised == [built.extra EXCEPT !.price = gasPrice.price]
           kept == [built EXCEPT !.mem = gasPrice.mem]
<1>1. PriceWithin(cfg, gasPrice)
  BY GasPriceWithin DEF BuiltWithin
<1>2. \/ asked = Refused("tx receiver mismatch", built.mem)
      \/ asked = built
      \/ asked = Built(raised, tx, gasPrice.mem) /\ gasPrice.err = "nil" /\ ~cfg.dynamic
      \/ asked = kept
  BY <1>0 DEF EthMPCSignTransaction
<1> HIDE DEF gasPrice, asked
<1>3. BuiltWithin(cfg, call, Refused("tx receiver mismatch", built.mem))
  BY DEF BuiltWithin, Refused
<1>4. BuiltWithin(cfg, call, kept)
  <2>1. /\ DOMAIN kept = BuiltFields /\ kept.extra = built.extra /\ kept.tx = built.tx
        /\ kept.mem = gasPrice.mem /\ kept.err = built.err
    BY DEF BuiltWithin, BuiltFields
  <2> HIDE DEF kept
  <2> QED BY <1>1, <2>1 DEF BuiltWithin, PriceWithin
<1>5. ASSUME gasPrice.err = "nil", ~cfg.dynamic PROVE BuiltWithin(cfg, call, Built(raised, tx, gasPrice.mem))
  <2>1. MemOK(gasPrice.mem) /\ gasPrice.price \in Nat
    BY <1>1, <1>5 DEF PriceWithin
  <2>2. /\ IsExtra(raised) /\ raised.price = gasPrice.price
        /\ \A f \in ExtraFields \ {"price"} : raised[f] = built.extra[f]
    BY DEF BuiltWithin, IsExtra, ExtraFields
  <2>3. tx = EthTx(raised, call)
    BY DEF BuiltWithin, EthTx, IsExtra, ExtraFields
  <2> HIDE DEF raised, tx
  <2>4. FeesSettled(cfg, raised) /\ FieldsWithin(cfg, raised)
    BY <1>1, <1>5, <2>2 DEF FieldsWithin, FeesSettled, PriceWithin, BuiltWithin, ExtraFields
  <2>5. raised.replaceNum \in Nat /\ raised.seq # Nil /\ raised.gas # Nil
    BY <2>2 DEF BuiltWithin, ExtraFields
  <2> HIDE DEF cfg
  <2> QED BY <2>1, <2>2, <2>3, <2>4, <2>5 DEF BuiltWithin, BuiltFields, Built, cfg
<1>6. BuiltWithin(cfg, call, asked)
  BY <1>2, <1>3, <1>4, <1>5, Zenon
<1> QED BY <1>6 DEF asked

\* No fixed gas price is above the maximum of the same chain.  The check of the configuration
\* (params/checkconfig.go) does not compare them, and a first transaction uses the fixed price as it is.
FixedWithinMax == \A s \in Swaps : s.chain = "eth" => FixedIsWithin(s.cfg)

\* The call that is built for a swap with a configuration.
InputOf(s, conf) == BuildInput([s EXCEPT !.pair = Pairs[conf]])

\* The inductive invariant: requests under way and signed transactions are within the limits, and
\* nothing of a request is left for the node to choose.
LimitInv ==
  swap.chain = "eth" =>
    /\ MemOK(server.mem)
    /\ server.pc # "idle" =>
         server.built.err = "nil" /\ BuiltWithin(swap.cfg, InputOf(swap, server.pair), server.built)
    /\ \A i \in DOMAIN signed : FieldsWithin(swap.cfg, signed[i].tx)

\* What EvmAssumption says of the swap of a state.
LEMMA SwapIsEvm ==
  ASSUME Shape, swap.chain = "eth"
  PROVE  /\ CfgOK(swap.cfg)
         /\ \A conf : ArgsWith(conf).chain = "eth" /\ ArgsWith(conf).cfg = swap.cfg
         /\ \A view \in Views : view.price \in OptNat /\ view.base \in OptNat /\ view.gas \in OptNat
<1>1. CfgOK(swap.cfg)
  BY EvmAssumption DEF Shape, CfgOK, OptNat
<1>2. \A conf : ArgsWith(conf).chain = "eth" /\ ArgsWith(conf).cfg = swap.cfg
  BY ArgsAreTheSwap DEF SwapFields
<1>3. {world.price, world.base, world.gas} \subseteq OptNat /\ DOMAIN world = ViewFields
  BY EvmAssumption, SwapAssumption DEF Shape, OptNat
<1>4. ASSUME NEW view \in FaultyViews PROVE {view.price, view.base, view.gas} \subseteq OptNat
  <2>1. CASE \E call \in Calls : view = [world EXCEPT ![call] = Nil]
    BY <1>3, <2>1 DEF OptNat, ViewFields
  <2>2. CASE view = [world EXCEPT !.utxos = <<>>]
    BY <1>3, <2>2 DEF ViewFields
  <2> QED BY <2>1, <2>2 DEF FaultyViews
<1> QED BY <1>1, <1>2, <1>3, <1>4 DEF Views

\* The server starts without a price of its own.
LEMMA StartIsUnpriced ==
  ASSUME Shape
  PROVE  Unpriced(StartExtra)
<1>1. PICK T : signed \in Seq(T)
  BY DEF Shape
<1>2. Len(signed) \in Nat
  BY <1>1
<1> QED BY <1>2 DEF Unpriced, StartExtra, NoExtra, IsExtra, ExtraFields

\* A transaction within the limits may be added.
LEMMA AddSignedWithin ==
  ASSUME Shape, NEW cfg, \A i \in DOMAIN signed : FieldsWithin(cfg, signed[i].tx),
         NEW built, FieldsWithin(cfg, built.tx[1]), NEW result, signed' = AddSigned(built, result)
  PROVE  \A i \in DOMAIN signed' : FieldsWithin(cfg, signed'[i].tx)
<1> DEFINE new == Signed(built, result.sigs)
<1>1. CASE signed' = signed
  BY <1>1
<1>2. CASE signed' = Append(signed, new)
  <2>1. PICK T : signed \in Seq(T)
    BY DEF Shape
  <2>2. new.tx = built.tx[1]
    BY DEF Signed
  <2> HIDE DEF new
  <2>3. DOMAIN signed' = 1 .. Len(signed) + 1 /\ signed'[Len(signed) + 1] = new
    BY <1>2, <2>1
  <2>4. \A i \in DOMAIN signed : signed'[i] = signed[i]
    BY <1>2, <2>1
  <2>5. Len(signed) \in Nat /\ DOMAIN signed = 1 .. Len(signed)
    BY <2>1
  <2> QED BY <2>2, <2>3, <2>4, <2>5
<1> QED BY <1>1, <1>2 DEF AddSigned

\* The transaction has the fees of its extra.
LEMMA TxIsWithin ==
  ASSUME NEW cfg, NEW call, NEW built, BuiltWithin(cfg, call, built), built.err = "nil"
  PROVE  FieldsWithin(cfg, built.tx[1])
BY DEF BuiltWithin, EthTx, FieldsWithin

\* The invariant of the limits holds in all states.
LEMMA LimitInvHolds == Spec => []LimitInv
<1>1. Init => LimitInv
  BY DEF Init, LimitInv, MemOK, FreshMem, Nil
<1>2. Shape /\ LimitInv /\ [Next]_vars => LimitInv'
  <2> SUFFICES ASSUME Shape, LimitInv, [Next]_vars, swap'.chain = "eth"
               PROVE  /\ MemOK(server'.mem)
                      /\ server'.pc # "idle" =>
                           /\ server'.built.err = "nil"
                           /\ BuiltWithin(swap'.cfg, InputOf(swap', server'.pair), server'.built)
                      /\ \A i \in DOMAIN signed' : FieldsWithin(swap'.cfg, signed'[i].tx)
    BY DEF LimitInv
  <2>0. swap' = swap
    BY BuildStep, SignStep, FinishStep, RestartStep, OtherSteps DEF Next
  <2> DEFINE Input(conf) == InputOf(swap, conf)
  <2>1. \A conf : Input(conf) = BuildInput(ArgsWith(conf))
    BY DEF InputOf, ArgsWith
  <2>2. /\ CfgOK(swap.cfg)
        /\ \A conf : ArgsWith(conf).chain = "eth" /\ ArgsWith(conf).cfg = swap.cfg
        /\ \A view \in Views : view.price \in OptNat /\ view.base \in OptNat /\ view.gas \in OptNat
    BY <2>0, SwapIsEvm
  <2> HIDE DEF Input
  <2>3. /\ MemOK(server.mem)
        /\ server.pc # "idle" => server.built.err = "nil" /\ BuiltWithin(swap.cfg, Input(server.pair), server.built)
        /\ \A i \in DOMAIN signed : FieldsWithin(swap.cfg, signed[i].tx)
    BY <2>0 DEF LimitInv, Input
  <2> SUFFICES /\ MemOK(server'.mem)
               /\ server'.pc # "idle" =>
                    server'.built.err = "nil" /\ BuiltWithin(swap.cfg, Input(server'.pair), server'.built)
               /\ \A i \in DOMAIN signed' : FieldsWithin(swap.cfg, signed'[i].tx)
    BY <2>0 DEF Input
  <2>4. CASE ServerBuild
    <3>1. ASSUME NEW view \in Views PROVE BuiltWithin(swap.cfg, Input(server.conf), ServerBuilds(view))
      <4>1. PICK yes : yes = TRUE
        OBVIOUS
      <4>2. ServerBuilds(view) = EthBuildRawTransaction(ArgsWith(server.conf), yes, view, StartExtra, server.mem)
        BY <2>2, <4>1 DEF ServerBuilds, BuildRawTransaction
      <4>3. BuiltWithin(ArgsWith(server.conf).cfg, BuildInput(ArgsWith(server.conf)),
                        EthBuildRawTransaction(ArgsWith(server.conf), yes, view, StartExtra, server.mem))
        BY <2>2, <2>3, StartIsUnpriced, EthBuildWithin
      <4> QED BY <2>1, <2>2, <4>2, <4>3
    <3>2. \A view \in Views : MemOK(ServerBuilds(view).mem)
      BY <3>1 DEF BuiltWithin
    <3> QED BY <2>3, <2>4, <3>1, <3>2, BuildStep
  <2>5. CASE ServerSign
    <3>1. server.built.err = "nil" /\ BuiltWithin(swap.cfg, Input(server.pair), server.built)
      BY <2>3, <2>5, SignStep
    <3>2. ASSUME NEW view \in Views PROVE BuiltWithin(swap.cfg, Input(server.pair), ServerAsks(view))
      <4>1. ServerAsks(view) = EthMPCSignTransaction(ArgsWith(server.conf), view, server.built)
        BY <2>2 DEF ServerAsks, MPCSignTransaction
      <4>2. BuiltWithin(ArgsWith(server.conf).cfg, Input(server.pair),
                        EthMPCSignTransaction(ArgsWith(server.conf), view, server.built))
        BY <2>2, <3>1, EthAskWithin
      <4> QED BY <2>2, <4>1, <4>2
    <3>3. \A view \in Views :
            /\ MemOK(ServerAsks(view).mem)
            /\ ServerAsks(view).err = "nil" => FieldsWithin(swap.cfg, ServerAsks(view).tx[1])
      BY <3>2, TxIsWithin DEF BuiltWithin
    <3> QED BY <2>3, <2>5, <3>2, <3>3, SignStep, AddSignedWithin
  <2>6. CASE ServerFinish
    <3>1. FieldsWithin(swap.cfg, server.built.tx[1])
      BY <2>3, <2>6, FinishStep, TxIsWithin
    <3> QED BY <2>3, <2>6, <3>1, FinishStep, AddSignedWithin
  <2>7. CASE ServerRestart
    <3>1. MemOK(FreshMem)
      BY DEF MemOK, FreshMem, Nil
    <3> QED BY <2>3, <2>7, <3>1, RestartStep
  <2>8. CASE Drift \/ ServerReload \/ NodeReload \/ NodeVerify \/ NodeRestart \/ UNCHANGED vars
    BY <2>3, <2>8, OtherSteps
  <2> QED BY <2>4, <2>5, <2>6, <2>7, <2>8 DEF Next
<1> QED BY <1>1, <1>2, ShapeHolds, PTL DEF Spec

\* For all configurations whose fixed price respects the limit, and all prices the gateways report:
\* no transaction is signed above the limits of tip and fee cap, nor at a price above its limit rounded
\* up to the price unit, however often it was replaced (getGasPrice, which rounds after it has compared,
\* getGasTipCap, getGasFeeCap, adjustSwapGasPrice and the raise before the signing).
THEOREM SignedWithinLimitsHolds == ASSUME FixedWithinMax PROVE Spec => []SignedWithinLimits
<1>1. Shape /\ LimitInv => SignedWithinLimits
  BY DEF LimitInv, FieldsWithin, SignedWithinLimits, FixedWithinMax, Shape
<1> QED BY <1>1, ShapeHolds, LimitInvHolds, PTL

-----------------------------------------------------------------------------
(* Requests of an honest server *)

\* A build that succeeded.
IsBuild(built, result) == built = result /\ built.err = "nil"
\* The gateways report this account number or key, or fail.
Reports(view, number) == view.account \in {Nil, number}
\* Two builds have the same transaction.
SameTx(again, first) == again.tx[1] = first.tx[1]

\* A build from the extra of a build gives the same transaction, whatever the gateways answer.
LEMMA AptosAgain ==
  ASSUME NEW args, args.cfg.fixedPrice \in OptNat, args.cfg.maxGas \in Nat, NEW isServer, NEW isServer2,
         NEW view, view.clock # Nil, view.price \in OptNat, NEW view2, NEW extra, IsExtra(extra), NEW mem, NEW mem2,
         NEW first, IsBuild(first, AptosBuildRawTransaction(args, isServer, view, extra, mem)),
         NEW again, IsBuild(again, AptosBuildRawTransaction(args, isServer2, view2, first.extra, mem2))
  PROVE  SameTx(again, first)
<1> DEFINE full == AptosSetExtraArgs(args, view, extra)
           full2 == AptosSetExtraArgs(args, view2, full)
<1>1. first = Built(full, AptosBuildSwapinTransferTransaction(args, full), mem) /\ full.seq # Nil
  BY DEF AptosBuildRawTransaction, Refused, IsBuild
<1>2. first.extra = full
  BY <1>1 DEF Built
<1>3. again = Built(full2, AptosBuildSwapinTransferTransaction(args, full2), mem2)
  BY <1>2 DEF AptosBuildRawTransaction, Refused, IsBuild
<1>4. AptosGetGasPrice(args, view) # Nil /\ AptosGetMaxFee(args) # Nil
  BY OtherAssumption DEF AptosGetGasPrice, AptosGetMaxFee, MaxOf, Default, OptNat, Nil
<1>5. IsExtra(full) /\ full.gas # Nil /\ full.fee # Nil /\ full.block # Nil
  BY <1>4 DEF AptosSetExtraArgs, Default, IsExtra, ExtraFields
<1> HIDE DEF full
<1>6. full2.seq = full.seq /\ full2.gas = full.gas /\ full2.fee = full.fee /\ full2.block = full.block
  BY <1>1, <1>5 DEF AptosSetExtraArgs, Default, IsExtra, ExtraFields
<1> HIDE DEF full2
<1> QED BY <1>1, <1>3, <1>6 DEF Built, AptosBuildSwapinTransferTransaction, SameTx

\* The same of Near.
LEMMA NearAgain ==
  ASSUME NEW args, NEW isServer, NEW isServer2, NEW view, NEW view2, NEW extra, IsExtra(extra), NEW mem, NEW mem2,
         NEW first, IsBuild(first, NearBuildRawTransaction(args, isServer, view, extra, mem)),
         NEW again, IsBuild(again, NearBuildRawTransaction(args, isServer2, view2, first.extra, mem2))
  PROVE  SameTx(again, first)
<1> DEFINE full == NearInitExtra(view, extra)
           full2 == NearInitExtra(view2, full)
           Tx(e) == [method |-> NearMethod(args), recv |-> args.bind, amount |-> SwapAmount(args),
                     seq |-> e.seq, gas |-> e.gas, block |-> e.block]
<1>1. first = Built(full, Tx(full), mem) /\ full.seq # Nil /\ full.block # Nil
  BY DEF NearBuildRawTransaction, Refused, IsBuild
<1>2. first.extra = full
  BY <1>1 DEF Built
<1>3. again = Built(full2, Tx(full2), mem2)
  BY <1>2 DEF NearBuildRawTransaction, Refused, IsBuild
<1>4. IsExtra(full) /\ full.gas # Nil
  BY OtherAssumption DEF NearInitExtra, Default, IsExtra, ExtraFields, Nil
<1> HIDE DEF full
<1>5. full2.seq = full.seq /\ full2.gas = full.gas /\ full2.block = full.block
  BY <1>1, <1>4 DEF NearInitExtra, Default, IsExtra, ExtraFields
<1> HIDE DEF full2
<1> QED BY <1>1, <1>3, <1>5 DEF Built, SameTx

\* The same of Flow, as long as the key of the account is the same.
LEMMA FlowAgain ==
  ASSUME NEW args, NEW isServer, NEW isServer2, NEW key, NEW view, Reports(view, key),
         NEW view2, Reports(view2, key), NEW extra, IsExtra(extra), NEW mem, NEW mem2,
         NEW first, IsBuild(first, FlowBuildRawTransaction(args, isServer, view, extra, mem)),
         NEW again, IsBuild(again, FlowBuildRawTransaction(args, isServer2, view2, first.extra, mem2))
  PROVE  SameTx(again, first)
<1> DEFINE full == FlowInitExtra(view, extra)
           full2 == FlowInitExtra(view2, full)
           Tx(e) == [recv |-> args.bind, amount |-> args.value, key |-> key, seq |-> e.seq, block |-> e.block]
<1>1. first = Built(full, Tx(full), mem) /\ full.seq # Nil /\ full.block # Nil
  BY DEF FlowBuildRawTransaction, Refused, IsBuild, Reports
<1>2. first.extra = full
  BY <1>1 DEF Built
<1>3. again = Built(full2, Tx(full2), mem2)
  BY <1>2 DEF FlowBuildRawTransaction, Refused, IsBuild, Reports
<1>4. IsExtra(full)
  BY DEF FlowInitExtra, IsExtra, ExtraFields
<1> HIDE DEF full
<1>5. full2.seq = full.seq /\ full2.block = full.block
  BY <1>1, <1>4 DEF FlowInitExtra, Default, IsExtra, ExtraFields
<1> HIDE DEF full2
<1> QED BY <1>1, <1>3, <1>5 DEF Built, SameTx

\* The same of Ripple.
LEMMA RippleAgain ==
  ASSUME NEW args, NEW isServer, NEW isServer2, NEW view, NEW view2, NEW extra, IsExtra(extra), NEW mem, NEW mem2,
         NEW first, IsBuild(first, RippleBuildRawTransaction(args, isServer, view, extra, mem)),
         NEW again, IsBuild(again, RippleBuildRawTransaction(args, isServer2, view2, first.extra, mem2))
  PROVE  SameTx(again, first)
<1> DEFINE full == RippleSetExtraArgs(view, extra)
           full2 == RippleSetExtraArgs(view2, full)
           Tx(e) == RippleNewUnsignedPaymentTransaction(args, SwapAmount(args), e)
<1>1. first = Built(full, Tx(full), mem) /\ full.seq # Nil /\ full.fee # Nil
  BY DEF RippleBuildRawTransaction, Refused, IsBuild
<1>2. first.extra = full
  BY <1>1 DEF Built
<1>3. again = Built(full2, Tx(full2), mem2)
  BY <1>2 DEF RippleBuildRawTransaction, Refused, IsBuild
<1>4. IsExtra(full)
  BY DEF RippleSetExtraArgs, IsExtra, ExtraFields
<1> HIDE DEF full
<1>5. full2.seq = full.seq /\ full2.fee = full.fee
  BY <1>1, <1>4 DEF RippleSetExtraArgs, Default, IsExtra, ExtraFields
<1> HIDE DEF full2
<1> QED BY <1>1, <1>3, <1>5 DEF Built, RippleNewUnsignedPaymentTransaction, SameTx

\* The same of Solana.
LEMMA SolanaAgain ==
  ASSUME NEW args, NEW isServer, NEW isServer2, NEW view, NEW view2, NEW extra, IsExtra(extra), NEW mem, NEW mem2,
         NEW first, IsBuild(first, SolanaBuildRawTransaction(args, isServer, view, extra, mem)),
         NEW again, IsBuild(again, SolanaBuildRawTransaction(args, isServer2, view2, first.extra, mem2))
  PROVE  SameTx(again, first)
<1> DEFINE full == SolanaSetExtraArgs(view, extra)
           full2 == SolanaSetExtraArgs(view2, full)
           Tx(e) == [instruction |-> SolanaInstruction(args), swap |-> args.swap, recv |-> args.bind,
                     amount |-> SwapAmount(args), seq |-> e.seq, block |-> e.block]
<1>1. first = Built(full, Tx(full), mem) /\ full.block # Nil
  BY DEF SolanaBuildRawTransaction, Refused, IsBuild
<1>2. first.extra = full
  BY <1>1 DEF Built
<1>3. again = Built(full2, Tx(full2), mem2)
  BY <1>2 DEF SolanaBuildRawTransaction, Refused, IsBuild
<1> HIDE DEF full
<1>4. full2 = full
  BY <1>1 DEF SolanaSetExtraArgs
<1> HIDE DEF full2
<1> QED BY <1>1, <1>3, <1>4 DEF Built, SameTx

\* The same of Tron.
LEMMA TronAgain ==
  ASSUME NEW args, NEW isServer, NEW isServer2, NEW view, NEW view2, NEW extra, IsExtra(extra), NEW mem, NEW mem2,
         NEW first, IsBuild(first, TronBuildRawTransaction(args, isServer, view, extra, mem)),
         NEW again, IsBuild(again, TronBuildRawTransaction(args, isServer2, view2, first.extra, mem2))
  PROVE  SameTx(again, first)
<1> DEFINE tx == TriggerTx(BuildInput(args), view.block)
           full == [extra EXCEPT !.raw = <<tx>>]
<1>1. \/ extra.raw # <<>> /\ first = Built(extra, extra.raw[1], mem)
      \/ first = Built(full, tx, mem)
  BY DEF TronBuildRawTransaction, Refused, IsBuild
<1>2. full.raw = <<tx>>
  BY DEF IsExtra, ExtraFields
<1> HIDE DEF full, tx
<1>3. first.extra.raw # <<>> /\ first.tx[1] = first.extra.raw[1]
  BY <1>1, <1>2 DEF Built
<1>4. again = Built(first.extra, first.extra.raw[1], mem2)
  BY <1>3 DEF TronBuildRawTransaction, Refused, IsBuild
<1> QED BY <1>3, <1>4 DEF Built, SameTx

\* The same of Reef.
LEMMA ReefAgain ==
  ASSUME NEW args, NEW isServer, NEW isServer2, NEW view, NEW view2, NEW extra, IsExtra(extra), NEW mem, NEW mem2,
         NEW first, IsBuild(first, ReefBuildRawTransaction(args, isServer, view, extra, mem)),
         NEW again, IsBuild(again, ReefBuildRawTransaction(args, isServer2, view2, first.extra, mem2))
  PROVE  SameTx(again, first)
<1> DEFINE call == BuildERC20SwapTxInput(args)
           full == ReefSetDefaults(view, extra)
           full2 == ReefSetDefaults(view2, full)
           Tx(e) == [to |-> Contract, method |-> call.method, recv |-> call.recv, amount |-> call.amount,
                     data |-> call.data, seq |-> e.seq, gas |-> e.gas, price |-> e.price, block |-> e.block]
<1>1. first = Built(full, Tx(full), mem) /\ ReefHasSignInfo(view)
  BY DEF ReefBuildRawTransaction, Refused, IsBuild
<1>2. first.extra = full
  BY <1>1 DEF Built
<1>3. again = Built(full2, Tx(full2), mem2)
  BY <1>2 DEF ReefBuildRawTransaction, Refused, IsBuild
<1> HIDE DEF call
<1>4. IsExtra(full) /\ full.seq # Nil /\ full.gas # Nil /\ full.price # Nil /\ full.block # Nil
  BY <1>1 DEF ReefSetDefaults, ReefHasSignInfo, Default, IsExtra, ExtraFields
<1> HIDE DEF full
<1>5. full2.seq = full.seq /\ full2.gas = full.gas /\ full2.price = full.price /\ full2.block = full.block
  BY <1>4 DEF ReefSetDefaults, Default, IsExtra, ExtraFields
<1> HIDE DEF full2
<1> QED BY <1>1, <1>3, <1>5 DEF Built, SameTx

\* The number of an account that is remembered is the one the gateways report.
Knows(number, mem) == DOMAIN mem = {"latest", "autoMax", "cached", "account"} /\ mem.account \in {0, number}

\* What a process of Cosmos remembers of the account stays right.
LEMMA CosmosRemembers ==
  ASSUME NEW args, NEW isServer, NEW number, NEW view, Reports(view, number), NEW extra,
         NEW mem, Knows(number, mem)
  PROVE  Knows(number, CosmosBuildRawTransaction(args, isServer, view, extra, mem).mem)
<1> DEFINE built == CosmosBuildRawTransaction(args, isServer, view, extra, mem)
           account == CosmosAccountNum(view, mem)
<1>1. built.mem = mem \/ (built.mem = [mem EXCEPT !.account = account] /\ account # Nil)
  BY DEF CosmosBuildRawTransaction, Refused, IsBuild, Built
<1>2. account \in {Nil, number}
  BY DEF CosmosAccountNum, Knows, Reports
<1> HIDE DEF built, account
<1>3. Knows(number, built.mem)
  BY <1>1, <1>2 DEF Knows
<1> QED BY <1>3 DEF built

\* An extra as the requests have it.
ExtraOK(extra) == IsExtra(extra) /\ extra.replaceNum \in Nat
\* The fees of Cosmos, as OtherAssumption has them.
CosmosOK(cfg) == {cfg.fee, cfg.defaultFee, cfg.plus, cfg.replacePlus, cfg.maxPlus} \subseteq Nat

\* The same of Cosmos, where the account number is asked for or remembered.
LEMMA CosmosAgain ==
  ASSUME NEW args, CosmosOK(args.cfg), NEW isServer, NEW isServer2, NEW number, NEW view, Reports(view, number),
         NEW view2, Reports(view2, number), NEW extra, ExtraOK(extra),
         NEW mem, Knows(number, mem), NEW mem2, Knows(number, mem2),
         NEW first, IsBuild(first, CosmosBuildRawTransaction(args, isServer, view, extra, mem)),
         NEW again, IsBuild(again, CosmosBuildRawTransaction(args, isServer2, view2, first.extra, mem2))
  PROVE  SameTx(again, first)
<1> DEFINE full == CosmosInitExtra(args, isServer, view, extra)
           full2 == CosmosInitExtra(args, isServer2, view2, full)
           Tx(e) == [recv |-> args.bind, amount |-> SwapAmount(args),
                     charged |-> IF args.cfg.chargeFee THEN CosmosBridgeFee(args) ELSE 0,
                     fee |-> e.fee, gas |-> e.gas, seq |-> e.seq, account |-> number]
<1>1. CosmosAccountNum(view, mem) \in {Nil, number} /\ CosmosAccountNum(view2, mem2) \in {Nil, number}
  BY DEF CosmosAccountNum, Knows, Reports
<1>2. first.extra = full /\ first.tx = <<Tx(full)>> /\ full.seq # Nil
  BY <1>1 DEF CosmosBuildRawTransaction, Refused, IsBuild, Built
<1>3. again.tx = <<Tx(full2)>>
  BY <1>1, <1>2 DEF CosmosBuildRawTransaction, Refused, IsBuild, Built
<1>4. CosmosRaisedFee(args, isServer, extra.replaceNum) # Nil
  <2> DEFINE fee == IF isServer THEN args.cfg.fee ELSE args.cfg.defaultFee
             a == args.cfg.plus + extra.replaceNum * args.cfg.replacePlus
             b == args.cfg.maxPlus
  <2>1. extra.replaceNum * args.cfg.replacePlus \in Nat /\ fee \in Nat
    BY DEF CosmosOK, ExtraOK
  <2>2. a \in Nat /\ b \in Nat
    BY <2>1 DEF CosmosOK
  <2>3. CosmosRaisedFee(args, isServer, extra.replaceNum)
          = IF extra.replaceNum = 0 THEN fee ELSE PlusPercent(fee, Min({a, b}))
    BY DEF CosmosRaisedFee, CosmosGetDefaultFee
  <2> HIDE DEF a, b, fee
  <2>4. a \in Int /\ b \in Int
    BY <2>2
  <2>5. Min({a, b}) \in Nat
    BY <2>2, <2>4, MinOfTwo
  <2>6. PlusPercent(fee, Min({a, b})) \in Nat
    BY <2>1, <2>5, PlusPercentIsNat
  <2> QED BY <2>1, <2>3, <2>6 DEF Nil
<1>5. IsExtra(full) /\ full.gas # Nil /\ full.fee # Nil
  <2>1. CosmosGasLimit # Nil
    BY OtherAssumption DEF Nil
  <2> QED BY <1>4, <2>1 DEF CosmosInitExtra, Default, ExtraOK, IsExtra, ExtraFields
<1> HIDE DEF full
<1>6. full2.seq = full.seq /\ full2.gas = full.gas /\ full2.fee = full.fee
  BY <1>2, <1>5 DEF CosmosInitExtra, Default, IsExtra, ExtraFields
<1> HIDE DEF full2
<1> QED BY <1>2, <1>3, <1>6 DEF SameTx

\* The same of EVM chains, where the request has all fees, gas and nonce.
LEMMA EthAgain ==
  ASSUME NEW args, NEW isServer2, NEW view2, NEW mem2,
         NEW first, BuiltWithin(args.cfg, BuildInput(args), first), first.err = "nil",
         NEW again, IsBuild(again, EthBuildRawTransaction(args, isServer2, view2, first.extra, mem2))
  PROVE  SameTx(again, first)
<1> DEFINE extra == first.extra
           call == BuildInput(args)
           fees == EthFees(args, isServer2, view2, extra, mem2)
           gas == Default(extra.gas, GasLimit(args.cfg, view2.gas))
           filled == [fees.extra EXCEPT !.gas = gas]
           full == [filled EXCEPT !.seq = Default(filled.seq, view2.seq)]
<1>1. /\ IsExtra(extra) /\ extra.seq # Nil /\ extra.gas # Nil /\ FeesSettled(args.cfg, extra)
      /\ first.tx[1] = EthTx(extra, call)
  BY DEF BuiltWithin
<1>2. fees.err = "nil" /\ again = buildTx(args, isServer2, view2, filled, call, fees.mem)
  BY EthBuilds DEF IsBuild
<1>3. IsExtra(fees.extra) /\ fees.extra.seq = extra.seq
  BY <1>1, <1>2, FeesKeepNonce
<1>4. fees.extra.price = extra.price /\ fees.extra.tip = extra.tip /\ fees.extra.cap = extra.cap
  <2>1. CASE args.cfg.dynamic
    <3> DEFINE done == [extra EXCEPT !.tip = extra.tip, !.cap = extra.cap, !.price = Nil]
    <3>1. extra.tip # Nil /\ extra.cap # Nil /\ extra.price = Nil
      BY <1>1, <2>1 DEF FeesSettled, Nil
    <3>2. fees = Built(done, "fees", mem2)
      <4> HIDE DEF extra
      <4> QED BY <1>2, <2>1, <3>1 DEF EthFees, DynamicFees, Default, Refused
    <3>3. done.price = extra.price /\ done.tip = extra.tip /\ done.cap = extra.cap
      BY <1>1, <3>1 DEF IsExtra, ExtraFields
    <3> HIDE DEF done, fees
    <3> QED BY <3>2, <3>3 DEF Built
  <2>2. CASE ~args.cfg.dynamic
    <3>1. extra.price # Nil
      BY <1>1, <2>2 DEF FeesSettled, Nil
    <3>2. fees = Built(extra, "fees", mem2)
      BY <2>2, <3>1 DEF EthFees, LegacyFees
    <3> HIDE DEF fees
    <3> QED BY <3>2 DEF Built
  <2> QED BY <2>1, <2>2
<1>5. gas = extra.gas
  BY <1>1 DEF Default
<1> HIDE DEF extra, fees, gas, call
<1>6. /\ IsExtra(filled) /\ filled.seq = extra.seq /\ filled.gas = extra.gas
      /\ filled.price = extra.price /\ filled.tip = extra.tip /\ filled.cap = extra.cap
  BY <1>3, <1>4, <1>5 DEF IsExtra, ExtraFields
<1> HIDE DEF filled
<1>7. again = Built(full, EthTx(full, call), [fees.mem EXCEPT !.cached = full.seq])
  BY <1>2, <1>6, BuildTxResult DEF IsBuild
<1>8. /\ full.seq = extra.seq /\ full.gas = extra.gas
      /\ full.price = extra.price /\ full.tip = extra.tip /\ full.cap = extra.cap
  BY <1>1, <1>6 DEF Default, IsExtra, ExtraFields
<1> HIDE DEF full
<1> QED BY <1>1, <1>7, <1>8 DEF Built, EthTx, SameTx

\* The account that signs keeps its number (Cosmos) and its key (Flow).
AccountsStay ==
  \A s \in Swaps : s.chain \in {"cosmos", "flow"} => \A v, w \in Worlds[s] : v.account = w.account

\* The adapters that are neither sensitive to the state of the chain nor of the EVM.
PlainChains == Chains \ ({"eth"} \cup SensitiveToTheChain)

\* Answers of the gateways, as the assumptions have them.
ViewOK(s, view) ==
  /\ view.clock # Nil /\ view.price \in OptNat
  /\ s.chain \in {"cosmos", "flow"} => \A w \in Worlds[s] : view.account \in {Nil, w.account}

\* A process remembers the account number of the states of the chain, or none.
MemKnows(s, mem) == \A w \in Worlds[s] : Knows(w.account, mem)

\* The request comes from a build of the server with this configuration.
FromBuild(s, conf, built) ==
  \E view, extra, mem, isServer :
    /\ ViewOK(s, view) /\ ExtraOK(extra)
    /\ s.chain = "cosmos" => MemKnows(s, mem)
    /\ built = BuildRawTransaction([s EXCEPT !.pair = Pairs[conf]], isServer, view, extra, mem)
    /\ built.err = "nil"

\* The inductive invariant: a request under way is what the server built from the answers it had.
RequestInv ==
  swap.chain \in PlainChains =>
    /\ swap.chain = "cosmos" => MemKnows(swap, server.mem) /\ MemKnows(swap, node.mem)
    /\ server.pc # "idle" => FromBuild(swap, server.pair, server.built)

\* What the processes see of the chain are such answers.
LEMMA ViewsAreOK ==
  ASSUME AccountsStay, Shape, NEW view \in Views
  PROVE  ViewOK(swap, view)
<1>1. DOMAIN world = ViewFields /\ world.clock \in Nat /\ world.price \in OptNat
  BY SwapAssumption, OtherAssumption DEF Shape, OptNat
<1>2. swap.chain \in {"cosmos", "flow"} => \A w \in Worlds[swap] : world.account = w.account
  BY DEF AccountsStay, Shape
<1>3. CASE view = world
  BY <1>1, <1>2, <1>3 DEF ViewOK, Nil
<1>4. CASE \E call \in Calls : view = [world EXCEPT ![call] = Nil]
  <2>1. PICK call \in Calls : view = [world EXCEPT ![call] = Nil]
    BY <1>4
  <2>2. call # "clock"
    BY DEF Calls
  <2>3. /\ view.clock = world.clock /\ view.price \in {Nil, world.price}
        /\ view.account \in {Nil, world.account}
    BY <1>1, <2>1, <2>2 DEF ViewFields
  <2> QED BY <1>1, <1>2, <2>3 DEF ViewOK, OptNat, Nil
<1>5. CASE view = [world EXCEPT !.utxos = <<>>]
  <2>1. view.clock = world.clock /\ view.price = world.price /\ view.account = world.account
    BY <1>1, <1>5 DEF ViewFields
  <2> QED BY <1>1, <1>2, <2>1 DEF ViewOK, Nil
<1> QED BY <1>3, <1>4, <1>5 DEF Views, FaultyViews

\* The server starts with such an extra.
LEMMA StartIsOK ==
  ASSUME Shape
  PROVE  ExtraOK(StartExtra)
<1>1. PICK T : signed \in Seq(T)
  BY DEF Shape
<1>2. Len(signed) \in Nat
  BY <1>1
<1> QED BY <1>2 DEF ExtraOK, StartExtra, NoExtra, IsExtra, ExtraFields

\* A build of Cosmos remembers the right account number.
LEMMA CosmosMem ==
  ASSUME NEW s, s.chain = "cosmos", NEW args, args.chain = "cosmos", NEW isServer, NEW view, ViewOK(s, view),
         NEW extra, NEW mem, MemKnows(s, mem)
  PROVE  MemKnows(s, BuildRawTransaction(args, isServer, view, extra, mem).mem)
<1>1. BuildRawTransaction(args, isServer, view, extra, mem) = CosmosBuildRawTransaction(args, isServer, view, extra, mem)
  BY DEF BuildRawTransaction
<1>2. ASSUME NEW w \in Worlds[s] PROVE Knows(w.account, CosmosBuildRawTransaction(args, isServer, view, extra, mem).mem)
  BY CosmosRemembers DEF ViewOK, MemKnows, Reports
<1> QED BY <1>1, <1>2 DEF MemKnows

\* On these chains the server asks for what it built.
LEMMA AskedIsBuilt ==
  ASSUME NEW args, args.chain \in PlainChains, NEW view, NEW built
  PROVE  /\ MPCSignTransaction(args, view, built).err = "nil" => MPCSignTransaction(args, view, built) = built
         /\ args.chain = "cosmos" => MPCSignTransaction(args, view, built) = built
BY DEF MPCSignTransaction, AptosMPCSignTransaction, ReefMPCSignTransaction, RippleMPCSignTransaction,
  SolanaMPCSignTransaction, TronMPCSignTransaction, Refused, PlainChains, Chains, SensitiveToTheChain

\* A node remembers what it did, nothing, or what its build gives.
LEMMA NodeSteps ==
  ASSUME Shape, [Next]_vars
  PROVE  \/ node'.mem = node.mem
         \/ node'.mem = FreshMem
         \/ \E view \in Views : node'.mem = NodeBuilds(view).mem
<1>1. CASE NodeVerify
  <2>1. PICK view \in Views : \E answer : node' = [node EXCEPT !.answer = answer, !.mem = NodeBuilds(view).mem]
    BY <1>1 DEF NodeVerify, NodeBuilds
  <2> DEFINE mem == NodeBuilds(view).mem
  <2>2. PICK answer : node' = [node EXCEPT !.answer = answer, !.mem = mem]
    BY <2>1
  <2> HIDE DEF mem
  <2>3. node'.mem = mem
    BY <2>2 DEF Shape, NodeFields
  <2> QED BY <2>3 DEF mem
<1>2. CASE NodeReload \/ NodeRestart \/ ServerRestart \/ ServerFinish
  BY <1>2 DEF NodeReload, NodeRestart, ServerRestart, ServerFinish, Shape, NodeFields
<1>3. CASE UNCHANGED node
  BY <1>3
<1> QED BY <1>1, <1>2, <1>3 DEF Next, Drift, ServerReload, ServerBuild, ServerSign, vars

\* The invariant of the requests holds in all states.
LEMMA RequestInvHolds == ASSUME AccountsStay PROVE Spec => []RequestInv
<1>0. \A s : MemKnows(s, FreshMem)
  BY DEF MemKnows, Knows, FreshMem
<1>1. Init => RequestInv
  BY <1>0 DEF Init, RequestInv
<1>2. Shape /\ RequestInv /\ [Next]_vars => RequestInv'
  <2> SUFFICES ASSUME Shape, RequestInv, [Next]_vars, swap'.chain \in PlainChains
               PROVE  /\ swap'.chain = "cosmos" => MemKnows(swap', server'.mem) /\ MemKnows(swap', node'.mem)
                      /\ server'.pc # "idle" => FromBuild(swap', server'.pair, server'.built)
    BY DEF RequestInv
  <2>1. swap' = swap
    BY BuildStep, SignStep, FinishStep, RestartStep, OtherSteps DEF Next
  <2>2. \A conf : ArgsWith(conf).chain = swap.chain
    BY ArgsAreTheSwap DEF SwapFields
  <2>3. /\ swap.chain \in PlainChains
        /\ swap.chain = "cosmos" => MemKnows(swap, server.mem) /\ MemKnows(swap, node.mem)
        /\ server.pc # "idle" => FromBuild(swap, server.pair, server.built)
    BY <2>1 DEF RequestInv
  <2>4. \A view \in Views : ViewOK(swap, view)
    BY ViewsAreOK
  <2>5. swap.chain = "cosmos" => MemKnows(swap, node'.mem)
    <3>1. ASSUME swap.chain = "cosmos", NEW view \in Views PROVE MemKnows(swap, NodeBuilds(view).mem)
      <4>1. PICK no : no = FALSE
        OBVIOUS
      <4>2. MemKnows(swap, BuildRawTransaction(ArgsWith(node.conf), no, view, server.built.extra, node.mem).mem)
        BY <2>2, <2>3, <2>4, <3>1, CosmosMem
      <4> QED BY <4>1, <4>2 DEF NodeBuilds
    <3> QED BY <1>0, <2>3, <3>1, NodeSteps
  <2> SUFFICES /\ swap.chain = "cosmos" => MemKnows(swap, server'.mem)
               /\ server'.pc # "idle" => FromBuild(swap, server'.pair, server'.built)
    BY <2>1, <2>5
  <2>6. CASE ServerBuild
    <3>1. PICK yes : yes = TRUE
      OBVIOUS
    <3>2. \A view : ServerBuilds(view) = BuildRawTransaction(ArgsWith(server.conf), yes, view, StartExtra, server.mem)
      BY <3>1 DEF ServerBuilds
    <3>3. ASSUME NEW view \in Views, ServerBuilds(view).err = "nil"
          PROVE  FromBuild(swap, server.conf, ServerBuilds(view))
      BY <2>3, <2>4, <3>1, <3>2, <3>3, StartIsOK DEF FromBuild, ArgsWith
    <3>4. ASSUME swap.chain = "cosmos", NEW view \in Views PROVE MemKnows(swap, ServerBuilds(view).mem)
      BY <2>2, <2>3, <2>4, <3>2, <3>4, CosmosMem
    <3> QED BY <2>6, <3>3, <3>4, BuildStep
  <2>7. CASE ServerSign
    <3>1. FromBuild(swap, server.pair, server.built)
      BY <2>3, <2>7, SignStep
    <3>2. swap.chain = "cosmos" => MemKnows(swap, server.built.mem)
      <4>1. PICK view, extra, mem, isServer :
              /\ ViewOK(swap, view) /\ (swap.chain = "cosmos" => MemKnows(swap, mem))
              /\ server.built = BuildRawTransaction(ArgsWith(server.pair), isServer, view, extra, mem)
        BY <3>1 DEF FromBuild, ArgsWith
      <4> QED BY <2>2, <4>1, CosmosMem
    <3>3. \A view : /\ ServerAsks(view).err = "nil" => ServerAsks(view) = server.built
                    /\ swap.chain = "cosmos" => ServerAsks(view) = server.built
      BY <2>2, <2>3, AskedIsBuilt DEF ServerAsks
    <3> QED BY <2>7, <3>1, <3>2, <3>3, SignStep
  <2>8. CASE ServerFinish
    BY <2>3, <2>8, FinishStep
  <2>9. CASE ServerRestart
    BY <1>0, <2>9, RestartStep
  <2>10. CASE Drift \/ ServerReload \/ NodeReload \/ NodeVerify \/ NodeRestart \/ UNCHANGED vars
    BY <2>3, <2>10, OtherSteps
  <2> QED BY <2>6, <2>7, <2>8, <2>9, <2>10 DEF Next
<1> QED BY <1>1, <1>2, ShapeHolds, PTL DEF Spec

\* So on these chains a node that can build the transaction builds the same.
LEMMA BuiltAgain ==
  ASSUME Shape, swap.chain \in PlainChains, NEW conf, NEW first, FromBuild(swap, conf, first),
         NEW isServer2, NEW view2, ViewOK(swap, view2), NEW mem2, swap.chain = "cosmos" => MemKnows(swap, mem2),
         NEW again, again = BuildRawTransaction(ArgsWith(conf), isServer2, view2, first.extra, mem2),
         again.err = "nil"
  PROVE  SameTx(again, first)
<1> DEFINE args == ArgsWith(conf)
           number == world.account
<1>1. args.chain = swap.chain /\ args.cfg = swap.cfg
  BY ArgsAreTheSwap DEF SwapFields
<1>2. PICK view, extra, mem, isServer :
        /\ ViewOK(swap, view) /\ ExtraOK(extra)
        /\ swap.chain = "cosmos" => MemKnows(swap, mem)
        /\ first = BuildRawTransaction(args, isServer, view, extra, mem) /\ first.err = "nil"
  BY DEF FromBuild, ArgsWith
<1>3. again = BuildRawTransaction(args, isServer2, view2, first.extra, mem2)
  OBVIOUS
<1> HIDE DEF args
<1>4. ExtraOK(extra) /\ IsExtra(extra)
  BY <1>2 DEF ExtraOK
<1>5. CASE args.chain = "aptos"
  <2>1. args.cfg.fixedPrice \in OptNat /\ args.cfg.maxGas \in Nat
    BY <1>1, <1>5, OtherAssumption DEF Shape, OptNat
  <2>2. view.clock # Nil /\ view.price \in OptNat
    BY <1>2 DEF ViewOK
  <2>3. /\ IsBuild(first, AptosBuildRawTransaction(args, isServer, view, extra, mem))
        /\ IsBuild(again, AptosBuildRawTransaction(args, isServer2, view2, first.extra, mem2))
    BY <1>2, <1>3, <1>5 DEF BuildRawTransaction, IsBuild
  <2> QED BY <1>4, <2>1, <2>2, <2>3, AptosAgain
<1>6. CASE args.chain = "near"
  <2>1. /\ IsBuild(first, NearBuildRawTransaction(args, isServer, view, extra, mem))
        /\ IsBuild(again, NearBuildRawTransaction(args, isServer2, view2, first.extra, mem2))
    BY <1>2, <1>3, <1>6 DEF BuildRawTransaction, IsBuild
  <2> QED BY <1>4, <2>1, NearAgain
<1>7. CASE args.chain = "flow"
  <2>1. Reports(view, number) /\ Reports(view2, number)
    BY <1>1, <1>2, <1>7 DEF ViewOK, Shape, Reports
  <2>2. /\ IsBuild(first, FlowBuildRawTransaction(args, isServer, view, extra, mem))
        /\ IsBuild(again, FlowBuildRawTransaction(args, isServer2, view2, first.extra, mem2))
    BY <1>2, <1>3, <1>7 DEF BuildRawTransaction, IsBuild
  <2> QED BY <1>4, <2>1, <2>2, FlowAgain
<1>8. CASE args.chain = "ripple"
  <2>1. /\ IsBuild(first, RippleBuildRawTransaction(args, isServer, view, extra, mem))
        /\ IsBuild(again, RippleBuildRawTransaction(args, isServer2, view2, first.extra, mem2))
    BY <1>2, <1>3, <1>8 DEF BuildRawTransaction, IsBuild
  <2> QED BY <1>4, <2>1, RippleAgain
<1>9. CASE args.chain = "solana"
  <2>1. /\ IsBuild(first, SolanaBuildRawTransaction(args, isServer, view, extra, mem))
        /\ IsBuild(again, SolanaBuildRawTransaction(args, isServer2, view2, first.extra, mem2))
    BY <1>2, <1>3, <1>9 DEF BuildRawTransaction, IsBuild
  <2> QED BY <1>4, <2>1, SolanaAgain
<1>10. CASE args.chain = "tron"
  <2>1. /\ IsBuild(first, TronBuildRawTransaction(args, isServer, view, extra, mem))
        /\ IsBuild(again, TronBuildRawTransaction(args, isServer2, view2, first.extra, mem2))
    BY <1>2, <1>3, <1>10 DEF BuildRawTransaction, IsBuild
  <2> QED BY <1>4, <2>1, TronAgain
<1>11. CASE args.chain = "reef"
  <2>1. /\ IsBuild(first, ReefBuildRawTransaction(args, isServer, view, extra, mem))
        /\ IsBuild(again, ReefBuildRawTransaction(args, isServer2, view2, first.extra, mem2))
    BY <1>2, <1>3, <1>11 DEF BuildRawTransaction, IsBuild
  <2> QED BY <1>4, <2>1, ReefAgain
<1>12. CASE args.chain = "cosmos"
  <2>1. Reports(view, number) /\ Reports(view2, number)
    BY <1>1, <1>2, <1>12 DEF ViewOK, Shape, Reports
  <2>2. Knows(number, mem) /\ Knows(number, mem2)
    BY <1>1, <1>2, <1>12 DEF MemKnows, Shape
  <2>3. CosmosOK(args.cfg)
    BY <1>1, <1>12, OtherAssumption DEF Shape, CosmosOK
  <2>4. /\ IsBuild(first, CosmosBuildRawTransaction(args, isServer, view, extra, mem))
        /\ IsBuild(again, CosmosBuildRawTransaction(args, isServer2, view2, first.extra, mem2))
    BY <1>2, <1>3, <1>12 DEF BuildRawTransaction, IsBuild
  <2> QED BY <1>4, <2>1, <2>2, <2>3, <2>4, CosmosAgain
<1> QED BY <1>1, <1>5, <1>6, <1>7, <1>8, <1>9, <1>10, <1>11, <1>12 DEF PlainChains, Chains, SensitiveToTheChain

\* As long as the account keeps its number and key: a node with the configuration the server built
\* with never finds another transaction than an honest server asks for, on any chain whose adapter
\* does not choose outputs or ask for the sequence again, although prices, nonces, blocks and fees
\* change between the two builds (rebuildAndVerifyMsgHash, VerifyMsgHash).
THEOREM HonestRequestIsAgreedHolds == ASSUME AccountsStay PROVE Spec => HonestRequestIsAgreed
<1> DEFINE Step ==
      node.answer = "none" /\ node'.answer = "mismatch"
      => server.pair # node.conf \/ swap.chain \in SensitiveToTheChain
<1>1. Shape /\ LimitInv /\ RequestInv /\ [Next]_vars => [Step]_vars
  <2> SUFFICES ASSUME Shape, LimitInv, RequestInv, [Next]_vars, node.answer = "none", node'.answer = "mismatch",
                      server.pair = node.conf, swap.chain \notin SensitiveToTheChain
               PROVE  FALSE
    OBVIOUS
  <2>1. NodeVerify
    BY VerifyStep
  <2>2. server.pc # "idle"
    BY <2>1 DEF NodeVerify
  <2>3. PICK view \in Views : NodeAnswer(NodeBuilds(view)) = "mismatch"
    BY VerifyStep
  <2>4. PICK no : no = FALSE
    OBVIOUS
  <2> DEFINE args == ArgsWith(server.pair)
             again == BuildRawTransaction(args, no, view, server.built.extra, node.mem)
  <2>5. again.err = "nil" /\ ~VerifyMsgHash(again.tx[1], server.built.tx[1])
    BY <2>3, <2>4 DEF NodeAnswer, NodeBuilds
  <2>6. SameTx(again, server.built)
    <3>1. CASE swap.chain = "eth"
      <4>1. args.chain = "eth" /\ args.cfg = swap.cfg
        BY <3>1, SwapIsEvm
      <4>2. server.built.err = "nil" /\ BuiltWithin(args.cfg, BuildInput(args), server.built)
        BY <2>2, <3>1, <4>1 DEF LimitInv, InputOf, ArgsWith
      <4>3. IsBuild(again, EthBuildRawTransaction(args, no, view, server.built.extra, node.mem))
        BY <2>5, <4>1 DEF BuildRawTransaction, IsBuild
      <4> HIDE DEF again, args
      <4> QED BY <2>5, <4>2, <4>3, EthAgain
    <3>2. CASE swap.chain # "eth"
      <4>1. swap.chain \in PlainChains
        BY <3>2, SwapAssumption DEF Shape, PlainChains
      <4>2. FromBuild(swap, server.pair, server.built) /\ (swap.chain = "cosmos" => MemKnows(swap, node.mem))
        BY <2>2, <4>1 DEF RequestInv
      <4>3. ViewOK(swap, view)
        BY ViewsAreOK
      <4> QED BY <2>5, <4>1, <4>2, <4>3, BuiltAgain
    <3> QED BY <3>1, <3>2
  <2>7. \A tx : VerifyMsgHash(tx, tx)
    BY DEF VerifyMsgHash, AptosVerifyMsgHash, BtcVerifyMsgHash, CosmosVerifyMsgHash,
      FlowVerifyMsgHash, IotaVerifyMsgHash, NearVerifyMsgHash, ReefVerifyMsgHash, RippleVerifyMsgHash,
      SolanaVerifyMsgHash, StellarVerifyMsgHash, TronVerifyMsgHash, EthVerifyMsgHash, SensitiveToTheChain
  <2> HIDE DEF again
  <2> QED BY <2>5, <2>6, <2>7 DEF SameTx
<1>2. Spec => [][Step]_vars
  BY <1>1, ShapeHolds, LimitInvHolds, RequestInvHolds, PTL DEF Spec
<1> QED BY <1>2 DEF HonestRequestIsAgreed

-----------------------------------------------------------------------------
(* Sums of outputs *)

\* Outputs with a value.
Valued(T) == \A out \in T : out.value \in Nat

\* A property of 0 that each number below n passes on to the next holds up to n.  (S is
\* the set of numbers that have it.)
LEMMA UpTo ==
  ASSUME NEW n \in Nat, NEW S, 0 \in S, \A k \in 0 .. n : k \in S /\ k < n => k + 1 \in S
  PROVE  \A k \in 0 .. n : k \in S
<1> DEFINE bad == {k \in 0 .. n : k \notin S}
<1> SUFFICES ASSUME bad # {} PROVE FALSE
  OBVIOUS
<1>1. Min(bad) \in bad /\ \A y \in bad : Min(bad) <= y
  BY LeastNatural
<1> DEFINE m == Min(bad)
<1>2. m \in 1 .. n /\ m - 1 \in 0 .. n /\ m - 1 \notin bad
  BY <1>1
<1> QED BY <1>1, <1>2

\* A set of numbers up to n has a greatest element, which is its Max.
LEMMA GreatestNatural ==
  ASSUME NEW n \in Nat, NEW S \in SUBSET (1 .. n), S # {}
  PROVE  Max(S) \in S /\ \A y \in S : y <= Max(S)
<1> DEFINE above == {k \in Nat : \A y \in S : y <= k}
<1>1. n \in above
  OBVIOUS
<1>2. Min(above) \in above /\ \A y \in above : Min(above) <= y
  BY <1>1, LeastNatural
<1> DEFINE m == Min(above)
<1>3. m \in S
  <2> SUFFICES ASSUME m \notin S PROVE FALSE
    OBVIOUS
  <2>1. PICK y \in S : TRUE
    OBVIOUS
  <2>2. m - 1 \in above
    BY <1>2, <2>1
  <2> QED BY <1>2, <2>2
<1>4. \E x \in S : \A y \in S : x >= y
  BY <1>2, <1>3
<1>5. Max(S) \in S /\ \A y \in S : Max(S) >= y
  BY <1>4, Zenon DEF Max
<1> QED BY <1>5

\* The sets of indexes get smaller.
LEMMA LastOff ==
  ASSUME NEW n \in Nat, NEW s \in SUBSET (1 .. n + 1), s # {}
  PROVE  Max(s) \in 1 .. n + 1 /\ s \ {Max(s)} \in SUBSET (1 .. n)
<1>1. n + 1 \in Nat
  OBVIOUS
<1>2. Max(s) \in s /\ \A y \in s : y <= Max(s)
  BY <1>1, GreatestNatural
<1>3. \A y \in s : y \in 1 .. n + 1
  OBVIOUS
<1>4. ASSUME NEW m \in s, \A y \in s : y <= m, NEW y \in s, y # m PROVE y \in 1 .. n
  <2>1. y \in 1 .. n + 1 /\ m \in 1 .. n + 1 /\ y <= m
    BY <1>3, <1>4
  <2> QED BY <1>4, <2>1
<1> QED BY <1>2, <1>3, <1>4

\* The interval as a whole: its greatest number is taken off.
LEMMA AllUpTo ==
  ASSUME NEW n \in Nat
  PROVE  Max(1 .. n + 1) = n + 1 /\ (1 .. n + 1) \ {Max(1 .. n + 1)} = 1 .. n /\ 1 .. n + 1 # {}
<1> DEFINE s == 1 .. n + 1
           m == Max(s)
<1>1. n + 1 \in Nat /\ n + 1 \in s /\ s \in SUBSET (1 .. n + 1)
  OBVIOUS
<1>2. m \in s /\ \A y \in s : y <= m
  BY <1>1, GreatestNatural
<1> HIDE DEF m
<1>3. m = n + 1
  BY <1>1, <1>2
<1>4. s \ {n + 1} = 1 .. n
  OBVIOUS
<1> QED BY <1>1, <1>3, <1>4 DEF m

\* A loop over the first n elements of a sequence, step[k] being what the k-th one makes of
\* the result so far: the function that FoldLeft defines recursively.
IsRun(step, base, n, f) ==
  f = [s \in SUBSET (1 .. n) |-> IF s = {} THEN base ELSE step[Max(s)][f[s \ {Max(s)}]]]

\* The function exists, and its values are those the loop can have.
LEMMA RunExists ==
  ASSUME NEW n \in Nat, NEW V, NEW base \in V, NEW step \in [1 .. n -> [V -> V]]
  PROVE  \E f \in [SUBSET (1 .. n) -> V] : IsRun(step, base, n, f)
<1> DEFINE Exists(k) == \E f \in [SUBSET (1 .. k) -> V] : IsRun(step, base, k, f)
           S == {k \in 0 .. n : Exists(k)}
<1>1. 0 \in S
  <2> DEFINE f == [s \in SUBSET (1 .. 0) |-> base]
  <2>1. \A s \in SUBSET (1 .. 0) : s = {}
    OBVIOUS
  <2>2. f = [s \in SUBSET (1 .. 0) |-> IF s = {} THEN base ELSE step[Max(s)][f[s \ {Max(s)}]]]
    BY <2>1
  <2>3. f \in [SUBSET (1 .. 0) -> V]
    OBVIOUS
  <2> HIDE DEF f
  <2>4. IsRun(step, base, 0, f)
    BY <2>2 DEF IsRun
  <2>5. Exists(0)
    BY <2>3, <2>4
  <2> HIDE DEF Exists
  <2> QED BY <2>5
<1>2. ASSUME NEW k \in 0 .. n, k \in S, k < n PROVE k + 1 \in S
  <2>1. PICK f \in [SUBSET (1 .. k) -> V] : IsRun(step, base, k, f)
    BY <1>2
  <2> DEFINE g == [s \in SUBSET (1 .. k + 1) |-> IF s = {} THEN base ELSE step[Max(s)][f[s \ {Max(s)}]]]
  <2>2. ASSUME NEW s \in SUBSET (1 .. k) PROVE g[s] = f[s]
    <3>1. s \in SUBSET (1 .. k + 1)
      OBVIOUS
    <3> QED BY <2>1, <3>1 DEF IsRun
  <2>3. \A s \in SUBSET (1 .. k + 1) :
          s # {} => Max(s) \in 1 .. k + 1 /\ s \ {Max(s)} \in SUBSET (1 .. k)
    BY <1>2, LastOff, k \in Nat
  <2>4. g = [s \in SUBSET (1 .. k + 1) |-> IF s = {} THEN base ELSE step[Max(s)][g[s \ {Max(s)}]]]
    BY <2>2, <2>3
  <2>5. ASSUME NEW s \in SUBSET (1 .. k + 1) PROVE g[s] \in V
    <3>1. CASE s = {}
      BY <3>1
    <3>2. CASE s # {}
      <4>1. Max(s) \in 1 .. n /\ f[s \ {Max(s)}] \in V
        BY <1>2, <2>3, <3>2
      <4> QED BY <3>2, <4>1
    <3> QED BY <3>1, <3>2
  <2>6. g \in [SUBSET (1 .. k + 1) -> V]
    BY <2>5
  <2> HIDE DEF g
  <2>7. IsRun(step, base, k + 1, g)
    BY <2>4 DEF IsRun
  <2>8. Exists(k + 1)
    BY <2>6, <2>7
  <2> HIDE DEF Exists
  <2> QED BY <1>2, <2>8
<1> HIDE DEF S
<1>3. \A k \in 0 .. n : k \in S
  BY <1>1, <1>2, UpTo
<1> HIDE DEF Exists
<1>4. Exists(n)
  BY <1>3 DEF S
<1> QED BY <1>4 DEF Exists

\* One element after the other.
LEMMA RunGrows ==
  ASSUME NEW n \in Nat, NEW base, NEW step, NEW f, IsRun(step, base, n, f)
  PROVE  /\ f[1 .. 0] = base
         /\ \A k \in 0 .. n : k < n => f[1 .. k + 1] = step[k + 1][f[1 .. k]]
<1>1. f[1 .. 0] = base
  <2>1. 1 .. 0 = {} /\ {} \in SUBSET (1 .. n)
    OBVIOUS
  <2> QED BY <2>1 DEF IsRun
<1>2. ASSUME NEW k \in 0 .. n, k < n PROVE f[1 .. k + 1] = step[k + 1][f[1 .. k]]
  <2> DEFINE s == 1 .. k + 1
  <2>1. s \in SUBSET (1 .. n) /\ s # {} /\ Max(s) = k + 1 /\ s \ {Max(s)} = 1 .. k
    <3>1. k \in Nat /\ k + 1 \in 1 .. n /\ 1 .. k + 1 \in SUBSET (1 .. n)
      BY <1>2
    <3> QED BY <3>1, AllUpTo
  <2> HIDE DEF s
  <2>2. f[s] = step[Max(s)][f[s \ {Max(s)}]]
    BY <2>1 DEF IsRun
  <2> QED BY <2>1, <2>2 DEF s
<1> QED BY <1>1, <1>2

\* The value of an output added to a sum.
Adding(outs) == [k \in 1 .. Len(outs) |-> [sum \in Nat |-> sum + outs[k].value]]

\* The totals of the first outputs of a list, of none to all of them.
IsTotals(outs, r) == r[0] = 0 /\ \A k \in 1 .. Len(outs) : r[k] = r[k - 1] + outs[k].value

\* Total adds one output after the other.
LEMMA TotalsExist ==
  ASSUME NEW T, Valued(T), NEW outs \in Seq(T)
  PROVE  \E r \in [0 .. Len(outs) -> Nat] : IsTotals(outs, r) /\ Total(outs) = r[Len(outs)]
<1> DEFINE n == Len(outs)
           iter == CHOOSE f : f = [s \in SUBSET DOMAIN outs |->
                     IF s = {} THEN 0 ELSE f[s \ {Max(s)}] + outs[Max(s)].value]
<1>1. Total(outs) = iter[DOMAIN outs]
  BY DEF Total, FoldLeft, MapThenFoldSet
<1>2. DOMAIN outs = 1 .. n /\ n \in Nat /\ \A k \in 1 .. n : outs[k] \in T
  OBVIOUS
<1>3. \A k \in 1 .. n : outs[k].value \in Nat
  BY <1>2 DEF Valued
<1>4. Adding(outs) \in [1 .. n -> [Nat -> Nat]]
  BY <1>3 DEF Adding
<1>5. PICK f \in [SUBSET (1 .. n) -> Nat] : IsRun(Adding(outs), 0, n, f)
  BY <1>2, <1>4, RunExists
<1>6. f[1 .. 0] = 0 /\ \A k \in 0 .. n : k < n => f[1 .. k + 1] = Adding(outs)[k + 1][f[1 .. k]]
  <2>1. f[1 .. 0] = 0
    BY <1>2, <1>5, RunGrows
  <2>2. ASSUME NEW k \in 0 .. n, k < n PROVE f[1 .. k + 1] = Adding(outs)[k + 1][f[1 .. k]]
    BY <1>2, <1>5, <2>2, RunGrows
  <2> QED BY <2>1, <2>2
<1>7. f = [s \in SUBSET DOMAIN outs |-> IF s = {} THEN 0 ELSE f[s \ {Max(s)}] + outs[Max(s)].value]
  <2>1. ASSUME NEW s \in SUBSET (1 .. n), s # {}
        PROVE  Adding(outs)[Max(s)][f[s \ {Max(s)}]] = f[s \ {Max(s)}] + outs[Max(s)].value
    <3>1. Max(s) \in 1 .. n /\ f[s \ {Max(s)}] \in Nat
      BY <1>2, <2>1, GreatestNatural
    <3> QED BY <3>1 DEF Adding
  <2> QED BY <1>2, <1>5, <2>1 DEF IsRun
<1>8. iter = [s \in SUBSET DOMAIN outs |->
                IF s = {} THEN 0 ELSE iter[s \ {Max(s)}] + outs[Max(s)].value]
  BY <1>7, Zenon
<1> HIDE DEF n, iter
<1> DEFINE S == {k \in 0 .. n : iter[1 .. k] = f[1 .. k]}
<1>9. 0 \in S
  <2>1. 1 .. 0 = {} /\ {} \in SUBSET DOMAIN outs
    OBVIOUS
  <2>2. iter[{}] = 0
    BY <1>8, <2>1
  <2> QED BY <1>2, <1>6, <2>1, <2>2
<1>10. ASSUME NEW k \in 0 .. n, k \in S, k < n PROVE k + 1 \in S
  <2> DEFINE s == 1 .. k + 1
  <2>1. k \in Nat /\ k + 1 \in 1 .. n /\ s \in SUBSET DOMAIN outs
    BY <1>2, <1>10
  <2>2. s # {} /\ Max(s) = k + 1 /\ s \ {Max(s)} = 1 .. k
    BY <2>1, AllUpTo
  <2>3. f[1 .. k + 1] = Adding(outs)[k + 1][f[1 .. k]]
    BY <1>6, <1>10
  <2>4. f[1 .. k] \in Nat /\ k + 1 \in 1 .. Len(outs)
    BY <1>2, <2>1 DEF n
  <2>5. f[s] = f[1 .. k] + outs[k + 1].value
    BY <2>3, <2>4 DEF Adding
  <2> HIDE DEF s
  <2>6. iter[s] = iter[1 .. k] + outs[k + 1].value
    BY <1>8, <2>1, <2>2
  <2> QED BY <1>10, <2>1, <2>5, <2>6 DEF s
<1> HIDE DEF S
<1>11. n \in S
  <2>1. \A k \in 0 .. n : k \in S
    BY <1>2, <1>9, <1>10, UpTo
  <2> QED BY <1>2, <2>1
<1> DEFINE r == [k \in 0 .. n |-> f[1 .. k]]
<1>12. ASSUME NEW k \in 1 .. n PROVE f[1 .. k] = f[1 .. k - 1] + outs[k].value
  <2>1. k - 1 \in 0 .. n /\ k - 1 < n /\ (k - 1) + 1 = k
    BY <1>2
  <2>2. f[1 .. k] = Adding(outs)[k][f[1 .. k - 1]]
    BY <1>6, <2>1
  <2>3. f[1 .. k - 1] \in Nat /\ k \in 1 .. Len(outs)
    BY <1>2, <2>1 DEF n
  <2> QED BY <2>2, <2>3 DEF Adding
<1>13. r \in [0 .. n -> Nat]
  BY <1>2
<1>14. r[0] = 0 /\ \A k \in 1 .. n : r[k] = r[k - 1] + outs[k].value
  BY <1>2, <1>6, <1>12
<1>15. Total(outs) = r[n]
  BY <1>1, <1>2, <1>11 DEF S
<1> HIDE DEF r
<1> QED BY <1>13, <1>14, <1>15 DEF IsTotals, n

\* A sum of outputs is a number.
LEMMA TotalIsNat ==
  ASSUME NEW T, Valued(T), NEW outs \in Seq(T)
  PROVE  Total(outs) \in Nat
BY TotalsExist

\* The sum of no outputs.
LEMMA TotalOfNone == Total(<<>>) = 0
<1>1. <<>> \in Seq({}) /\ Len(<<>>) = 0 /\ Valued({})
  BY DEF Valued
<1> QED BY <1>1, TotalsExist DEF IsTotals

\* An output more adds its value.
LEMMA TotalOfAppend ==
  ASSUME NEW T, Valued(T), NEW outs \in Seq(T), NEW out \in T
  PROVE  Total(Append(outs, out)) = Total(outs) + out.value
<1> DEFINE n == Len(outs)
           more == Append(outs, out)
<1>1. PICK r \in [0 .. n -> Nat] : IsTotals(outs, r) /\ Total(outs) = r[n]
  BY TotalsExist
<1>2. more \in Seq(T) /\ Len(more) = n + 1 /\ n \in Nat
  OBVIOUS
<1>3. PICK q \in [0 .. Len(more) -> Nat] : IsTotals(more, q) /\ Total(more) = q[Len(more)]
  BY <1>2, TotalsExist
<1>4. more[n + 1] = out /\ \A k \in 1 .. n : more[k] = outs[k]
  OBVIOUS
<1>5. q[0] = 0 /\ \A k \in 1 .. n + 1 : q[k] = q[k - 1] + more[k].value
  BY <1>2, <1>3 DEF IsTotals
<1>6. r[0] = 0 /\ \A k \in 1 .. n : r[k] = r[k - 1] + outs[k].value
  BY <1>1 DEF IsTotals
<1> DEFINE S == {k \in 0 .. n : q[k] = r[k]}
<1> HIDE DEF n, more
<1>7. 0 \in S
  BY <1>2, <1>5, <1>6
<1>8. ASSUME NEW k \in 0 .. n, k \in S, k < n PROVE k + 1 \in S
  <2>1. k + 1 \in 1 .. n /\ k + 1 \in 1 .. n + 1 /\ (k + 1) - 1 = k
    BY <1>2, <1>8
  <2>2. more[k + 1] = outs[k + 1]
    BY <1>4, <2>1
  <2>3. q[k + 1] = q[k] + more[k + 1].value /\ r[k + 1] = r[k] + outs[k + 1].value
    BY <1>5, <1>6, <2>1
  <2> QED BY <1>8, <2>1, <2>2, <2>3
<1> HIDE DEF S
<1>9. n \in S
  <2>1. \A k \in 0 .. n : k \in S
    BY <1>2, <1>7, <1>8, UpTo
  <2> QED BY <1>2, <2>1
<1>10. q[n + 1] = q[n] + more[n + 1].value
  BY <1>2, <1>5
<1> QED BY <1>1, <1>2, <1>3, <1>4, <1>9, <1>10 DEF S, more
-----------------------------------------------------------------------------
(* What is spent *)

\* The outputs that are kept are outputs of the list.
LEMMA SpendableIsSeq ==
  ASSUME NEW T, NEW view, view.utxos \in Seq(T)
  PROVE  BtcSpendable(view) \in Seq(T)
<1> DEFINE outs == view.utxos
           n == Len(outs)
           Kept(k, kept) == IF outs[k].good /\ outs[k].value > 0 THEN Append(kept, outs[k]) ELSE kept
           step == [k \in 1 .. n |-> [kept \in Seq(T) |-> Kept(k, kept)]]
           iter == CHOOSE f : f = [s \in SUBSET DOMAIN outs |->
                     IF s = {} THEN <<>> ELSE Kept(Max(s), f[s \ {Max(s)}])]
<1>1. BtcSpendable(view) = iter[DOMAIN outs]
  BY DEF BtcSpendable, BtcKeep, FoldLeft, MapThenFoldSet
<1>2. DOMAIN outs = 1 .. n /\ n \in Nat /\ \A k \in 1 .. n : outs[k] \in T
  OBVIOUS
<1>3. \A k \in 1 .. n, kept \in Seq(T) : Kept(k, kept) \in Seq(T)
  BY <1>2
<1> HIDE DEF Kept
<1>4. step \in [1 .. n -> [Seq(T) -> Seq(T)]]
  BY <1>3
<1>5. PICK f \in [SUBSET (1 .. n) -> Seq(T)] : IsRun(step, <<>>, n, f)
  <2>1. <<>> \in Seq(T)
    OBVIOUS
  <2> HIDE DEF step
  <2> QED BY <1>2, <1>4, <2>1, RunExists
<1>6. f = [s \in SUBSET DOMAIN outs |-> IF s = {} THEN <<>> ELSE Kept(Max(s), f[s \ {Max(s)}])]
  <2>1. ASSUME NEW s \in SUBSET (1 .. n), s # {}
        PROVE  step[Max(s)][f[s \ {Max(s)}]] = Kept(Max(s), f[s \ {Max(s)}])
    <3>1. Max(s) \in 1 .. n /\ f[s \ {Max(s)}] \in Seq(T)
      BY <1>2, <2>1, GreatestNatural
    <3> QED BY <3>1
  <2> HIDE DEF step
  <2> QED BY <1>2, <1>5, <2>1 DEF IsRun
<1>7. iter = [s \in SUBSET DOMAIN outs |-> IF s = {} THEN <<>> ELSE Kept(Max(s), iter[s \ {Max(s)}])]
  BY <1>6, Zenon
<1> HIDE DEF outs, n, iter, step
<1> DEFINE S == {k \in 0 .. n : iter[1 .. k] \in Seq(T)}
<1>8. 0 \in S
  <2>1. 1 .. 0 = {} /\ {} \in SUBSET DOMAIN outs /\ <<>> \in Seq(T)
    OBVIOUS
  <2> QED BY <1>2, <1>7, <2>1
<1>9. ASSUME NEW k \in 0 .. n, k \in S, k < n PROVE k + 1 \in S
  <2> DEFINE s == 1 .. k + 1
  <2>1. k \in Nat /\ k + 1 \in 1 .. n /\ s \in SUBSET DOMAIN outs
    BY <1>2, <1>9
  <2>2. s # {} /\ Max(s) = k + 1 /\ s \ {Max(s)} = 1 .. k
    BY <2>1, AllUpTo
  <2> HIDE DEF s
  <2>3. iter[s] = Kept(k + 1, iter[1 .. k])
    BY <1>7, <2>1, <2>2
  <2> QED BY <1>3, <1>9, <2>1, <2>3 DEF s
<1> HIDE DEF S
<1>10. n \in S
  <2>1. \A k \in 0 .. n : k \in S
    BY <1>2, <1>8, <1>9, UpTo
  <2> QED BY <1>2, <2>1
<1> QED BY <1>1, <1>2, <1>10 DEF S

\* What has been selected pays for the amount, up to what is still needed, or needed to make
\* the change large enough; and in the end it leaves no change or enough of it.
Covered(amount, sel) ==
  IF sel.done THEN Total(sel.inputs) = amount + sel.change /\ (sel.change = 0 \/ sel.change >= KeepAlive)
  ELSE IF sel.finish THEN Total(sel.inputs) = amount + sel.need
  ELSE Total(sel.inputs) = amount - sel.need

Selections(T, amount) ==
  {sel \in [inputs : Seq(T), need : Int, finish : BOOLEAN, change : Int, done : BOOLEAN] : Covered(amount, sel)}

\* One output more keeps it so.
LEMMA SpendCovers ==
  ASSUME NEW T, Valued(T), NEW amount \in Int, NEW sel \in Selections(T, amount), NEW out \in T
  PROVE  IotaSpend(sel, out) \in Selections(T, amount)
<1> DEFINE more == Append(sel.inputs, out)
           short == ~sel.finish /\ out.value < sel.need
           change == IF sel.finish THEN out.value + sel.need ELSE out.value - sel.need
<1>1. /\ sel \in [inputs : Seq(T), need : Int, finish : BOOLEAN, change : Int, done : BOOLEAN]
      /\ Covered(amount, sel)
  BY DEF Selections
<1>2. more \in Seq(T) /\ Total(more) = Total(sel.inputs) + out.value /\ Total(sel.inputs) \in Nat
  BY <1>1, TotalOfAppend, TotalIsNat
<1>3. out.value \in Nat /\ change \in Int /\ KeepAlive \in Nat
  BY <1>1, OutputAssumption DEF Valued
<1>4. CASE sel.done \/ ~out.good
  BY <1>4 DEF IotaSpend
<1>5. CASE ~sel.done /\ out.good
  <2>1. CASE short
    <3> DEFINE need == sel.need - out.value
               new == [sel EXCEPT !.inputs = more, !.need = need]
    <3>1. IotaSpend(sel, out) = new
      BY <1>5, <2>1 DEF IotaSpend
    <3>2. new \in [inputs : Seq(T), need : Int, finish : BOOLEAN, change : Int, done : BOOLEAN]
      <4>1. need \in Int
        BY <1>1, <1>3
      <4> HIDE DEF need, more
      <4> QED BY <1>1, <1>2, <4>1
    <3>3. new.inputs = more /\ new.need = sel.need - out.value /\ new.finish = sel.finish /\ new.done = sel.done
      BY <1>1
    <3> HIDE DEF new, more
    <3>4. Covered(amount, new)
      BY <1>1, <1>2, <1>3, <1>5, <2>1, <3>3 DEF Covered
    <3> QED BY <3>1, <3>2, <3>4 DEF Selections
  <2>2. CASE ~short /\ (change = 0 \/ change >= KeepAlive)
    <3> DEFINE new == [sel EXCEPT !.inputs = more, !.change = change, !.done = TRUE]
    <3>1. IotaSpend(sel, out) = new
      BY <1>5, <2>2 DEF IotaSpend
    <3>2. new \in [inputs : Seq(T), need : Int, finish : BOOLEAN, change : Int, done : BOOLEAN]
      BY <1>1, <1>2, <1>3
    <3>3. new.inputs = more /\ new.change = change /\ new.done = TRUE
      BY <1>1
    <3> HIDE DEF new, more
    <3>4. Covered(amount, new)
      BY <1>1, <1>2, <1>3, <1>5, <2>2, <3>3 DEF Covered
    <3> QED BY <3>1, <3>2, <3>4 DEF Selections
  <2>3. CASE ~short /\ ~(change = 0 \/ change >= KeepAlive)
    <3> DEFINE new == [sel EXCEPT !.inputs = more, !.need = change, !.finish = TRUE]
    <3>1. IotaSpend(sel, out) = new
      BY <1>5, <2>3 DEF IotaSpend
    <3>2. new \in [inputs : Seq(T), need : Int, finish : BOOLEAN, change : Int, done : BOOLEAN]
      BY <1>1, <1>2, <1>3
    <3>3. new.inputs = more /\ new.need = change /\ new.finish = TRUE /\ new.done = sel.done
      BY <1>1
    <3> HIDE DEF new, more
    <3>4. Covered(amount, new)
      BY <1>1, <1>2, <1>3, <1>5, <2>3, <3>3 DEF Covered
    <3> QED BY <3>1, <3>2, <3>4 DEF Selections
  <2> QED BY <2>1, <2>2, <2>3
<1> QED BY <1>4, <1>5

\* So does the loop over all outputs.
LEMMA SelectionCovers ==
  ASSUME NEW T, Valued(T), NEW outs \in Seq(T), NEW amount \in Int
  PROVE  FoldLeft(IotaSpend, IotaSelection(amount), outs) \in Selections(T, amount)
<1> DEFINE n == Len(outs)
           V == Selections(T, amount)
           base == IotaSelection(amount)
           step == [k \in 1 .. n |-> [sel \in V |-> IotaSpend(sel, outs[k])]]
           iter == CHOOSE f : f = [s \in SUBSET DOMAIN outs |->
                     IF s = {} THEN base ELSE IotaSpend(f[s \ {Max(s)}], outs[Max(s)])]
<1>1. FoldLeft(IotaSpend, IotaSelection(amount), outs) = iter[DOMAIN outs]
  BY DEF FoldLeft, MapThenFoldSet
<1>2. DOMAIN outs = 1 .. n /\ n \in Nat /\ \A k \in 1 .. n : outs[k] \in T
  OBVIOUS
<1>3. base \in V
  <2>1. base.inputs = <<>> /\ base.need = amount /\ base.finish = FALSE /\ base.done = FALSE
    BY DEF IotaSelection
  <2>2. base \in [inputs : Seq(T), need : Int, finish : BOOLEAN, change : Int, done : BOOLEAN]
    BY DEF IotaSelection
  <2> HIDE DEF base
  <2>3. Covered(amount, base)
    BY <2>1, TotalOfNone DEF Covered
  <2> QED BY <2>2, <2>3 DEF Selections
<1> HIDE DEF V, base
<1>4. \A k \in 1 .. n, sel \in V : IotaSpend(sel, outs[k]) \in V
  BY <1>2, SpendCovers DEF V
<1>5. step \in [1 .. n -> [V -> V]]
  BY <1>4
<1>6. PICK f \in [SUBSET (1 .. n) -> V] : IsRun(step, base, n, f)
  <2> HIDE DEF step
  <2> QED BY <1>2, <1>3, <1>5, RunExists
<1>7. f = [s \in SUBSET DOMAIN outs |-> IF s = {} THEN base ELSE IotaSpend(f[s \ {Max(s)}], outs[Max(s)])]
  <2>1. ASSUME NEW s \in SUBSET (1 .. n), s # {}
        PROVE  step[Max(s)][f[s \ {Max(s)}]] = IotaSpend(f[s \ {Max(s)}], outs[Max(s)])
    <3>1. Max(s) \in 1 .. n /\ f[s \ {Max(s)}] \in V
      BY <1>2, <2>1, GreatestNatural
    <3> QED BY <3>1
  <2> HIDE DEF step
  <2> QED BY <1>2, <1>6, <2>1 DEF IsRun
<1>8. iter = [s \in SUBSET DOMAIN outs |-> IF s = {} THEN base ELSE IotaSpend(iter[s \ {Max(s)}], outs[Max(s)])]
  BY <1>7, Zenon
<1> HIDE DEF n, iter, step
<1> DEFINE S == {k \in 0 .. n : iter[1 .. k] \in V}
<1>9. 0 \in S
  <2>1. 1 .. 0 = {} /\ {} \in SUBSET DOMAIN outs
    OBVIOUS
  <2> QED BY <1>2, <1>3, <1>8, <2>1
<1>10. ASSUME NEW k \in 0 .. n, k \in S, k < n PROVE k + 1 \in S
  <2> DEFINE s == 1 .. k + 1
  <2>1. k \in Nat /\ k + 1 \in 1 .. n /\ s \in SUBSET DOMAIN outs
    BY <1>2, <1>10
  <2>2. s # {} /\ Max(s) = k + 1 /\ s \ {Max(s)} = 1 .. k
    BY <2>1, AllUpTo
  <2> HIDE DEF s
  <2>3. iter[s] = IotaSpend(iter[1 .. k], outs[k + 1])
    BY <1>8, <2>1, <2>2
  <2> QED BY <1>4, <1>10, <2>1, <2>3 DEF s
<1> HIDE DEF S
<1>11. n \in S
  <2>1. \A k \in 0 .. n : k \in S
    BY <1>2, <1>9, <1>10, UpTo
  <2> QED BY <1>2, <2>1
<1> QED BY <1>1, <1>2, <1>11 DEF S, V

-----------------------------------------------------------------------------
(* Payouts of Bitcoin and Iota add up *)

\* The property of one transaction, on a chain.
AddsUp(chain, tx) ==
  /\ chain = "btc" =>
       Total(tx.inputs) >= tx.amount + tx.change + Fee(tx.rate, TxSize + Len(tx.inputs) * InputSize)
  /\ chain = "iota" =>
       /\ Total(tx.inputs) = tx.amount + tx.change
       /\ tx.amount >= KeepAlive
       /\ tx.change = 0 \/ tx.change >= KeepAlive

\* Answers of the gateways that list outputs.
ListsOutputs(view) ==
  /\ view.price \in OptNat
  /\ \E T : Valued(T) /\ view.utxos \in Seq(T)

\* The greater of two numbers.
LEMMA MaxOfTwo ==
  ASSUME NEW a \in Int, NEW b \in Int
  PROVE  Max({a, b}) \in {a, b}
<1>1. \E x \in {a, b} : \A y \in {a, b} : x >= y
  OBVIOUS
<1> QED BY <1>1, Zenon DEF Max

\* The rate of a transaction is a number, and so is a fee.
LEMMA RateIsInt ==
  ASSUME NEW price \in Nat
  PROVE  BtcGetRelayFeePerKb(price) \in Int
<1> DEFINE plus == PlusPercent(price, PlusFeePercent)
           least == Min({MaxRelayFee, plus})
<1>1. plus \in Int /\ MaxRelayFee \in Int /\ MinRelayFee \in Int
  BY PlusPercentIsNat, OutputAssumption
<1> HIDE DEF plus
<1>2. least \in Int
  BY <1>1, MinOfTwo
<1>3. BtcGetRelayFeePerKb(price) = Max({MinRelayFee, least})
  BY DEF BtcGetRelayFeePerKb, plus
<1> HIDE DEF least
<1> QED BY <1>1, <1>2, <1>3, MaxOfTwo

\* The fee of a size is a number.
LEMMA FeeIsInt ==
  ASSUME NEW rate \in Int, NEW size \in Nat
  PROVE  Fee(rate, size) \in Int
<1>1. rate * size \in Int
  OBVIOUS
<1>2. (rate * size) \div Kb \in Int
  BY <1>1, DivMod, OutputAssumption
<1> QED BY <1>2 DEF Fee

\* What a conversion to 64 bits gives is a number.
LEMMA ConvertedIsInt ==
  ASSUME NEW x \in Nat
  PROVE  Uint64(x) \in Int /\ MaxOf(Int64(x), 0) \in Int
<1>1. MaxUint64 + 1 \in Nat \ {0} /\ MaxUint64 \in Int /\ MaxInt64 \in Int
  BY PayoutAssumption DEF MaxUint64
<1>2. Uint64(x) \in Int
  BY <1>1, DivMod DEF Uint64
<1>3. Int64(x) \in Int
  BY <1>1, <1>2 DEF Int64
<1> QED BY <1>2, <1>3 DEF MaxOf

\* Bitcoin: the first outputs that pay for the amount and the fee of spending them.
LEMMA BtcAddsUp ==
  ASSUME NEW args, SwapAmount(args) \in Nat, NEW isServer, NEW view, ListsOutputs(view), NEW extra, NEW mem,
         BtcBuildRawTransaction(args, isServer, view, extra, mem).err = "nil"
  PROVE  AddsUp("btc", BtcBuildRawTransaction(args, isServer, view, extra, mem).tx[1])
<1> DEFINE amount == MaxOf(Int64(SwapAmount(args)), 0)
           rate == BtcGetRelayFeePerKb(view.price)
           outs == BtcSpendable(view)
           enough == {k \in 1 .. Len(outs) : BtcEnough(rate, outs, k, amount)}
           n == Min(enough)
           inputs == SubSeq(outs, 1, n)
           fee == Fee(rate, TxSize + n * InputSize)
           tx == BtcNewUnsignedTransaction(args, rate, outs, amount)
<1>1. /\ BtcBuildRawTransaction(args, isServer, view, extra, mem) = Built(extra, tx, mem)
      /\ enough # {} /\ view.price # Nil
  BY DEF BtcBuildRawTransaction, Refused
<1>2. PICK T : Valued(T) /\ view.utxos \in Seq(T)
  BY DEF ListsOutputs
<1>3. outs \in Seq(T)
  BY <1>2, SpendableIsSeq
<1>4. amount \in Int
  BY ConvertedIsInt
<1>5. rate \in Int
  BY <1>1, RateIsInt DEF ListsOutputs, OptNat
<1>6. /\ tx.inputs = inputs /\ tx.amount = amount /\ tx.rate = rate
      /\ tx.change \in {0, Total(inputs) - amount - fee}
  BY DEF BtcNewUnsignedTransaction, BtcGetTxOutputs
<1> HIDE DEF outs, rate, amount
<1>7. n \in enough
  <2>1. Len(outs) \in Nat
    BY <1>3
  <2>2. enough \subseteq Nat
    BY <2>1
  <2> HIDE DEF enough
  <2> QED BY <1>1, <2>2, LeastNatural
<1>8. n \in 1 .. Len(outs) /\ BtcEnough(rate, outs, n, amount)
  BY <1>7
<1> HIDE DEF n, enough
<1>9. inputs \in Seq(T) /\ Len(inputs) = n /\ n \in Nat
  BY <1>3, <1>8
<1>10. Total(inputs) >= amount + fee
  BY <1>8 DEF BtcEnough
<1>11. Total(inputs) \in Int
  <2> HIDE DEF inputs
  <2>1. Total(inputs) \in Nat
    BY <1>2, <1>9, TotalIsNat
  <2> QED BY <2>1
<1>12. fee \in Int
  <2>1. TxSize + n * InputSize \in Nat
    BY <1>9, OutputAssumption
  <2> QED BY <1>5, <2>1, FeeIsInt
<1> HIDE DEF tx, inputs
<1>13. Total(inputs) >= amount + tx.change + fee
  <2> HIDE DEF fee
  <2>1. CASE tx.change = 0
    BY <1>4, <1>10, <1>11, <1>12, <2>1
  <2>2. CASE tx.change = Total(inputs) - amount - fee
    BY <1>4, <1>11, <1>12, <2>2
  <2> QED BY <1>6, <2>1, <2>2
<1>14. AddsUp("btc", tx)
  BY <1>6, <1>9, <1>13 DEF AddsUp
<1> QED BY <1>1, <1>14 DEF Built

\* Iota: what has been selected.
LEMMA IotaAddsUp ==
  ASSUME NEW args, SwapAmount(args) \in Nat, NEW isServer, NEW view, ListsOutputs(view), NEW extra, NEW mem,
         IotaBuildRawTransaction(args, isServer, view, extra, mem).err = "nil"
  PROVE  AddsUp("iota", IotaBuildRawTransaction(args, isServer, view, extra, mem).tx[1])
<1> DEFINE amount == Uint64(SwapAmount(args))
           sel == FoldLeft(IotaSpend, IotaSelection(amount), view.utxos)
           tx == IotaBuildMessage(args, amount, sel)
<1>1. /\ IotaBuildRawTransaction(args, isServer, view, extra, mem).tx[1] = tx
      /\ sel.done /\ IotaBalanceError(view, amount) = "nil"
  BY DEF IotaBuildRawTransaction, Refused, Built
<1>2. PICK T : Valued(T) /\ view.utxos \in Seq(T)
  BY DEF ListsOutputs
<1>3. amount \in Int
  BY ConvertedIsInt
<1> HIDE DEF amount
<1>4. sel \in Selections(T, amount)
  BY <1>2, <1>3, SelectionCovers
<1>5. amount >= KeepAlive
  BY <1>1, <1>3, OutputAssumption DEF IotaBalanceError
<1>6. tx.inputs = sel.inputs /\ tx.amount = amount /\ tx.change = sel.change
  BY DEF IotaBuildMessage
<1> HIDE DEF tx, sel
<1>7. AddsUp("iota", tx)
  BY <1>1, <1>4, <1>5, <1>6 DEF Selections, Covered, AddsUp
<1> QED BY <1>1, <1>7

\* What the processes see of the chain lists outputs.
LEMMA ViewsListOutputs ==
  ASSUME Shape, swap.chain \in {"btc", "iota"}, NEW view \in Views
  PROVE  ListsOutputs(view)
<1>1. DOMAIN world = ViewFields /\ world.price \in OptNat
  BY SwapAssumption, OtherAssumption DEF Shape, OptNat
<1>2. \E T : Valued(T) /\ world.utxos \in Seq(T)
  BY OutputAssumption DEF Shape, Valued
<1>3. CASE view = world
  BY <1>1, <1>2, <1>3 DEF ListsOutputs
<1>4. CASE \E call \in Calls : view = [world EXCEPT ![call] = Nil]
  <2>1. PICK call \in Calls : view = [world EXCEPT ![call] = Nil]
    BY <1>4
  <2>2. call # "utxos"
    BY DEF Calls
  <2>3. view.utxos = world.utxos /\ view.price \in {Nil, world.price}
    BY <1>1, <2>1, <2>2 DEF ViewFields
  <2> QED BY <1>1, <1>2, <2>3 DEF ListsOutputs, OptNat
<1>5. CASE view = [world EXCEPT !.utxos = <<>>]
  <2>1. view.price = world.price /\ view.utxos = <<>>
    BY <1>1, <1>5 DEF ViewFields
  <2>2. Valued({}) /\ <<>> \in Seq({})
    BY DEF Valued
  <2> QED BY <1>1, <2>1, <2>2 DEF ListsOutputs
<1> QED BY <1>3, <1>4, <1>5 DEF Views, FaultyViews

\* The inductive invariant: a request under way adds up as well.
OutputsInv ==
  /\ \A i \in DOMAIN signed : AddsUp(swap.chain, signed[i].tx)
  /\ server.pc # "idle" => AddsUp(swap.chain, server.built.tx[1])

\* For all chains, lists of outputs, amounts and fees: what a signed transaction of Bitcoin or Iota
\* spends pays for what it says, and no output of Iota is too small (NewUnsignedTransaction in
\* tokens/btc/buildtx.go, BuildRawTransaction in tokens/iota/buildtx.go).
THEOREM OutputsAddUpHolds == Spec => []OutputsAddUp
<1>1. Init => OutputsInv
  BY DEF Init, OutputsInv
<1>2. Shape /\ OutputsInv /\ [Next]_vars => OutputsInv'
  <2> SUFFICES ASSUME Shape, OutputsInv, [Next]_vars PROVE OutputsInv'
    OBVIOUS
  <2>1. \A conf : ArgsWith(conf).chain = swap.chain /\ ArgsWith(conf).value = swap.value
                  /\ ArgsWith(conf).whitelisted = swap.whitelisted /\ ArgsWith(conf).pair = Pairs[conf]
    BY ArgsAreTheSwap DEF SwapFields
  <2>2. ASSUME UNCHANGED swap, NEW built, AddsUp(swap.chain, built.tx[1]), NEW result,
               signed' = AddSigned(built, result)
        PROVE  \A i \in DOMAIN signed' : AddsUp(swap'.chain, signed'[i].tx)
    <3> DEFINE new == Signed(built, result.sigs)
    <3>1. new.tx = built.tx[1]
      BY DEF Signed
    <3> HIDE DEF new
    <3>2. CASE signed' = signed
      BY <2>2, <3>2 DEF OutputsInv
    <3>3. CASE signed' = Append(signed, new)
      <4>1. PICK T : signed \in Seq(T)
        BY DEF Shape
      <4>2. DOMAIN signed' = 1 .. Len(signed) + 1 /\ signed'[Len(signed) + 1] = new
        BY <3>3, <4>1
      <4>3. \A i \in DOMAIN signed : signed'[i] = signed[i]
        BY <3>3, <4>1
      <4>4. Len(signed) \in Nat /\ DOMAIN signed = 1 .. Len(signed)
        BY <4>1
      <4>5. \A i \in DOMAIN signed' : signed'[i] = new \/ (i \in DOMAIN signed /\ signed'[i] = signed[i])
        BY <4>2, <4>3, <4>4
      <4> QED BY <2>2, <3>1, <4>5 DEF OutputsInv
    <3> QED BY <2>2, <3>2, <3>3 DEF AddSigned, new
  <2>3. UNCHANGED <<swap, signed>> => \A i \in DOMAIN signed' : AddsUp(swap'.chain, signed'[i].tx)
    BY DEF OutputsInv
  <2>4. CASE ServerBuild
    <3>1. ASSUME NEW view \in Views, ServerBuilds(view).err = "nil"
          PROVE  AddsUp(swap.chain, ServerBuilds(view).tx[1])
      <4> DEFINE args == ArgsWith(server.conf)
      <4>1. swap.chain \in {"btc", "iota"} => SwapAmount(args) \in Nat
        BY <2>1, OutputAssumption DEF Shape, SwapAmount
      <4>2. PICK yes : yes = TRUE
        OBVIOUS
      <4>3. CASE swap.chain = "btc"
        <5>1. ServerBuilds(view) = BtcBuildRawTransaction(args, yes, view, StartExtra, server.mem)
          BY <2>1, <4>2, <4>3 DEF ServerBuilds, BuildRawTransaction
        <5> HIDE DEF args
        <5> QED BY <3>1, <4>1, <4>3, <5>1, ViewsListOutputs, BtcAddsUp
      <4>4. CASE swap.chain = "iota"
        <5>1. ServerBuilds(view) = IotaBuildRawTransaction(args, yes, view, StartExtra, server.mem)
          BY <2>1, <4>2, <4>4 DEF ServerBuilds, BuildRawTransaction
        <5> HIDE DEF args
        <5> QED BY <3>1, <4>1, <4>4, <5>1, ViewsListOutputs, IotaAddsUp
      <4>5. CASE swap.chain \notin {"btc", "iota"}
        BY <4>5 DEF AddsUp
      <4> QED BY <4>3, <4>4, <4>5
    <3> QED BY <2>3, <2>4, <3>1, BuildStep DEF OutputsInv
  <2>5. CASE ServerSign
    <3>1. AddsUp(swap.chain, server.built.tx[1])
      BY <2>5, SignStep DEF OutputsInv
    <3>2. ASSUME NEW view, ServerAsks(view).err = "nil" PROVE AddsUp(swap.chain, ServerAsks(view).tx[1])
      <4>1. CASE swap.chain \in {"btc", "iota"}
        <5>1. ServerAsks(view) = server.built
          BY <2>1, <3>2, <4>1 DEF ServerAsks, MPCSignTransaction, BtcMPCSignTransaction, Refused
        <5> QED BY <3>1, <5>1
      <4>2. CASE swap.chain \notin {"btc", "iota"}
        BY <4>2 DEF AddsUp
      <4> QED BY <4>1, <4>2
    <3> QED BY <2>2, <2>3, <2>5, <3>2, SignStep DEF OutputsInv
  <2>6. CASE ServerFinish
    BY <2>2, <2>3, <2>6, FinishStep DEF OutputsInv
  <2>7. CASE ServerRestart
    BY <2>3, <2>7, RestartStep DEF OutputsInv
  <2>8. CASE Drift \/ ServerReload \/ NodeReload \/ NodeVerify \/ NodeRestart \/ UNCHANGED vars
    BY <2>3, <2>8, OtherSteps DEF OutputsInv
  <2> QED BY <2>4, <2>5, <2>6, <2>7, <2>8 DEF Next
<1>3. OutputsInv => OutputsAddUp
  BY DEF OutputsInv, OutputsAddUp, AddsUp
<1> QED BY <1>1, <1>2, <1>3, ShapeHolds, PTL DEF Spec

=============================================================================
