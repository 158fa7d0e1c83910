----------------------------- MODULE PayoutBase -----------------------------
(***************************************************************************)
(* What the adapters of the destination chains share when they build and   *)
(* sign the payout of a swap (tokens/<chain>/buildtx.go, signtx.go).       *)
(*                                                                         *)
(* A build is a function of                                                *)
(*   args    the swap with the configuration of its tokens and its chain   *)
(*   server  whether the process is the swap server or an MPC node         *)
(*   view    what the gateways answered: a field is Nil when the call      *)
(*           failed                                                        *)
(*   extra   args.Extra, what the server settled before: empty when a swap *)
(*           is sent first, the nonce in a replacement, and everything in  *)
(*           the request an MPC node receives                              *)
(*   mem     what the process remembers of earlier builds                  *)
(* and gives an error, or a transaction with the extra it was built from.  *)
(***************************************************************************)
EXTENDS BridgeBase

CONSTANT MaxInt64   \* the largest signed integer of 64 bits, scaled down

ASSUME PayoutAssumption == MaxInt64 \in Nat

Nil == -1

\* The conversions of a big integer, which drop what does not fit.
MaxUint64 == 2 * MaxInt64 + 1
Uint64(x) == x % (MaxUint64 + 1)
Int64(x) == IF Uint64(x) > MaxInt64 THEN Uint64(x) - MaxUint64 - 1 ELSE Uint64(x)

Default(x, y) == IF x # Nil THEN x ELSE y

\* AllExtras; raw is empty or holds one transaction.
NoExtra ==
  [seq |-> Nil, gas |-> Nil, price |-> Nil, tip |-> Nil, cap |-> Nil, fee |-> Nil,
   block |-> Nil, raw |-> <<>>, replaceNum |-> 0]

\* The EVM adapter remembers the last gas price, the limit it derived from the prices it
\* saw, and the last nonce of an account; the Cosmos adapter the number of the account.
FreshMem == [latest |-> Nil, autoMax |-> Nil, cached |-> 0, account |-> 0]

Refused(err, mem) == [err |-> err, extra |-> NoExtra, tx |-> <<>>, mem |-> mem]
Built(extra, tx, mem) == [err |-> "nil", extra |-> extra, tx |-> <<tx>>, mem |-> mem]

-----------------------------------------------------------------------------
(* The checks every BuildRawTransaction starts with.  A bind is "good",    *)
(* "empty" or not an address of the chain; the sender is the MPC account   *)
(* of the token, or another one after the account was changed.             *)

Contract == "router"   \* the contract payouts call

senderError(args) ==
  IF args.toChain # args.chain THEN "ErrToChainIDMismatch"
  ELSE IF args.from = "" THEN "forbid empty sender"
  ELSE IF args.from # MPC THEN "ErrSenderMismatch"
  ELSE "nil"

\* getReceiverAndAmount
receiverError(args) ==
  IF args.token = "unknown" THEN "ErrMissTokenConfig"
  ELSE IF args.bind # "good" THEN "ErrWrongBindAddress"
  ELSE "nil"

SwapAmount(args) == CalcSwapValue(args.pair, args.value, args.whitelisted)

argsError(args) == IF senderError(args) # "nil" THEN senderError(args) ELSE receiverError(args)

\* A percentage added to a price; the division rounds down.
PlusPercent(x, percent) == (x * (100 + percent)) \div 100

RoundUp(x, unit) == IF unit = 0 \/ x % unit = 0 THEN x ELSE x + unit - (x % unit)

-----------------------------------------------------------------------------
(* Signatures.  A request is for the messages 1 .. n of a transaction.  A  *)
(* signature is known by the message it is of (0 when it is of none), its  *)
(* bytes, and whether v, the byte that tells the key from the signature,   *)
(* is right.                                                               *)

ECSize == 65   \* SignatureLength, the last byte is v
EDSize == 64

Sig(of, size, v) == [of |-> of, size |-> size, v |-> v]
Genuine(of, ec) == Sig(of, IF ec THEN ECSize ELSE EDSize, TRUE)

\* What the second half of MPCSignTransaction makes of the answer to its request.
Unsigned(err) == [err |-> err, sigs |-> <<>>]
SignedWith(sigs) == [err |-> "nil", sigs |-> sigs]

\* doSignImpl: no signature is an error, and a short one where its r value is recorded.
DoSign(ec, rsvs) ==
  IF rsvs = <<>> THEN Unsigned("errGetSignResultFailed")
  ELSE IF ec /\ \E i \in DOMAIN rsvs : rsvs[i].size # ECSize THEN Unsigned("errWrongSignatureLength")
  ELSE SignedWith(rsvs)

DoSignOne(ec, rsvs) ==
  IF DoSign(ec, rsvs).err = "nil" /\ Len(rsvs) # 1 THEN Unsigned("require one rsv but return many")
  ELSE DoSign(ec, rsvs)

\* The adapters that look at the length of the signature only.
OneOfSize(ec, rsvs) ==
  IF DoSignOne(ec, rsvs).err = "nil" /\ rsvs[1].size # (IF ec THEN ECSize ELSE EDSize)
    THEN Unsigned("wrong signature length")
  ELSE DoSignOne(ec, rsvs)

\* The adapters that verify the signature under the key of the account; v is not needed.
OneVerified(ec, rsvs) ==
  IF DoSignOne(ec, rsvs).err = "nil" /\ (rsvs[1].of # 1 \/ rsvs[1].size \notin {ECSize, EDSize})
    THEN Unsigned("verify signature error")
  ELSE DoSignOne(ec, rsvs)

\* A signature that is followed by a call which may fail.
AndThen(signature, ok) == IF signature.err = "nil" /\ ~ok THEN Unsigned("rpc error") ELSE signature

=============================================================================
