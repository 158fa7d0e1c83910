---------------------------- MODULE MCAcceptJob ----------------------------
(* AcceptJob for TLC: three oracles, sign groups of two, a swap that the server asks to
   pay out more than once and requests that must not be signed. *)
EXTENDS AcceptJob

Req(id, s, nonce, reswap, group, kind) ==
  [id |-> id, swap |-> s, nonce |-> nonce, reswap |-> reswap, group |-> group, kind |-> kind]

MCNodes == {"a", "b", "c"}
MCRequests == {
  Req("pay",       "s1", 1, FALSE, {"a", "b"}, "right"),
  Req("again",     "s1", 2, FALSE, {"b", "c"}, "right"),
  Req("reswap",    "s1", 3, TRUE,  {"a", "c"}, "right"),
  Req("initiator", "s1", 5, FALSE, {"a", "c"}, "wrong_initiator"),
  Req("mismatch",  "s1", 1, FALSE, {"b", "c"}, "mismatch") }

============================================================================
