---------------------------- MODULE MCTradeMakers ----------------------------
(* Two wallets, two tokens, and the transactions that matter: a buy with a *)
(* mint, a sell that overdraws, one that also moves another token, a burn.  *)
EXTENDS TradeMakers

MCWallets == {"alice", "bob"}

Move(token, from, to, value) == [token |-> token, from |-> from, to |-> to, value |-> value]

MCBundles == {
    [token |-> "T", isBuy |-> TRUE, message |-> "swap",
     transfers |-> <<Move("T", "zero", "alice", 2), Move("T", "alice", "bob", 1)>>],
    [token |-> "T", isBuy |-> FALSE, message |-> "swap",
     transfers |-> <<Move("T", "bob", "alice", 2), Move("U", "alice", "bob", 1)>>],
    [token |-> "T", isBuy |-> FALSE, message |-> "other",
     transfers |-> <<Move("T", "alice", "zero", 1)>>],
    [token |-> "T", isBuy |-> FALSE, message |-> "none",
     transfers |-> <<Move("T", "alice", "bob", 1)>>]}
=============================================================================
