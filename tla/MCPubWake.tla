----------------------------- MODULE MCPubWake -----------------------------
(* A small instance of PubWake: the Agent's own messages, a peer that talks *)
(* plainly or replies, and a human.                                        *)
EXTENDS PubWake

Said(from, says) == [from |-> from, says |-> says]
MCTalk == {Said("me", "chatter"), Said("peer", "chatter"), Said("peer", "reply"),
           Said("human", "mention"), Said("human", "chatter")}
=============================================================================
