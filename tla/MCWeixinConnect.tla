-------------------------- MODULE MCWeixinConnect --------------------------
(* Two peers; the first message has no text.                               *)
EXTENDS WeixinConnect

TwoPeers == <<"wordless", "ask", "ask">>
Senders == <<"ann", "bob", "ann">>
=============================================================================
