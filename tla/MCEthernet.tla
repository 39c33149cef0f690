----------------------------- MODULE MCEthernet -----------------------------
(***************************************************************************)
(* An instance of Ethernet: one peer, A, at address a; nobody is at b.  A  *)
(* third computer, at o, sends A a chat frame of its own and one of another*)
(* protocol, and a file frame to b.                                        *)
(***************************************************************************)
EXTENDS Ethernet

PeerAddr == [A |-> "a"]

ThirdHeaders == {[dst |-> "a", src |-> "o", type |-> "chat"],
                 [dst |-> "a", src |-> "o", type |-> "other"],
                 [dst |-> "b", src |-> "o", type |-> "file"]}

WindowCourier == INSTANCE Courier WITH
    Item <- 1..MaxCalls, posted <- PostedBy("ui"), delivered <- SentBy("ui")
WorkerCourier == INSTANCE Courier WITH
    Item <- 1..MaxCalls, posted <- PostedBy("worker"), delivered <- SentBy("worker")

(* For each thread the layer is a courier of frames: every frame that it    *)
(* asked for goes out once and in its order, at last all of them, and whole *)
(* unless another thread was at work on m_sHeader.                          *)
SendsWhole == WindowCourier!Spec /\ WorkerCourier!Spec
=============================================================================
