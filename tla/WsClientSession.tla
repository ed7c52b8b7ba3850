-------------------------- MODULE WsClientSession ---------------------------
(***************************************************************************)
(* WsClient implements WsSession: what is pending is what is queued, then  *)
(* what Write has posted to the strand.                                    *)
(***************************************************************************)
EXTENDS WsClient, HandlerQueue

\* The messages of the functions that Write has posted, in their order.
MsgOf == [h \in {Posted(m) : m \in Msgs} |-> h.msg]
PostedMsgs == Picked(strand, MsgOf)

Session == INSTANCE WsSession WITH pending <- queue \o PostedMsgs

\* The client keeps the promise of WsSession: sessions one after the other until
\* Stop, and in each the accepted messages in order, each at most once, none of
\* an earlier session (Write, HandleWrite, Connect and Close together).
KeepsPromise == Session!Spec
=============================================================================
