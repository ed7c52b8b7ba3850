----------------------------- MODULE MCWsClient -----------------------------
(***************************************************************************)
(* Small instances of WsClient.  Seven connections are what the allocator  *)
(* assumption asks for: connection_, the one each of the four coroutines   *)
(* holds, the second one of HandleRead, and one to allocate.               *)
(***************************************************************************)
EXTENDS WsClientSession

MCConns == 1 .. 7
MCNoConn == 0

\* The connections by the first place that refers to each, with their links, and
\* whether one is open that no place refers to.
Unnamed ==
  LET refs == <<conn, outer, loc["HandleRead"], loc["Monitor"],
                loc["HandleWrite1"], loc["HandleWrite2"]>>
      First(i) == CHOOSE j \in 1 .. i : refs[j] = refs[i] /\ \A n \in 1 .. j - 1 : refs[n] # refs[i]
  IN <<[i \in 1 .. Len(refs) |->
          IF refs[i] = NoConn THEN <<>> ELSE <<First(i), link[refs[i]]>>],
       \E c \in Conns : Open(c) /\ \A i \in 1 .. Len(refs) : refs[i] # c>>

\* A state up to the names of the connections and without the record of Stop: no
\* step and no invariant of a run with this VIEW depends on either.
UpToNames == <<status, reconnect, writing, queue, index, pc, Unnamed,
               idle, expired, strand, caller>>
=============================================================================
