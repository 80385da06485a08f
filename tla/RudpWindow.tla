----------------------------- MODULE RudpWindow -----------------------------
(***************************************************************************)
(* How a sender session stands to the stream of messages it has numbered:  *)
(* which of them the window holds, in which slot and under which number,   *)
(* and what the timeout arguments beside them are.  Parts of the second    *)
(* invariant of RudpInv that concern one session only.                     *)
(***************************************************************************)
EXTENDS RudpSession

\* The k-th message of the stream str of a session that started at number x.
DataPacket(x, str, k) == create_rudp_packet("DATA", SeqAdd(x, k), str[k])

\* An argument of a timeout: that of packet p, or none if sendto refused it.
ArgOf(arg, p) == arg = p \/ (SendtoFails /\ arg = NULL)

\* The session s started at number x, numbered str, and b of str are acknowledged.
Matches(s, x, str, b) ==
    LET L == Len(str) IN
    /\ b \in 0 .. L /\ L - b <= RUDP_WINDOW
    /\ \A i \in Slot :
          /\ s.sliding_window[i] = IF b + i < L THEN DataPacket(x, str, b + i + 1) ELSE NULL
          /\ ArgOf(s.data_timeout_arg[i], s.sliding_window[i])
    /\ s.status # "FIN_SENT" => s.seqno = SeqAdd(x, L) /\ ~ s.session_finished
    /\ s.status = "SYN_SENT" =>
          L = 0 /\ ArgOf(s.syn_timeout_arg, create_rudp_packet("SYN", s.seqno, NoPayload))
    /\ s.status = "FIN_SENT" =>
          /\ b = L
          /\ s.seqno = SeqAdd(x, L + 1)
          /\ ArgOf(s.fin_timeout_arg, create_rudp_packet("FIN", s.seqno, NoPayload))

\* Each of the h messages handed over is numbered or queued.
AllKept(s, str, h) ==
    \A k \in 1 .. h : \/ \E i \in 1 .. Len(str) : str[i] = k
                      \/ \E i \in 1 .. Len(s.data_queue) : s.data_queue[i] = k

=============================================================================
