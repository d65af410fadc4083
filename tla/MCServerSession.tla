--------------------------- MODULE MCServerSession ---------------------------
(* TLC instance of ServerSession.                                            *)
EXTENDS ServerSession

CONSTANTS o1, o2, f1, f2

Submit(o, f) == [kind |-> "submit", op |-> o, frame |-> f]
Cancel(o, f) == [kind |-> "cancel", op |-> o, frame |-> f]
Other(o, f) == [kind |-> "other", op |-> o, frame |-> f]

(* A skipped event before a submit; a cancelled operation that is submitted *)
(* again at another frame; two operations and their events interleaved; an  *)
(* operation that is submitted twice at one frame.                          *)
MCTraffic ==
  { <<Other(o1, f1), Submit(o1, f1), Cancel(o1, f1), Submit(o2, f2)>>,
    <<Submit(o1, f1), Cancel(o1, f1), Submit(o1, f2)>>,
    <<Submit(o1, f1), Submit(o2, f2), Other(o2, f2), Other(o1, f1)>>,
    <<Submit(o1, f1), Submit(o1, f1), Submit(o1, f2)>> }
=============================================================================
