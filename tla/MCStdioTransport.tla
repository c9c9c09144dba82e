-------------------------- MODULE MCStdioTransport --------------------------
(* The two sides of the transport.  What is read and what is written share   *)
(* nothing but close() and the replies to frames that are not JSON, which    *)
(* StdioTransport has as sends of its own, so each side is checked with the  *)
(* other as it was at first.                                                 *)
EXTENDS StdioTransport, FrameScanner

MCInit == Init /\ ScannerInit
MCNext == \/ ScannerInit /\ Next /\ UNCHANGED scanner
          \/ Init /\ ScannerNext /\ UNCHANGED vars
MCSpec == MCInit /\ [][MCNext]_<<vars, scanner>> /\ Fairness
=============================================================================
