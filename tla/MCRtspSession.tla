---------------------------- MODULE MCRtspSession -----------------------------
(* A small instance of RtspSession.                                        *)
EXTENDS RtspSession

Request(word) == [word |-> word, known |-> TRUE, numbered |-> TRUE, tcp |-> FALSE]

MCRequests ==
  {Request("PLAY"), Request("SETUP"), Request("TEARDOWN"), Request("other"),
   Request("ignored"),
   [Request("SETUP") EXCEPT !.tcp = TRUE],
   [Request("DESCRIBE") EXCEPT !.known = FALSE],
   [Request("PAUSE") EXCEPT !.numbered = FALSE]}
=============================================================================
