------------------------------- MODULE MCSender -------------------------------
(* A Sender whose queue holds two packets instead of 1000, handed five:    *)
(* the queue fills, overflows, drains and fills again.                     *)
EXTENDS Sender

MCQueueLimit == 2
MCMaxPackets == 5
=============================================================================
