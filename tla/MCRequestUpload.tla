-------------------------- MODULE MCRequestUpload --------------------------
(* A window of two frames refilled in batches of two, and three bodies        *)
(* against a limit of two frames: none, one that the first credits carry, and  *)
(* one that needs a refill and is a frame longer than the server takes.       *)
EXTENDS RequestUpload

MCWindow == 2
MCBatch == 2
MCBodyLimit == 2
MCSourceFrames == 3
MCInit == Init /\ sourceLeft # 2
MCSpec == MCInit /\ [][Next]_vars /\ Fairness

\* For the trailing frames of a refused body: four against a limit of three.
MCLongBodyLimit == 3
MCLongSourceFrames == 4
=============================================================================
