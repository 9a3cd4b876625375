-------------------------------- MODULE Comm --------------------------------
(***************************************************************************)
(* What is stated of the communication queue and the mailbox together: a   *)
(* program uses both through the same two calls, pend and post.            *)
(***************************************************************************)
EXTENDS CommQueue, Mailbox

\* Between the steps of queue_post and queue_pend, mailbox_post and
\* mailbox_pend the levels of the two semaphores agree with what is stored, and
\* the indices stay within the array: see CommQueue and Mailbox.
TokensAgree == QueueTypeOK /\ TokensMatch /\ OneToken

\* Queue and mailbox are bounded FIFO buffers: nothing posted is lost,
\* overwritten, read twice or reordered.
CommImplementsFIFO == QueueIsFIFO /\ BoxIsFIFO
=============================================================================
