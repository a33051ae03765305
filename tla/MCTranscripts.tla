--------------------------- MODULE MCTranscripts ---------------------------
(* One transcript, and requests about it: a budget of two attempts lets a    *)
(* job go back to the queue while a deletion is tried.                       *)
EXTENDS Transcripts

MCMaxAttempts == [r \in Requests |-> 2]

MCInput == [r \in Requests |-> CHOOSE t \in Transcripts : TRUE]
=============================================================================
