---------------------------- MODULE MCMqttClient ----------------------------
(***************************************************************************)
(* MqttClient for TLC.  The clients are alike, and so are the polling      *)
(* tasks: of the behaviours that differ in their names only, one is        *)
(* explored, in which each is made after those before it.                  *)
(***************************************************************************)
EXTENDS MqttClient, SequencesExt

ClientOrder == SetToSeq(Clients)
PollOrder == SetToSeq(Polls)

\* A client stays what it is once it was made.
ClientsInOrder ==
  \A i \in 2..Len(ClientOrder) :
    client[ClientOrder[i]] # "none" => client[ClientOrder[i - 1]] # "none"

\* A task that ended leaves its place to the next one.
PollsInOrder ==
  \A i \in 2..Len(PollOrder) :
    pc[PollOrder[i]] = "none" /\ pc'[PollOrder[i]] # "none" =>
      pc[PollOrder[i - 1]] # "none"

=============================================================================
