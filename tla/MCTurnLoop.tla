----------------------------- MODULE MCTurnLoop -----------------------------
(* An instance of TurnLoop for TLC: a chat with one earlier exchange.      *)
EXTENDS TurnLoop

MCHistories == {<<Msg("user", "past"), Text>>}

(* Every call has its answer in each request, requests are bounded, and a  *)
(* write that was held is put to the model once more before the answer.    *)
RoundsInOrder == PairedRequests /\ RequestsBounded /\ HeldWriteIsRaised

(* What the operator asked is stored before a model is asked anything, and *)
(* this turn has the last word in every request, however much was cut, as  *)
(* long as no summary failed.                                              *)
AskedInThisTurn == AskedOnRecord /\ LastWordIsThisTurns
=============================================================================
