-------------------------- MODULE MCTrainingSession --------------------------
(* Two lanes whose episodes end at different times: one of them is dealt an opening
   position as its second episode, the other always a later one. *)
EXTENDS TrainingSession, TLC

CONSTANTS l1, l2

LibraryValue ==
  LET opening == NewWorld("opening")
      later   == After(NewWorld("later"), "wait")
  IN  (l1 :> <<later, opening>>) @@ (l2 :> <<later>>)
=============================================================================
